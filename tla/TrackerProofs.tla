--------------------------- MODULE TrackerProofs ---------------------------
(***************************************************************************)
(* The tracker hands every event to the browser once, reports every vital  *)
(* at most once and every visit once, for any number of paths, visits and  *)
(* calls of track(); and the framework adapters report every route once.   *)
(*                                                                         *)
(* Every step of the tracker moves events one way: the events it records,  *)
(* next .. next' - 1, enter the buffer, and a batch leaves it, of which    *)
(* those before the first that JSON.stringify throws on reach the browser  *)
(* (Moved).  The invariants about events follow from that alone.           *)
(***************************************************************************)
EXTENDS Tracker, Adapters, Integers, TLAPS, FiniteSetTheorems

Final == {"LCP", "CLS", "INP"}

In(v, S) == IF v \in S THEN 1 ELSE 0

Reported(r) == r["TTFB"] + r["FCP"] + r["LCP"] + r["CLS"] + r["INP"]

----------------------------------------------------------------------------
(* Counting *)

LEMMA VitalsCount == Cardinality(Vitals) = 5 /\ IsFiniteSet(Vitals)
<1> DEFINE A == {"TTFB"}
           B == A \cup {"FCP"}
           C == B \cup {"LCP"}
           D == C \cup {"CLS"}
           E == D \cup {"INP"}
<1>1. IsFiniteSet(A) /\ Cardinality(A) = 1 BY FS_Singleton
<1>2. IsFiniteSet(B) /\ Cardinality(B) = 2
  <2>1. "FCP" \notin A OBVIOUS
  <2>2. QED BY <1>1, <2>1, FS_AddElement
<1>3. IsFiniteSet(C) /\ Cardinality(C) = 3
  <2>1. "LCP" \notin B OBVIOUS
  <2> HIDE DEF B
  <2>2. QED BY <1>2, <2>1, FS_AddElement
<1>4. IsFiniteSet(D) /\ Cardinality(D) = 4
  <2>1. "CLS" \notin C OBVIOUS
  <2> HIDE DEF C
  <2>2. QED BY <1>3, <2>1, FS_AddElement
<1>5. IsFiniteSet(E) /\ Cardinality(E) = 5
  <2>1. "INP" \notin D OBVIOUS
  <2> HIDE DEF D
  <2>2. QED BY <1>4, <2>1, FS_AddElement
<1>6. E = Vitals BY DEF Vitals
<1> HIDE DEF E
<1>7. QED BY <1>5, <1>6

LEMMA EventBound == MaxEvents \in Nat /\ MaxEvents = MaxTracked + MaxVisits + 5
BY VitalsCount, BoundAssumption DEF MaxEvents

LEMMA FinalCount ==
  ASSUME NEW S \in SUBSET Final
  PROVE  Cardinality(S) = In("LCP", S) + In("CLS", S) + In("INP", S)
<1> DEFINE A == S \ {"LCP"}
           B == A \ {"CLS"}
           C == B \ {"INP"}
<1>1. IsFiniteSet(S)
  <2>1. IsFiniteSet(Vitals) /\ S \subseteq Vitals BY VitalsCount DEF Final, Vitals
  <2>2. QED BY <2>1, FS_Subset
<1>2. IsFiniteSet(A) /\ Cardinality(A) = Cardinality(S) - In("LCP", S)
  <2>1. Cardinality(S) \in Nat BY <1>1, FS_CardinalityType
  <2>2. QED BY <1>1, <2>1, FS_RemoveElement DEF In
<1>3. IsFiniteSet(B) /\ Cardinality(B) = Cardinality(A) - In("CLS", S)
  <2>1. "CLS" \in A <=> "CLS" \in S OBVIOUS
  <2> HIDE DEF A
  <2>2. Cardinality(A) \in Nat BY <1>2, FS_CardinalityType
  <2>3. QED BY <1>2, <2>1, <2>2, FS_RemoveElement DEF In
<1>4. IsFiniteSet(C) /\ Cardinality(C) = Cardinality(B) - In("INP", S)
  <2>1. "INP" \in B <=> "INP" \in S OBVIOUS
  <2> HIDE DEF B
  <2>2. Cardinality(B) \in Nat BY <1>3, FS_CardinalityType
  <2>3. QED BY <1>3, <2>1, <2>2, FS_RemoveElement DEF In
<1>5. C = {} BY DEF Final
<1> HIDE DEF A, B, C
<1>6. Cardinality(C) = 0 BY <1>5, FS_EmptySet
<1>7. Cardinality(S) \in Nat /\ Cardinality(A) \in Nat /\ Cardinality(B) \in Nat
  BY <1>1, <1>2, <1>3, FS_CardinalityType
<1>8. In("LCP", S) \in Int /\ In("CLS", S) \in Int /\ In("INP", S) \in Int BY DEF In
<1>9. QED BY <1>2, <1>3, <1>4, <1>6, <1>7, <1>8

LEMMA MeetCount ==
  ASSUME NEW i, NEW S
  PROVE  Cardinality({i} \cap S) = In(i, S)
<1>1. CASE i \in S
  <2>1. {i} \cap S = {i} BY <1>1
  <2>2. QED BY <1>1, <2>1, FS_Singleton DEF In
<1>2. CASE i \notin S
  <2>1. {i} \cap S = {} BY <1>2
  <2>2. QED BY <1>2, <2>1, FS_EmptySet DEF In
<1>3. QED BY <1>1, <1>2

(* The events of one call of emit() are the next ones, or none. *)
LEMMA EmittedIs ==
  ASSUME next \in Nat, NEW n \in Nat, NEW p
  PROVE  /\ Cardinality(Emitted(n, p)) = IF Recording(p) THEN n ELSE 0
         /\ Emitted(n, p) = next .. next + Cardinality(Emitted(n, p)) - 1
<1>1. CASE Recording(p)
  <2>1. Emitted(n, p) = next .. next + n - 1 BY <1>1 DEF Emitted
  <2>2. Cardinality(next .. next + n - 1) = n BY FS_Interval
  <2>3. QED BY <1>1, <2>1, <2>2
<1>2. CASE ~Recording(p)
  <2>1. Emitted(n, p) = {} BY <1>2 DEF Emitted
  <2>2. Cardinality(Emitted(n, p)) = 0 BY <2>1, FS_EmptySet
  <2>3. next .. next + 0 - 1 = {} OBVIOUS
  <2>4. QED BY <1>2, <2>1, <2>2, <2>3
<1>3. QED BY <1>1, <1>2

----------------------------------------------------------------------------
(* The invariant *)

(* The vitals reported are those that are done. *)
ReportInv ==
  /\ done \subseteq Final
  /\ reports["TTFB"] \in 0 .. 1
  /\ reports["FCP"] = In("FCP", stopped)
  /\ \A v \in Final : reports[v] = In(v, done)

(* Every event is a call of track(), the pageview of a visit or a vital: n is *)
(* the number of the next event, b says that a pageview is still to come, s  *)
(* counts the visits and r the reports.                                      *)
Bounded(n, b, s, r) == n + (IF b THEN 1 ELSE 0) <= 1 + MaxTracked + s + Reported(r)

CountInv ==
  /\ lastURL = path
  /\ Bounded(next, booting, visit, reports)

(* The buffer holds the last events that were recorded.                      *)
BufInv ==
  /\ \A i \in buf : i < next /\ i .. next - 1 \subseteq buf
  /\ SentOnce

(* No event from before a call of flush() is in the buffer again, and those   *)
(* still on their way are awaited.                                           *)
FlushInv ==
  /\ flush.before <= next
  /\ flush.at # "none" =>
       \A i \in Ids : i < flush.before =>
         i \notin buf /\ (i \in pending => flush.at = "waiting" /\ i \in flush.on)

(* Visits are owed a pageview in their order, and paid at once. *)
VisitInv ==
  /\ owed \subseteq 1 .. visit
  /\ ~early => IF booting THEN owed = {} /\ \A v \in 1 .. MaxVisits : viewed[v] = 0
               ELSE \A v \in 1 .. MaxVisits : viewed[v] = In(v, owed)

AwayInv == AwayIsFlushed /\ (page = "away" => ~booting)

Inv ==
  /\ TypeOK /\ ReportInv /\ CountInv /\ BufInv /\ FlushInv /\ VisitInv /\ AwayInv

LEMMA InvTypes ==
  ASSUME TypeOK
  PROVE  /\ next \in Nat /\ 1 <= next /\ MaxEvents \in Nat /\ visit \in Nat /\ 1 <= visit
         /\ visit <= MaxVisits
         /\ reports["TTFB"] \in Nat /\ reports["FCP"] \in Nat /\ reports["LCP"] \in Nat
         /\ reports["CLS"] \in Nat /\ reports["INP"] \in Nat
         /\ \A i \in Ids : sent[i] \in Nat /\ i \in Nat
BY EventBound DEF TypeOK, Ids, Vitals

LEMMA NextType ==
  ASSUME NEW n \in Nat, NEW b \in BOOLEAN, NEW s \in 1 .. MaxVisits,
         NEW r \in [Vitals -> 0 .. 1], 1 <= n, Bounded(n, b, s, r)
  PROVE  n \in 1 .. MaxEvents + 1
<1>1. /\ r["TTFB"] \in 0 .. 1 /\ r["FCP"] \in 0 .. 1 /\ r["LCP"] \in 0 .. 1
      /\ r["CLS"] \in 0 .. 1 /\ r["INP"] \in 0 .. 1
  BY DEF Vitals
<1>2. n <= 1 + MaxTracked + s + Reported(r) BY <1>1, BoundAssumption DEF Bounded, Reported
<1>3. QED BY <1>1, <1>2, EventBound, BoundAssumption DEF Reported

----------------------------------------------------------------------------
(* Events move one way *)

(* The events up to n are recorded and enter the buffer, and out leaves it.   *)
Moved(out, n) ==
  /\ n \in Nat /\ next <= n /\ next' = n
  /\ out \in {{}, buf, buf \cup (next .. n - 1)}
  /\ buf' = (buf \cup (next .. n - 1)) \ out
  /\ sent' = [i \in Ids |-> sent[i] + In(i, Serialised(out))]
  /\ pending' \subseteq pending \cup Serialised(out)
  /\ broken \subseteq broken' /\ broken' \subseteq Ids

LEMMA MovedTypes ==
  ASSUME TypeOK, BufInv, NEW out, NEW n \in 1 .. MaxEvents + 1, Moved(out, n)
  PROVE  /\ buf' \subseteq Ids /\ pending' \subseteq Ids
         /\ sent' \in [Ids -> Nat] /\ broken' \subseteq Ids
<1>1. next \in Nat /\ 1 <= next /\ MaxEvents \in Nat BY InvTypes
<1>2. next .. n - 1 \subseteq Ids BY <1>1 DEF Ids
<1>3. out \subseteq Ids /\ buf' \subseteq Ids BY <1>2 DEF Moved, TypeOK
<1>4. sent' \in [Ids -> Nat] BY InvTypes DEF Moved, In
<1>5. Serialised(out) \subseteq out BY DEF Serialised
<1>6. QED BY <1>3, <1>4, <1>5 DEF Moved, TypeOK

(* A batch has no gaps. *)
LEMMA Block ==
  ASSUME TypeOK, BufInv, NEW out, NEW n \in 1 .. MaxEvents + 1, Moved(out, n),
         NEW b \in out, NEW i \in out
  PROVE  b .. i \subseteq out
<1>1. next \in Nat /\ next <= n /\ n \in Nat BY InvTypes DEF Moved
<1>2. buf \subseteq Nat BY EventBound DEF TypeOK, Ids
<1>3. \A x \in buf : x < next /\ x .. next - 1 \subseteq buf BY DEF BufInv
<1>4. out = buf \/ out = buf \cup (next .. n - 1) BY DEF Moved
<1>5. SUFFICES ASSUME NEW j \in b .. i PROVE j \in out OBVIOUS
<1>6. b \in Nat /\ i \in Nat /\ j \in Nat /\ b <= j /\ j <= i /\ i < n
  <2>1. \A x \in next .. n - 1 : x \in Nat /\ x < n BY <1>1
  <2>2. \A x \in buf : x \in Nat /\ x < n BY <1>1, <1>2, <1>3
  <2>3. \A x \in out : x \in Nat /\ x < n BY <1>4, <2>1, <2>2
  <2>4. b \in Nat /\ i \in Nat /\ i < n BY <2>3
  <2>5. QED BY <1>5, <2>4
<1>7. i < n BY <1>6
<1>8. CASE j < next
  <2>1. b \in buf BY <1>1, <1>4, <1>6, <1>8
  <2>2. j \in b .. next - 1 BY <1>1, <1>6, <1>8
  <2>3. QED BY <1>3, <1>4, <2>1, <2>2
<1>9. CASE ~(j < next)
  <2>1. i \notin buf BY <1>1, <1>3, <1>6, <1>9
  <2>2. out = buf \cup (next .. n - 1) BY <1>4, <2>1
  <2>3. j \in next .. n - 1 BY <1>1, <1>6, <1>7, <1>9
  <2>4. QED BY <2>2, <2>3
<1>10. QED BY <1>8, <1>9

LEMMA MovedBuf ==
  ASSUME TypeOK, BufInv, NEW out, NEW n \in 1 .. MaxEvents + 1, Moved(out, n)
  PROVE  BufInv'
<1> DEFINE S == Serialised(out)
<1>1. next \in Nat /\ 1 <= next /\ next <= n /\ next' = n /\ MaxEvents \in Nat /\ n \in Nat
  BY InvTypes DEF Moved
<1>2. ASSUME NEW i \in Ids
      PROVE  /\ i \in Nat /\ sent[i] \in Nat /\ sent'[i] = sent[i] + In(i, S)
             /\ i \in out => i < n /\ i \notin buf' /\ (i \in buf \/ next <= i) /\ sent[i] = 0
             /\ i \notin out => /\ In(i, S) = 0
                                /\ i < next /\ i \notin buf <=> i < n /\ i \notin buf'
             /\ i \in buf' <=> (i \in buf \/ (next <= i /\ i < n)) /\ i \notin out
             /\ i \in buf => i < next
  <2>1. i \in Nat /\ sent[i] \in Nat BY <1>1, InvTypes DEF Ids
  <2>2. sent'[i] = sent[i] + In(i, S) BY DEF Moved
  <2>3. i \in buf => i < next BY DEF BufInv
  <2>4. i \in next .. n - 1 <=> next <= i /\ i < n BY <1>1, <2>1
  <2>5. i \in buf' <=> (i \in buf \/ (next <= i /\ i < n)) /\ i \notin out
    BY <2>4 DEF Moved
  <2>6. i \in out => i \in buf \/ (next <= i /\ i < n) BY <2>4 DEF Moved
  <2>7. sent[i] <= IF i < next /\ i \notin buf THEN 1 ELSE 0 BY DEF BufInv, SentOnce
  <2>8. i \in out => i < n /\ i \notin buf' /\ (i \in buf \/ next <= i) /\ sent[i] = 0
    BY <1>1, <2>1, <2>3, <2>5, <2>6, <2>7
  <2>9. i \notin out => In(i, S) = 0 BY DEF In, Serialised
  <2>10. i \notin out => (i < next /\ i \notin buf <=> i < n /\ i \notin buf')
    BY <1>1, <2>1, <2>3, <2>5
  <2>11. QED BY <2>1, <2>2, <2>3, <2>5, <2>8, <2>9, <2>10
<1> DEFINE L == {i \in Ids : i < n /\ i \notin buf' /\ sent'[i] = 0}
<1>3. Lost' = L BY <1>1 DEF Lost
<1>4. ASSUME NEW i \in Ids PROVE sent'[i] <= IF i < n /\ i \notin buf' THEN 1 ELSE 0
  <2>1. In(i, S) \in 0 .. 1 BY DEF In
  <2>2. CASE i \in out BY <1>2, <2>1, <2>2
  <2>3. CASE i \notin out
    <3>1. sent'[i] = sent[i] BY <1>2, <2>3
    <3>2. sent[i] <= IF i < next /\ i \notin buf THEN 1 ELSE 0 BY DEF BufInv, SentOnce
    <3>3. QED BY <1>2, <2>3, <3>1, <3>2
  <2>4. QED BY <2>2, <2>3
<1>5. Lost \subseteq L
  <2>1. SUFFICES ASSUME NEW j \in Lost PROVE j \in L OBVIOUS
  <2>2. j \in Ids /\ j < next /\ j \notin buf /\ sent[j] = 0 BY DEF Lost
  <2>3. j \notin out BY <1>1, <1>2, <2>2
  <2>4. QED BY <1>2, <2>2, <2>3
<1>6. out \subseteq Ids
  <2>1. next .. n - 1 \subseteq Ids BY <1>1 DEF Ids
  <2>2. QED BY <2>1 DEF Moved, TypeOK
<1>7. ASSUME NEW i \in L PROVE \E b \in broken' \cap L : b <= i /\ b .. i \subseteq L
  <2>1. i \in Ids /\ i < n /\ i \notin buf' /\ sent'[i] = 0 OBVIOUS
  <2>2. CASE i \in out
    <3>0. sent[i] = 0 /\ 0 = sent[i] + In(i, S) /\ In(i, S) \in {0, 1}
      BY <1>2, <2>1, <2>2 DEF In
    <3>1. In(i, S) = 0 BY <3>0
    <3>2. i \notin S BY <3>1 DEF In
    <3>3. PICK b \in out \cap broken : ~(i < b) BY <2>2, <3>2 DEF Serialised
    <3>4. b \in Nat /\ i \in Nat /\ b <= i BY <1>2, <1>6, <2>1, <3>3
    <3>5. ASSUME NEW j \in b .. i PROVE j \in L
      <4>1. j \in out BY <2>2, <3>3, Block
      <4>2. j \in Ids /\ ~(j < b) BY <1>6, <3>4, <4>1
      <4>3. j \notin S BY <3>3, <4>2 DEF Serialised
      <4>4. In(j, S) = 0 BY <4>3 DEF In
      <4>5. j < n /\ j \notin buf' /\ sent'[j] = 0 BY <1>2, <4>1, <4>2, <4>4
      <4>6. QED BY <4>2, <4>5
    <3>6. b \in b .. i BY <3>4
    <3>7. b \in broken' BY <3>3 DEF Moved
    <3> HIDE DEF L
    <3>8. b \in L /\ b .. i \subseteq L BY <3>5, <3>6
    <3>9. QED BY <3>4, <3>7, <3>8
  <2>3. CASE i \notin out
    <3>1. sent[i] = 0 /\ i < next /\ i \notin buf BY <1>2, <2>1, <2>3
    <3>2. i \in Lost BY <2>1, <3>1 DEF Lost
    <3>3. PICK b \in broken \cap Lost : b <= i /\ b .. i \subseteq Lost
      BY <3>2 DEF BufInv, SentOnce
    <3>4. broken \subseteq broken' BY DEF Moved
    <3> HIDE DEF L
    <3>5. QED BY <1>5, <3>3, <3>4
  <2>4. QED BY <2>2, <2>3
<1> HIDE DEF L
<1>8. SentOnce' BY <1>1, <1>3, <1>4, <1>7 DEF SentOnce
<1>9. ASSUME NEW i \in buf' PROVE i < n /\ i .. n - 1 \subseteq buf'
  <2>1. i \in Ids BY MovedTypes
  <2>2. i \in Nat /\ i \notin out /\ (i \in buf \/ (next <= i /\ i < n)) BY <1>2, <2>1
  <2>3. i < n BY <1>1, <1>2, <2>1, <2>2
  <2>4. ASSUME NEW j \in i .. n - 1 PROVE j \in buf'
    <3>1. j \in Ids /\ j \in Nat /\ i <= j /\ j < n BY <1>1, <2>1, <2>2 DEF Ids
    <3>2. i \in buf /\ j < next => j \in buf
      <4>1. i \in buf => i .. next - 1 \subseteq buf BY DEF BufInv
      <4>2. j < next => j \in i .. next - 1 BY <1>1, <2>2, <3>1
      <4>3. QED BY <4>1, <4>2
    <3>3. j \in buf \/ (next <= j /\ j < n) BY <1>1, <2>2, <3>1, <3>2
    <3>4. j \notin out
      <4>1. CASE out = {} BY <4>1
      <4>2. CASE out = buf BY <1>1, <1>2, <2>2, <3>1, <4>2
      <4>3. out # buf \cup (next .. n - 1) BY <1>1, <2>2
      <4>4. QED BY <4>1, <4>2, <4>3 DEF Moved
    <3>5. QED BY <1>2, <3>1, <3>3, <3>4
  <2>5. QED BY <2>3, <2>4
<1>10. QED BY <1>1, <1>8, <1>9 DEF BufInv

LEMMA MovedFlush ==
  ASSUME TypeOK, BufInv, FlushInv, NEW out, NEW n \in Nat, Moved(out, n), flush' = flush
  PROVE  FlushInv'
<1>1. next \in Nat /\ next <= n /\ next' = n /\ MaxEvents \in Nat /\ flush.before \in Nat
  BY InvTypes DEF Moved, TypeOK
<1>2. flush.before <= n BY <1>1 DEF FlushInv
<1>3. ASSUME NEW i \in Ids, flush.at # "none", i < flush.before
      PROVE  i \notin buf' /\ (i \in pending' => flush.at = "waiting" /\ i \in flush.on)
  <2>1. i \in Nat BY <1>1 DEF Ids
  <2>2. i < next BY <1>1, <1>3, <2>1 DEF FlushInv
  <2>3. i \notin buf /\ (i \in pending => flush.at = "waiting" /\ i \in flush.on)
    BY <1>3 DEF FlushInv
  <2>4. i \notin next .. n - 1 BY <1>1, <2>1, <2>2
  <2>5. i \notin Serialised(out) BY <2>3, <2>4 DEF Moved, Serialised
  <2>6. QED BY <2>3, <2>4, <2>5 DEF Moved
<1>4. QED BY <1>1, <1>2, <1>3 DEF FlushInv

(* No event is recorded and none leaves the buffer. *)
LEMMA Still ==
  ASSUME Inv, UNCHANGED <<buf, next, sent, broken>>, pending' \subseteq pending
  PROVE  Moved({}, next)
<1>0. Serialised({}) = {} /\ broken \subseteq Ids /\ broken' = broken
  BY DEF Serialised, Inv, TypeOK
<1>1. next \in Nat /\ next' = next /\ buf' = buf /\ sent' = sent BY InvTypes DEF Inv
<1>2. next .. next - 1 = {} BY <1>1
<1>3. sent' = [i \in Ids |-> sent[i] + In(i, {})]
  <2>1. sent \in [Ids -> Nat] BY DEF Inv, TypeOK
  <2>2. \A i \in Ids : sent[i] + In(i, {}) = sent[i] BY <2>1 DEF In
  <2>3. QED BY <1>1, <2>1, <2>2
<1>4. buf' = (buf \cup (next .. next - 1)) \ {} BY <1>1, <1>2
<1>5. sent' = [i \in Ids |-> sent[i] + In(i, Serialised({}))] BY <1>0, <1>3
<1>6. QED BY <1>0, <1>1, <1>4, <1>5 DEF Moved

(* emit() is called k times. *)
LEMMA Recorded ==
  ASSUME Inv, NEW k \in Nat, NEW p, Emit(Emitted(k, p)), UNCHANGED sendVars,
         broken \subseteq broken', broken' \subseteq Ids
  PROVE  /\ Moved({}, next + Cardinality(Emitted(k, p)))
         /\ Cardinality(Emitted(k, p)) \in 0 .. k
         /\ timer' \in BOOLEAN
<1> DEFINE c == Cardinality(Emitted(k, p))
<1>1. next \in Nat BY InvTypes DEF Inv
<1>2. c \in 0 .. k /\ Emitted(k, p) = next .. (next + c) - 1
  BY <1>1, EmittedIs
<1>3. buf' = buf \cup Emitted(k, p) /\ next' = next + c /\ sent' = sent /\ pending' = pending
  BY DEF Emit, sendVars
<1> HIDE DEF c
<1>4. timer' \in BOOLEAN BY Zenon DEF Emit
<1>5. buf' = (buf \cup (next .. (next + c) - 1)) \ {} BY <1>2, <1>3
<1>6. sent' = [i \in Ids |-> sent[i] + In(i, {})]
  <2>1. sent \in [Ids -> Nat] BY DEF Inv, TypeOK
  <2>2. \A i \in Ids : sent[i] + In(i, {}) = sent[i] BY <2>1 DEF In
  <2>3. QED BY <1>3, <2>1, <2>2
<1>7. next + c \in Nat /\ next <= next + c BY <1>1, <1>2
<1>0. Serialised({}) = {} BY DEF Serialised
<1>8. Moved({}, next + c) BY <1>0, <1>3, <1>5, <1>6, <1>7 DEF Moved
<1>9. QED BY <1>2, <1>4, <1>8 DEF c

(* Every request carries one event, which goes by beacon or by fetch. *)
LEMMA SentIs ==
  ASSUME TypeOK, NEW beacons, NEW fetches, beacons \cap fetches = {}
  PROVE  Sent(beacons, fetches) = [i \in Ids |-> sent[i] + In(i, beacons \cup fetches)]
<1>1. ASSUME NEW i \in Ids
      PROVE  sent[i] + Cardinality({i} \cap beacons) + Cardinality({i} \cap fetches)
               = sent[i] + In(i, beacons \cup fetches)
  <2>1. sent[i] \in Nat BY InvTypes
  <2>2. Cardinality({i} \cap beacons) = In(i, beacons)
        /\ Cardinality({i} \cap fetches) = In(i, fetches)
    BY MeetCount
  <2>3. CASE i \in beacons BY <2>1, <2>2, <2>3 DEF In
  <2>4. CASE i \notin beacons BY <2>1, <2>2, <2>4 DEF In
  <2>5. QED BY <2>3, <2>4
<1>2. QED BY <1>1 DEF Sent

(* What leaves the buffer by flush() or the timer goes by fetch. *)
LEMMA SendMoves ==
  ASSUME Inv, Send(buf), buf' = {}, next' = next, broken' = broken
  PROVE  Moved(buf, next)
<1> DEFINE S == Serialised(buf)
<1>1. next \in Nat BY InvTypes DEF Inv
<1>2. sent' = [i \in Ids |-> sent[i] + In(i, S)]
  <2>1. sent' = Sent({}, S) BY DEF Send
  <2> HIDE DEF S
  <2>2. Sent({}, S) = [i \in Ids |-> sent[i] + In(i, {} \cup S)] BY SentIs DEF Inv
  <2>3. {} \cup S = S OBVIOUS
  <2>4. QED BY <2>1, <2>2, <2>3
<1>3. next .. next - 1 = {} BY <1>1
<1>4. pending' = pending \cup S BY DEF Send
<1>5. broken \subseteq Ids BY DEF Inv, TypeOK
<1>6. QED BY <1>1, <1>2, <1>3, <1>4, <1>5 DEF Moved

(* When the page is left or hidden, by beacon, or by fetch where that throws. *)
LEMMA UnloadMoves ==
  ASSUME Inv, NEW all, NEW n \in Nat, next <= n, next' = n,
         all \in {buf, buf \cup (next .. n - 1)}, SendUnload(all), broken' = broken,
         buf' = (buf \cup (next .. n - 1)) \ all
  PROVE  Moved(all, n)
<1> DEFINE S == Serialised(all)
<1>1. PICK thrown \in SUBSET S : /\ sent' = Sent(S \ thrown, thrown)
                                 /\ pending' = pending \cup thrown
  BY Zenon DEF SendUnload, ByFetch
<1>2. sent' = [i \in Ids |-> sent[i] + In(i, S)]
  <2> HIDE DEF S
  <2> DEFINE B == S \ thrown
  <2>1. TypeOK /\ B \cap thrown = {} /\ B \cup thrown = S BY DEF Inv
  <2>2. sent' = Sent(B, thrown) BY <1>1
  <2> HIDE DEF B
  <2>3. Sent(B, thrown) = [i \in Ids |-> sent[i] + In(i, B \cup thrown)]
    BY <2>1, SentIs
  <2>4. QED BY <2>1, <2>2, <2>3
<1>3. pending' \subseteq pending \cup S BY <1>1
<1>4. broken \subseteq Ids BY DEF Inv, TypeOK
<1>5. QED BY <1>2, <1>3, <1>4 DEF Moved

----------------------------------------------------------------------------
(* The other parts of the invariant *)

LEMMA VitalsSame ==
  ASSUME Inv, UNCHANGED vitalVars
  PROVE  /\ seen' \subseteq Vitals /\ stopped' \subseteq Vitals
         /\ reports' \in [Vitals -> Nat] /\ ReportInv' /\ reports' = reports
<1>1. seen' = seen /\ stopped' = stopped /\ done' = done /\ reports' = reports
  BY DEF vitalVars
<1>2. QED BY <1>1 DEF Inv, TypeOK, ReportInv

LEMMA VisitSame ==
  ASSUME Inv, UNCHANGED <<visit, viewed, owed, early, booting>>
  PROVE  /\ visit' \in 1 .. MaxVisits /\ viewed' \in [1 .. MaxVisits -> Nat]
         /\ early' \in BOOLEAN /\ booting' \in BOOLEAN /\ VisitInv'
         /\ visit' = visit /\ booting' = booting
BY DEF Inv, TypeOK, VisitInv

LEMMA BoundedNow ==
  ASSUME Inv
  PROVE  Bounded(next, booting, visit, reports)
BY DEF Inv, CountInv

LEMMA Combine ==
  ASSUME Inv, NEW out, NEW n \in Nat, Moved(out, n),
         page' \in {"open", "hidden", "away"}, booting' \in BOOLEAN, enabled' \in BOOLEAN,
         timer' \in BOOLEAN, early' \in BOOLEAN, path' \in Paths, lastURL' = path',
         flush' \in [at : {"none", "waiting", "resolved"}, on : SUBSET Ids, before : Nat],
         1 <= flush'.before, FlushInv',
         seen' \subseteq Vitals, stopped' \subseteq Vitals,
         reports' \in [Vitals -> Nat], ReportInv',
         visit' \in 1 .. MaxVisits, viewed' \in [1 .. MaxVisits -> Nat], VisitInv',
         Bounded(n, booting', visit', reports'), AwayInv'
  PROVE  Inv'
<1>1. next \in Nat /\ 1 <= next /\ next <= n /\ next' = n /\ MaxEvents \in Nat
  BY InvTypes DEF Moved, Inv
<1>2. reports' \in [Vitals -> 0 .. 1]
  <2>1. ASSUME NEW v \in Vitals PROVE reports'[v] \in 0 .. 1
    <3>1. v = "TTFB" \/ v = "FCP" \/ v \in Final BY DEF Vitals, Final
    <3>2. QED BY <3>1 DEF ReportInv, In
  <2>2. QED BY <2>1
<1>3. n \in 1 .. MaxEvents + 1
  <2>1. 1 <= n BY <1>1
  <2>2. QED BY <1>2, <2>1, NextType
<1>4. /\ buf' \subseteq Ids /\ pending' \subseteq Ids /\ sent' \in [Ids -> Nat]
      /\ broken' \subseteq Ids
  BY <1>3, MovedTypes DEF Inv
<1>5. BufInv' BY <1>3, MovedBuf DEF Inv
<1>6. flush' \in [at : {"none", "waiting", "resolved"}, on : SUBSET Ids,
                  before : 1 .. MaxEvents + 1]
  <2>1. flush'.before <= n BY <1>1 DEF FlushInv
  <2>2. flush'.before \in Nat OBVIOUS
  <2>3. flush'.before \in 1 .. MaxEvents + 1 BY <1>1, <1>3, <2>1, <2>2
  <2>4. QED BY <2>3
<1>7. done' \subseteq Vitals BY DEF ReportInv, Final, Vitals
<1>8. owed' \subseteq 1 .. MaxVisits
  <2>1. owed' \subseteq 1 .. visit' BY DEF VisitInv
  <2>2. 1 .. visit' \subseteq 1 .. MaxVisits BY BoundAssumption
  <2>3. QED BY <2>1, <2>2
<1>9. TypeOK' BY <1>1, <1>3, <1>4, <1>6, <1>7, <1>8 DEF TypeOK
<1>10. CountInv' BY <1>1 DEF CountInv
<1>11. QED BY <1>5, <1>9, <1>10 DEF Inv

LEMMA FlushSame ==
  ASSUME Inv, NEW out, NEW n \in Nat, Moved(out, n), flush' = flush
  PROVE  /\ flush' \in [at : {"none", "waiting", "resolved"}, on : SUBSET Ids, before : Nat]
         /\ 1 <= flush'.before /\ FlushInv'
<1>1. flush \in [at : {"none", "waiting", "resolved"}, on : SUBSET Ids,
                 before : 1 .. MaxEvents + 1]
  BY DEF Inv, TypeOK
<1>2. flush \in [at : {"none", "waiting", "resolved"}, on : SUBSET Ids, before : Nat]
      /\ 1 <= flush.before
  BY <1>1, EventBound
<1>3. QED BY <1>2, MovedFlush DEF Inv

----------------------------------------------------------------------------
(* One lemma for each kind of step *)

(* The vitals, the visits and the flush are left alone, and so is next, or a  *)
(* call of track() has made it grow.                                         *)
LEMMA PlainStep ==
  ASSUME Inv, NEW out, NEW n \in Nat, Moved(out, n),
         n = next \/ (next <= MaxTracked /\ n <= next + 1),
         page' \in {"open", "hidden", "away"}, enabled' \in BOOLEAN, timer' \in BOOLEAN,
         path' = path, lastURL' = lastURL, UNCHANGED vitalVars,
         UNCHANGED <<visit, viewed, owed, early, booting>>,
         flush' \in [at : {"none", "waiting", "resolved"}, on : SUBSET Ids, before : Nat],
         1 <= flush'.before, FlushInv', AwayInv'
  PROVE  Inv'
<1>1. path' \in Paths /\ lastURL' = path' BY DEF Inv, TypeOK, CountInv
<1>2. reports' = reports /\ visit' = visit /\ booting' = booting BY VitalsSame, VisitSame
<1>3. Bounded(n, booting, visit, reports)
  <2>1. CASE n = next BY <2>1, BoundedNow
  <2>2. CASE next <= MaxTracked /\ n <= next + 1
    <3>1. /\ reports["TTFB"] \in Nat /\ reports["FCP"] \in Nat /\ reports["LCP"] \in Nat
          /\ reports["CLS"] \in Nat /\ reports["INP"] \in Nat /\ next \in Nat
          /\ visit \in Nat /\ 1 <= visit
      BY InvTypes DEF Inv
    <3>2. QED BY <2>2, <3>1, BoundAssumption DEF Bounded, Reported
  <2>3. QED BY <2>1, <2>2
<1>4. Bounded(n, booting', visit', reports') BY <1>2, <1>3
<1>5. QED BY <1>1, <1>4, VitalsSame, VisitSame, Combine

LEMMA TrackStep == ASSUME Inv, Track PROVE Inv'
<1> DEFINE n == next + Cardinality(Emitted(1, path))
<1>0. broken \subseteq broken' /\ broken' \subseteq Ids
  <2>1. next \in Nat /\ 1 <= next /\ next <= MaxTracked /\ MaxEvents \in Nat
    BY InvTypes, BoundAssumption DEF Track, Inv
  <2>2. next \in Ids BY <2>1, EventBound, BoundAssumption DEF Ids
  <2>3. Emitted(1, path) \subseteq {next} BY <2>1 DEF Emitted
  <2>4. \E new \in SUBSET Emitted(1, path) : broken' = broken \cup new BY DEF Track
  <2>5. broken \subseteq Ids BY DEF Inv, TypeOK
  <2>6. QED BY <2>2, <2>3, <2>4, <2>5
<1>1. /\ Moved({}, n) /\ Cardinality(Emitted(1, path)) \in 0 .. 1
      /\ timer' \in BOOLEAN
  BY <1>0, Recorded DEF Track
<1>2. next \in Nat BY InvTypes DEF Inv
<1>3. n \in Nat /\ n <= next + 1 BY <1>1, <1>2
<1>4. next <= MaxTracked /\ page' = page /\ page # "away" /\ booting' = booting
      /\ enabled' = enabled /\ path' = path /\ lastURL' = lastURL /\ flush' = flush
      /\ UNCHANGED vitalVars /\ UNCHANGED <<visit, viewed, owed, early, booting>>
  BY BoundAssumption, <1>2 DEF Track, Running, sendVars, visitVars
<1>5. page' \in {"open", "hidden", "away"} /\ enabled' \in BOOLEAN
  BY <1>4 DEF Inv, TypeOK
<1>6. AwayInv' BY <1>4 DEF AwayInv, AwayIsFlushed
<1> HIDE DEF n
<1>7. /\ flush' \in [at : {"none", "waiting", "resolved"}, on : SUBSET Ids, before : Nat]
      /\ 1 <= flush'.before /\ FlushInv'
  BY <1>1, <1>3, <1>4, FlushSame
<1>8. QED BY <1>1, <1>3, <1>4, <1>5, <1>6, <1>7, PlainStep

LEMMA StillStep ==
  ASSUME Inv, SetEnabled \/ FlushResolves \/ Show \/ PageShow \/ UNCHANGED vars
              \/ \E i \in Ids : FetchSettles(i)
  PROVE  Inv'
<1>1. /\ buf' = buf /\ next' = next /\ sent' = sent /\ timer' = timer /\ broken' = broken
      /\ path' = path /\ lastURL' = lastURL /\ pending' \subseteq pending
      /\ UNCHANGED vitalVars /\ UNCHANGED <<visit, viewed, owed, early, booting>>
  BY DEF SetEnabled, FlushResolves, Show, PageShow, FetchSettles, vars, coreVars, sendVars,
         visitVars
<1>2. Moved({}, next) /\ next \in Nat
  <2>1. UNCHANGED <<buf, next, sent, broken>> BY <1>1
  <2>2. QED BY <1>1, <2>1, Still, InvTypes DEF Inv
<1>3. page' \in {"open", "hidden", "away"}
  BY DEF SetEnabled, FlushResolves, Show, PageShow, FetchSettles, vars, Inv, TypeOK
<1>4. enabled' \in BOOLEAN /\ timer' \in BOOLEAN
  <2>1. timer' \in BOOLEAN BY <1>1 DEF Inv, TypeOK
  <2>2. enabled' = ~enabled \/ enabled' = enabled
    BY DEF SetEnabled, FlushResolves, Show, PageShow, FetchSettles, vars, coreVars
  <2>3. QED BY <2>1, <2>2 DEF Inv, TypeOK
<1>5. AwayInv'
  <2>1. page' = "away" => page = "away"
    BY DEF SetEnabled, FlushResolves, Show, PageShow, FetchSettles, vars
  <2>2. QED BY <1>1, <2>1 DEF Inv, AwayInv, AwayIsFlushed
<1>6. /\ flush' \in [at : {"none", "waiting", "resolved"}, on : SUBSET Ids, before : Nat]
      /\ 1 <= flush'.before /\ FlushInv'
  <2>1. CASE flush' = flush BY <1>2, <2>1, FlushSame
  <2> DEFINE T == [at : {"none", "waiting", "resolved"}, on : SUBSET Ids, before : Nat]
  <2>2. flush \in T /\ 1 <= flush.before
    <3>1. flush \in [at : {"none", "waiting", "resolved"}, on : SUBSET Ids,
                     before : 1 .. MaxEvents + 1]
      BY DEF Inv, TypeOK
    <3>2. QED BY <3>1, EventBound
  <2>3. CASE FlushResolves
    <3>1. flush.at = "waiting" /\ flush.on = {} /\ pending' = pending
          /\ flush' = [flush EXCEPT !.at = "resolved"]
      BY <2>3 DEF FlushResolves
    <3>2. flush' = [at |-> "resolved", on |-> flush.on, before |-> flush.before]
      BY <2>2, <3>1
    <3>3. flush' \in T /\ flush'.before = flush.before /\ flush'.on = {} BY <2>2, <3>1, <3>2
    <3>4. FlushInv' BY <1>1, <3>1, <3>3 DEF FlushInv, Inv
    <3>5. QED BY <2>2, <3>3, <3>4
  <2>4. CASE \E i \in Ids : FetchSettles(i)
    <3>1. PICK i \in Ids : FetchSettles(i) BY <2>4
    <3>2. pending' = pending \ {i} /\ flush' = [flush EXCEPT !.on = @ \ {i}]
      BY <3>1 DEF FetchSettles
    <3>3. flush' = [at |-> flush.at, on |-> flush.on \ {i}, before |-> flush.before]
      BY <2>2, <3>2
    <3>4. flush' \in T /\ flush'.before = flush.before /\ flush'.on = flush.on \ {i}
          /\ flush'.at = flush.at
      BY <2>2, <3>3
    <3>5. FlushInv' BY <1>1, <3>2, <3>4 DEF FlushInv, Inv
    <3>6. QED BY <2>2, <3>4, <3>5
  <2>5. QED
    BY <2>1, <2>3, <2>4 DEF SetEnabled, Show, PageShow, vars, sendVars
<1>7. QED BY <1>1, <1>2, <1>3, <1>4, <1>5, <1>6, PlainStep

LEMMA SendStep == ASSUME Inv, TimerFires \/ FlushCall PROVE Inv'
<1>1. /\ Send(buf) /\ buf' = {} /\ next' = next /\ page' = page /\ page # "away"
      /\ broken' = broken
      /\ enabled' = enabled /\ path' = path /\ lastURL' = lastURL
      /\ UNCHANGED vitalVars /\ UNCHANGED <<visit, viewed, owed, early, booting>>
  BY DEF TimerFires, FlushCall, Task, Running, visitVars
<1>2. Moved(buf, next) /\ next \in Nat BY <1>1, SendMoves, InvTypes DEF Inv
<1>3. page' \in {"open", "hidden", "away"} /\ enabled' \in BOOLEAN
  BY <1>1 DEF Inv, TypeOK
<1>4. timer' \in BOOLEAN
  <2>1. timer' = FALSE \/ timer' = timer BY DEF TimerFires, FlushCall
  <2>2. QED BY <2>1 DEF Inv, TypeOK
<1>5. AwayInv' BY <1>1 DEF AwayInv, AwayIsFlushed
<1>6. /\ flush' \in [at : {"none", "waiting", "resolved"}, on : SUBSET Ids, before : Nat]
      /\ 1 <= flush'.before /\ FlushInv'
  <2>1. CASE TimerFires
    <3>1. flush' = flush BY <2>1 DEF TimerFires
    <3>2. QED BY <1>2, <3>1, FlushSame
  <2>2. CASE FlushCall
    <3>0. CASE flush' = flush BY <1>2, <3>0, FlushSame
    <3>1. SUFFICES ASSUME flush' = [at |-> "waiting", on |-> pending', before |-> next]
                   PROVE  /\ flush' \in [at : {"none", "waiting", "resolved"},
                                         on : SUBSET Ids, before : Nat]
                          /\ 1 <= flush'.before /\ FlushInv'
      BY <2>2, <3>0 DEF FlushCall
    <3>2. pending' \subseteq Ids BY <1>1 DEF Send, Serialised, Inv, TypeOK
    <3>3. flush'.at = "waiting" /\ flush'.on = pending' /\ flush'.before = next
      BY <3>1
    <3>4. 1 <= next /\ next <= next BY InvTypes DEF Inv
    <3>5. flush' \in [at : {"none", "waiting", "resolved"}, on : SUBSET Ids, before : Nat]
      BY <1>2, <3>1, <3>2
    <3>6. FlushInv' BY <1>1, <3>3, <3>4 DEF FlushInv
    <3>7. QED BY <3>3, <3>4, <3>5, <3>6
  <2>3. QED BY <2>1, <2>2
<1>7. QED BY <1>1, <1>2, <1>3, <1>4, <1>5, <1>6, PlainStep

(* Steps that report vitals: some events are recorded, and what was counted   *)
(* before still bounds them.                                                 *)
LEMMA VitalStep ==
  ASSUME Inv, NEW out, NEW n \in Nat, Moved(out, n),
         page' \in {"open", "hidden", "away"}, enabled' = enabled, timer' \in BOOLEAN,
         path' = path, lastURL' = lastURL, flush' = flush,
         UNCHANGED <<visit, viewed, owed, early, booting>>,
         seen' \subseteq Vitals, stopped' \subseteq Vitals,
         reports' \in [Vitals -> Nat], ReportInv',
         Bounded(n, booting, visit, reports'), AwayInv'
  PROVE  Inv'
<1>1. path' \in Paths /\ lastURL' = path' /\ enabled' \in BOOLEAN
  BY DEF Inv, TypeOK, CountInv
<1>2. visit' = visit /\ booting' = booting BY VisitSame
<1>3. Bounded(n, booting', visit', reports') BY <1>2
<1>4. QED BY <1>1, <1>3, VisitSame, FlushSame, Combine

LEMMA EntryStep == ASSUME Inv, NEW v \in Vitals, Entry(v) PROVE Inv'
<1>1. /\ buf' = buf /\ next' = next /\ sent' = sent /\ timer' = timer /\ page' = page
      /\ broken' = broken
      /\ path' = path /\ lastURL' = lastURL /\ pending' = pending /\ enabled' = enabled
      /\ flush' = flush /\ stopped' = stopped /\ done' = done /\ reports' = reports
      /\ seen' = seen \cup {v} /\ page # "away"
      /\ UNCHANGED <<visit, viewed, owed, early, booting>>
  BY DEF Entry, Task, Running, coreVars, sendVars, visitVars
<1>2. Moved({}, next) /\ next \in Nat
  <2>1. UNCHANGED <<buf, next, sent, broken>> BY <1>1
  <2>2. QED BY <1>1, <2>1, Still, InvTypes DEF Inv
<1>3. page' \in {"open", "hidden", "away"} /\ timer' \in BOOLEAN
  BY <1>1 DEF Inv, TypeOK
<1>4. /\ seen' \subseteq Vitals /\ stopped' \subseteq Vitals
      /\ reports' \in [Vitals -> Nat] /\ ReportInv'
  BY <1>1 DEF Inv, TypeOK, ReportInv
<1>5. Bounded(next, booting, visit, reports') BY <1>1, BoundedNow
<1>6. AwayInv' BY <1>1 DEF AwayInv, AwayIsFlushed
<1>7. QED BY <1>1, <1>2, <1>3, <1>4, <1>5, <1>6, VitalStep

LEMMA FirstPaintStep == ASSUME Inv, FirstPaint PROVE Inv'
<1> DEFINE n == next + Cardinality(Emitted(1, path))
           r == [reports EXCEPT !["FCP"] = @ + 1]
<1>1. /\ page' = page /\ enabled' = enabled /\ path' = path /\ lastURL' = lastURL
      /\ flush' = flush /\ done' = done /\ seen' = seen
      /\ "FCP" \notin stopped /\ stopped' = stopped \cup {"FCP"} /\ reports' = r
      /\ page # "away" /\ UNCHANGED sendVars
      /\ UNCHANGED <<visit, viewed, owed, early, booting>>
  BY DEF FirstPaint, Task, Running, sendVars, visitVars
<1>0. broken \subseteq broken' /\ broken' \subseteq Ids BY DEF FirstPaint, Inv, TypeOK
<1>2. /\ Moved({}, n) /\ Cardinality(Emitted(1, path)) \in 0 .. 1 /\ timer' \in BOOLEAN
  BY <1>0, <1>1, Recorded DEF FirstPaint
<1>3. /\ reports["TTFB"] \in Nat /\ reports["FCP"] \in Nat /\ reports["LCP"] \in Nat
      /\ reports["CLS"] \in Nat /\ reports["INP"] \in Nat /\ next \in Nat
      /\ visit \in Nat
  BY InvTypes DEF Inv
<1>4. n \in Nat /\ n <= next + 1 BY <1>2, <1>3
<1>5. /\ r["TTFB"] = reports["TTFB"] /\ r["FCP"] = reports["FCP"] + 1
      /\ r["LCP"] = reports["LCP"] /\ r["CLS"] = reports["CLS"] /\ r["INP"] = reports["INP"]
      /\ r \in [Vitals -> Nat]
  BY DEF Inv, TypeOK, Vitals
<1> HIDE DEF n, r
<1>6. Bounded(n, booting, visit, r)
  BY <1>3, <1>4, <1>5, BoundedNow, BoundAssumption DEF Bounded, Reported
<1>7. ReportInv'
  <2>1. reports["FCP"] = 0 BY <1>1 DEF Inv, ReportInv, In
  <2>2. r["FCP"] = 1 /\ In("FCP", stopped') = 1 BY <1>1, <1>5, <2>1 DEF In
  <2>3. \A v \in Final : r[v] = In(v, done') BY <1>1, <1>5 DEF Inv, ReportInv, Final
  <2>4. r["TTFB"] \in 0 .. 1 /\ done' \subseteq Final BY <1>1, <1>5 DEF Inv, ReportInv
  <2>5. QED BY <1>1, <2>2, <2>3, <2>4 DEF ReportInv
<1>8. page' \in {"open", "hidden", "away"} /\ seen' \subseteq Vitals /\ stopped' \subseteq Vitals
  BY <1>1 DEF Inv, TypeOK, Vitals
<1>9. AwayInv' BY <1>1 DEF AwayInv, AwayIsFlushed
<1>10. reports' \in [Vitals -> Nat] /\ Bounded(n, booting, visit, reports')
  BY <1>1, <1>5, <1>6
<1>11. QED BY <1>1, <1>2, <1>4, <1>7, <1>8, <1>9, <1>10, VitalStep

(* finalizeLCP, finalizeCLS and finalizeINP report what was not reported.    *)
LEMMA Finalized ==
  ASSUME Inv, NEW vs \in SUBSET Final, Finalize(vs)
  PROVE  /\ seen' \subseteq Vitals /\ stopped' \subseteq Vitals
         /\ reports' \in [Vitals -> Nat] /\ ReportInv'
         /\ Cardinality(Due(vs)) \in Nat
         /\ \A c \in 0 .. Cardinality(Due(vs)) : Bounded(next + c, booting, visit, reports')
<1> DEFINE r == [v \in Vitals |-> IF v \in Due(vs) THEN reports[v] + 1 ELSE reports[v]]
<1>1. Due(vs) \in SUBSET Final /\ Due(vs) \cap done = {} BY DEF Due
<1>2. Cardinality(Due(vs)) = In("LCP", Due(vs)) + In("CLS", Due(vs)) + In("INP", Due(vs))
  BY <1>1, FinalCount
<1>3. /\ reports["TTFB"] \in Nat /\ reports["FCP"] \in Nat /\ reports["LCP"] \in Nat
      /\ reports["CLS"] \in Nat /\ reports["INP"] \in Nat /\ next \in Nat
      /\ visit \in Nat
  BY InvTypes DEF Inv
<1>4. /\ r["TTFB"] = reports["TTFB"] /\ r["FCP"] = reports["FCP"]
      /\ r["LCP"] = reports["LCP"] + In("LCP", Due(vs))
      /\ r["CLS"] = reports["CLS"] + In("CLS", Due(vs))
      /\ r["INP"] = reports["INP"] + In("INP", Due(vs))
  BY <1>1, <1>3 DEF Vitals, Final, In
<1>5. reports' = r /\ seen' = seen /\ stopped' = stopped \cup (vs \ done)
      /\ done' = done \cup Due(vs)
  BY DEF Finalize
<1>6. r \in [Vitals -> Nat] BY DEF Inv, TypeOK
<1>7. \A v \in Final : r[v] = IF v \in Due(vs) THEN reports[v] + 1 ELSE reports[v]
  BY DEF Final, Vitals
<1> HIDE DEF r
<1>8. /\ In("LCP", Due(vs)) \in 0 .. 1 /\ In("CLS", Due(vs)) \in 0 .. 1
      /\ In("INP", Due(vs)) \in 0 .. 1
  BY DEF In
<1>9. Reported(r) = Reported(reports) + Cardinality(Due(vs)) /\ Reported(reports) \in Nat
      /\ Cardinality(Due(vs)) \in Nat
  BY <1>2, <1>3, <1>4, <1>8 DEF Reported
<1>10. ASSUME NEW c \in 0 .. Cardinality(Due(vs))
       PROVE  Bounded(next + c, booting, visit, r)
  <2>1. next + (IF booting THEN 1 ELSE 0) <= 1 + MaxTracked + visit + Reported(reports)
    BY BoundedNow DEF Bounded
  <2>2. next + c + (IF booting THEN 1 ELSE 0) <= 1 + MaxTracked + visit + Reported(r)
    BY <1>3, <1>9, <2>1, BoundAssumption
  <2>3. QED BY <2>2 DEF Bounded
<1>11. ReportInv'
  <2>1. In("FCP", stopped') = In("FCP", stopped) BY <1>5 DEF In, Final
  <2>2. r["FCP"] = In("FCP", stopped') /\ r["TTFB"] \in 0 .. 1
    BY <1>4, <2>1 DEF Inv, ReportInv
  <2>3. ASSUME NEW v \in Final PROVE r[v] = In(v, done')
    <3>1. reports[v] = In(v, done) BY DEF Inv, ReportInv
    <3>2. CASE v \in Due(vs) BY <1>1, <1>5, <1>7, <3>1, <3>2 DEF In
    <3>3. CASE v \notin Due(vs) BY <1>1, <1>5, <1>7, <3>1, <3>3 DEF In
    <3>4. QED BY <3>2, <3>3
  <2>4. done' \subseteq Final BY <1>1, <1>5 DEF Inv, ReportInv
  <2>5. QED BY <1>5, <2>2, <2>3, <2>4 DEF ReportInv
<1>12. seen' \subseteq Vitals /\ stopped' \subseteq Vitals
  BY <1>5 DEF Inv, TypeOK, Final, Vitals
<1>13. QED BY <1>5, <1>6, <1>9, <1>10, <1>11, <1>12

LEMMA HideStep == ASSUME Inv, Hide PROVE Inv'
<1> DEFINE vs == {"LCP"}
           k == Cardinality(Due(vs))
           c == Cardinality(Emitted(k, path))
           n == next + c
<1>1. vs \in SUBSET Final BY DEF Final
<1>2. Finalize(vs) BY DEF Hide
<1>3. /\ seen' \subseteq Vitals /\ stopped' \subseteq Vitals
      /\ reports' \in [Vitals -> Nat] /\ ReportInv' /\ k \in Nat
      /\ \A d \in 0 .. k : Bounded(next + d, booting, visit, reports')
  BY <1>1, <1>2, Finalized
<1>4. /\ page' = "hidden" /\ enabled' = enabled /\ path' = path /\ lastURL' = lastURL
      /\ flush' = flush /\ UNCHANGED <<visit, viewed, owed, early, booting>>
      /\ buf' = Emitted(k, path) /\ next' = n
  BY DEF Hide, visitVars
<1>5. timer' \in BOOLEAN BY Zenon DEF Hide
<1>6. SendUnload(buf) /\ broken' = broken BY DEF Hide
<1> HIDE DEF vs, k
<1>7. next \in Nat /\ MaxEvents \in Nat BY InvTypes DEF Inv
<1>8. c \in 0 .. k /\ Emitted(k, path) = next .. (next + c) - 1
  BY <1>3, <1>7, EmittedIs
<1> HIDE DEF c
<1>9. n \in Nat /\ next <= n BY <1>7, <1>8
<1>10. buf' = (buf \cup (next .. n - 1)) \ buf
  <2>1. ASSUME NEW i \in next .. n - 1 PROVE i \notin buf
    BY <1>7, <2>1 DEF Inv, BufInv
  <2>2. buf' = next .. n - 1 BY <1>4, <1>8
  <2>3. QED BY <2>1, <2>2
<1> HIDE DEF n
<1>11. Moved(buf, n) BY <1>4, <1>6, <1>9, <1>10, UnloadMoves
<1>12. AwayInv' BY <1>4 DEF AwayInv, AwayIsFlushed
<1>13. Bounded(n, booting, visit, reports') BY <1>3, <1>8 DEF n
<1>14. page' \in {"open", "hidden", "away"} BY <1>4
<1>15. QED BY <1>3, <1>4, <1>5, <1>9, <1>11, <1>12, <1>13, <1>14, VitalStep

LEMMA PageHideStep == ASSUME Inv, PageHide PROVE Inv'
<1> DEFINE k == Cardinality(Due({"LCP", "CLS", "INP"}))
           c == Cardinality(Emitted(k, path))
           n == next + c
           all == buf \cup Emitted(k, path)
<1>1. {"LCP", "CLS", "INP"} \in SUBSET Final BY DEF Final
<1>2. Finalize({"LCP", "CLS", "INP"}) BY DEF PageHide
<1>3. /\ seen' \subseteq Vitals /\ stopped' \subseteq Vitals
      /\ reports' \in [Vitals -> Nat] /\ ReportInv' /\ k \in Nat
      /\ \A d \in 0 .. k : Bounded(next + d, booting, visit, reports')
  BY <1>1, <1>2, Finalized
<1>4. /\ page' = "away" /\ enabled' = enabled /\ path' = path /\ lastURL' = lastURL
      /\ flush' = flush /\ UNCHANGED <<visit, viewed, owed, early, booting>>
      /\ buf' = {} /\ next' = n
  BY DEF PageHide, visitVars
<1>5. timer' \in BOOLEAN BY Zenon DEF PageHide
<1>6. SendUnload(all) /\ broken' = broken BY DEF PageHide
<1>7. booting' = FALSE
  <2>1. ~booting BY DEF PageHide, Task
  <2>2. QED BY <1>4, <2>1 DEF Inv, TypeOK
<1> HIDE DEF k
<1>8. next \in Nat BY InvTypes DEF Inv
<1>9. c \in 0 .. k /\ Emitted(k, path) = next .. (next + c) - 1
  BY <1>3, <1>8, EmittedIs
<1> HIDE DEF c
<1>10. n \in Nat /\ next <= n BY <1>8, <1>9
<1>11. all = buf \cup (next .. n - 1) BY <1>9
<1>12. buf' = (buf \cup (next .. n - 1)) \ all BY <1>4, <1>11
<1>13. Bounded(n, booting, visit, reports') BY <1>3, <1>9
<1> HIDE DEF n, all
<1>14. Moved(all, n) BY <1>4, <1>6, <1>10, <1>11, <1>12, UnloadMoves
<1>15. AwayInv' BY <1>4, <1>7 DEF AwayInv, AwayIsFlushed
<1>16. page' \in {"open", "hidden", "away"} BY <1>4
<1>17. QED BY <1>3, <1>4, <1>5, <1>10, <1>13, <1>14, <1>15, <1>16, VitalStep

LEMMA BootStep == ASSUME Inv, Boot PROVE Inv'
<1> DEFINE c == Cardinality(Emitted(1, path))
           n == next + c
<1>1. /\ booting /\ booting' = FALSE /\ page' = page /\ enabled' = enabled /\ path' = path
      /\ lastURL' = lastURL /\ flush' = flush /\ visit' = visit /\ early' = early
      /\ viewed' = [viewed EXCEPT ![visit] = @ + c]
      /\ owed' = (IF Recording(path) THEN owed \cup {visit} ELSE owed)
      /\ UNCHANGED vitalVars /\ UNCHANGED sendVars /\ Emit(Emitted(1, path))
  BY DEF Boot, sendVars
<1>2. page # "away" BY <1>1 DEF Inv, AwayInv
<1>3. next \in Nat /\ visit \in Nat /\ visit \in 1 .. MaxVisits /\ Reported(reports) \in Nat
  <2>1. /\ reports["TTFB"] \in Nat /\ reports["FCP"] \in Nat /\ reports["LCP"] \in Nat
        /\ reports["CLS"] \in Nat /\ reports["INP"] \in Nat /\ next \in Nat
    BY InvTypes DEF Inv
  <2>2. Reported(reports) \in Nat BY <2>1 DEF Reported
  <2>3. visit \in 1 .. MaxVisits BY DEF Inv, TypeOK
  <2>4. QED BY <2>1, <2>2, <2>3, BoundAssumption
<1>4. c = (IF Recording(path) THEN 1 ELSE 0) BY <1>3, EmittedIs
<1>0. broken \subseteq broken' /\ broken' \subseteq Ids BY DEF Boot, Inv, TypeOK
<1>5. Moved({}, n) /\ timer' \in BOOLEAN BY <1>0, <1>1, Recorded
<1> HIDE DEF c
<1>6. n \in Nat /\ n <= next + 1 BY <1>3, <1>4
<1> HIDE DEF n
<1>7. Bounded(n, FALSE, visit, reports)
  <2>1. next + 1 <= 1 + MaxTracked + visit + Reported(reports)
    BY <1>1, BoundedNow DEF Bounded
  <2>2. QED BY <1>3, <1>6, <2>1, BoundAssumption DEF Bounded
<1>8. viewed' \in [1 .. MaxVisits -> Nat]
  <2>1. viewed \in [1 .. MaxVisits -> Nat] BY DEF Inv, TypeOK
  <2>2. viewed[visit] + c \in Nat BY <1>3, <1>4, <2>1
  <2>3. QED BY <1>1, <2>1, <2>2
<1>9. VisitInv'
  <2>1. owed \subseteq 1 .. visit BY DEF Inv, VisitInv
  <2>2. owed' \subseteq 1 .. visit' BY <1>1, <1>3, <2>1
  <2>3. ASSUME ~early', NEW v \in 1 .. MaxVisits PROVE viewed'[v] = In(v, owed')
    <3>1. owed = {} /\ viewed[v] = 0 BY <1>1, <2>3 DEF Inv, VisitInv
    <3>2. viewed'[v] = IF v = visit THEN c ELSE 0
      BY <1>1, <1>3, <1>4, <3>1 DEF Inv, TypeOK
    <3>3. CASE Recording(path) BY <1>1, <1>4, <3>1, <3>2, <3>3 DEF In
    <3>4. CASE ~Recording(path) BY <1>1, <1>4, <3>1, <3>2, <3>4 DEF In
    <3>5. QED BY <3>3, <3>4
  <2>4. QED BY <1>1, <2>2, <2>3 DEF VisitInv
<1>10. AwayInv' BY <1>1, <1>2 DEF AwayInv, AwayIsFlushed
<1>11. /\ page' \in {"open", "hidden", "away"} /\ booting' \in BOOLEAN /\ enabled' \in BOOLEAN
       /\ early' \in BOOLEAN /\ path' \in Paths /\ lastURL' = path'
       /\ visit' \in 1 .. MaxVisits
  BY <1>1, <1>3 DEF Inv, TypeOK, CountInv
<1>12. Bounded(n, booting', visit', reports') BY <1>1, <1>7, VitalsSame
<1>13. QED BY <1>1, <1>5, <1>6, <1>8, <1>9, <1>10, <1>11, <1>12, VitalsSame, FlushSame, Combine

LEMMA NavigateStep == ASSUME Inv, NEW p \in Paths, Navigate(p) PROVE Inv'
<1>1. /\ page' = page /\ page # "away" /\ enabled' = enabled /\ booting' = booting
      /\ path' = p /\ lastURL' = p /\ UNCHANGED sendVars /\ UNCHANGED vitalVars
      /\ flush' = flush /\ broken' = broken
  BY DEF Navigate, Running, sendVars
<1>0. broken \subseteq broken' /\ broken' \subseteq Ids BY <1>1 DEF Inv, TypeOK
<1>2. lastURL = path BY DEF Inv, CountInv
<1>3. next \in Nat /\ visit \in Nat /\ visit \in 1 .. MaxVisits /\ Reported(reports) \in Nat
  <2>1. /\ reports["TTFB"] \in Nat /\ reports["FCP"] \in Nat /\ reports["LCP"] \in Nat
        /\ reports["CLS"] \in Nat /\ reports["INP"] \in Nat /\ next \in Nat
    BY InvTypes DEF Inv
  <2>2. Reported(reports) \in Nat BY <2>1 DEF Reported
  <2>3. visit \in 1 .. MaxVisits BY DEF Inv, TypeOK
  <2>4. QED BY <2>1, <2>2, <2>3, BoundAssumption
<1>4. page' \in {"open", "hidden", "away"} /\ enabled' \in BOOLEAN /\ AwayInv'
  <2>1. AwayInv' BY <1>1 DEF AwayInv, AwayIsFlushed
  <2>2. QED BY <1>1, <2>1 DEF Inv, TypeOK
<1>5. CASE p = path
  <2>1. ~Dispatches(p) BY <1>2, <1>5 DEF Dispatches
  <2>2. Cardinality({}) = 0 BY FS_EmptySet
  <2>3. /\ Emit({}) /\ visit' = visit /\ owed' = owed
        /\ viewed' = [viewed EXCEPT ![visit] = @ + Cardinality({})]
        /\ early' = (early \/ (booting /\ p # path))
    BY <1>5, <2>1 DEF Navigate
  <2>4. viewed' = viewed BY <1>3, <2>2, <2>3 DEF Inv, TypeOK
  <2>5. early' = early
    <3>1. early' = (early \/ FALSE) BY <1>5, <2>3
    <3>2. QED BY <3>1 DEF Inv, TypeOK
  <2>6. buf' = buf /\ next' = next BY <1>3, <2>2, <2>3 DEF Emit
  <2>7. timer' \in BOOLEAN BY <2>3, Zenon DEF Emit
  <2>8. Moved({}, next)
    <3>1. UNCHANGED <<buf, next, sent, broken>> /\ pending' \subseteq pending
      BY <1>1, <2>6 DEF sendVars
    <3>2. QED BY <3>1, Still
  <2>9. UNCHANGED <<visit, viewed, owed, early, booting>>
    BY <1>1, <2>3, <2>4, <2>5
  <2>10. path' = path /\ lastURL' = lastURL BY <1>1, <1>2, <1>5
  <2>11. QED BY <1>1, <1>3, <1>4, <2>7, <2>8, <2>9, <2>10, FlushSame, PlainStep
<1>6. CASE p # path
  <2> DEFINE c == Cardinality(Emitted(1, p))
             n == next + c
  <2>1. Dispatches(p) BY <1>2, <1>6 DEF Dispatches
  <2>2. /\ visit < MaxVisits /\ Emit(Emitted(1, p)) /\ visit' = visit + 1
        /\ viewed' = [viewed EXCEPT ![visit'] = @ + c]
        /\ owed' = (IF Recording(p) THEN owed \cup {visit'} ELSE owed)
        /\ early' = (early \/ (booting /\ p # path))
    BY <1>6, <2>1 DEF Navigate
  <2>3. c = (IF Recording(p) THEN 1 ELSE 0) BY <1>3, EmittedIs
  <2>4. Moved({}, n) /\ timer' \in BOOLEAN BY <1>0, <1>1, <2>2, Recorded
  <2> HIDE DEF c
  <2>5. n \in Nat /\ n <= next + 1 BY <1>3, <2>3
  <2> HIDE DEF n
  <2>6. Bounded(n, booting, visit + 1, reports)
    <3>1. next + (IF booting THEN 1 ELSE 0) <= 1 + MaxTracked + visit + Reported(reports)
      BY BoundedNow DEF Bounded
    <3>2. n + (IF booting THEN 1 ELSE 0) <= 1 + MaxTracked + (visit + 1) + Reported(reports)
      BY <1>3, <2>5, <3>1, BoundAssumption
    <3>3. QED BY <3>2 DEF Bounded
  <2>7. visit + 1 \in 1 .. MaxVisits BY <1>3, <2>2, BoundAssumption
  <2>8. viewed' = [viewed EXCEPT ![visit + 1] = @ + c] BY <2>2
  <2>9. viewed' \in [1 .. MaxVisits -> Nat]
    <3>1. viewed \in [1 .. MaxVisits -> Nat] BY DEF Inv, TypeOK
    <3>2. viewed[visit + 1] + c \in Nat BY <2>3, <2>7, <3>1
    <3>3. QED BY <2>8, <3>1, <3>2
  <2>10. early' \in BOOLEAN /\ (~early' => ~early /\ ~booting)
    BY <1>6, <2>2 DEF Inv, TypeOK
  <2>11. VisitInv'
    <3>1. owed \subseteq 1 .. visit BY DEF Inv, VisitInv
    <3>2. owed' \subseteq 1 .. visit + 1 BY <1>3, <2>2, <3>1
    <3>3. visit + 1 \notin owed BY <1>3, <3>1
    <3>4. ASSUME ~early', NEW v \in 1 .. MaxVisits PROVE viewed'[v] = In(v, owed')
      <4>1. viewed[v] = In(v, owed) BY <2>10, <3>4 DEF Inv, VisitInv
      <4>2. CASE v = visit + 1
        <5>1. viewed[v] = 0 BY <3>3, <4>1, <4>2 DEF In
        <5>2. viewed'[v] = c BY <2>3, <2>8, <4>2, <5>1 DEF Inv, TypeOK
        <5>3. v \in owed' <=> Recording(p) BY <2>2, <3>3, <4>2
        <5>4. QED BY <2>3, <5>2, <5>3 DEF In
      <4>3. CASE v # visit + 1
        <5>1. viewed'[v] = viewed[v] BY <2>8, <4>3 DEF Inv, TypeOK
        <5>2. v \in owed' <=> v \in owed BY <2>2, <4>3
        <5>3. QED BY <4>1, <5>1, <5>2 DEF In
      <4>4. QED BY <4>2, <4>3
    <3>5. ~early' => ~booting' BY <1>1, <2>10
    <3>6. QED BY <2>2, <3>2, <3>4, <3>5 DEF VisitInv
  <2>12. /\ booting' \in BOOLEAN /\ path' \in Paths /\ lastURL' = path'
         /\ visit' \in 1 .. MaxVisits
    BY <1>1, <2>2, <2>7 DEF Inv, TypeOK
  <2>13. Bounded(n, booting', visit', reports') BY <1>1, <2>2, <2>6, VitalsSame
  <2>14. QED
    BY <1>1, <1>4, <2>4, <2>5, <2>9, <2>10, <2>11, <2>12, <2>13, VitalsSame, FlushSame, Combine
<1>7. QED BY <1>5, <1>6

----------------------------------------------------------------------------
(* Initial states, and every step *)

LEMMA InitInv == Init => Inv
<1> SUFFICES ASSUME Init PROVE Inv OBVIOUS
<1>1. PICK ttfb \in SUBSET {"TTFB"} :
        /\ seen = ttfb
        /\ reports = [v \in Vitals |-> IF v \in ttfb THEN 1 ELSE 0]
        /\ buf = IF Recording(path) /\ ttfb # {} THEN {1} ELSE {}
  BY DEF Init
<1>2. /\ page = "open" /\ booting = TRUE /\ enabled \in BOOLEAN /\ path \in Paths
      /\ lastURL = path /\ done = {} /\ stopped = {} /\ timer \in BOOLEAN
      /\ next = (IF buf = {} THEN 1 ELSE 2) /\ pending = {} /\ broken = {}
      /\ sent = [i \in Ids |-> 0] /\ flush = [at |-> "none", on |-> {}, before |-> 1]
      /\ visit = 1 /\ viewed = [v \in 1 .. MaxVisits |-> 0] /\ owed = {} /\ early = FALSE
  BY Zenon DEF Init
<1>3. buf = {} \/ (buf = {1} /\ ttfb = {"TTFB"}) BY <1>1
<1>4. /\ next \in Nat
      /\ (next = 1 /\ buf = {}) \/ (next = 2 /\ buf = {1} /\ ttfb = {"TTFB"})
  BY <1>2, <1>3
<1>5. MaxEvents \in Nat /\ 1 <= MaxEvents BY EventBound, BoundAssumption
<1>6. /\ reports \in [Vitals -> Nat] /\ ttfb \subseteq Vitals
      /\ reports["TTFB"] = In("TTFB", ttfb) /\ reports["FCP"] = 0
      /\ reports["LCP"] = 0 /\ reports["CLS"] = 0 /\ reports["INP"] = 0
  BY <1>1 DEF Vitals, In
<1>7. TypeOK
  <2>1. buf \subseteq Ids /\ next \in 1 .. MaxEvents + 1 BY <1>4, <1>5 DEF Ids
  <2>2. sent \in [Ids -> Nat] BY <1>2
  <2>3. flush \in [at : {"none", "waiting", "resolved"}, on : SUBSET Ids,
                   before : 1 .. MaxEvents + 1]
    BY <1>2, <1>5
  <2>4. visit \in 1 .. MaxVisits /\ viewed \in [1 .. MaxVisits -> Nat]
    BY <1>2, BoundAssumption
  <2>5. /\ seen \subseteq Vitals /\ stopped \subseteq Vitals /\ done \subseteq Vitals
        /\ reports \in [Vitals -> Nat]
    BY <1>1, <1>2, <1>6
  <2>6. QED BY <1>2, <2>1, <2>2, <2>3, <2>4, <2>5 DEF TypeOK
<1>8. ReportInv
  <2>1. reports["TTFB"] \in 0 .. 1 BY <1>6 DEF In
  <2>2. reports["FCP"] = In("FCP", stopped) BY <1>2, <1>6 DEF In
  <2>3. \A v \in Final : reports[v] = In(v, done) BY <1>2, <1>6 DEF In, Final
  <2>4. QED BY <1>2, <2>1, <2>2, <2>3 DEF ReportInv
<1>9. CountInv
  <2>1. Reported(reports) = In("TTFB", ttfb)
    <3>1. In("TTFB", ttfb) \in Nat BY DEF In
    <3>2. QED BY <1>6, <3>1 DEF Reported
  <2>2. In("TTFB", ttfb) \in Nat /\ (ttfb = {"TTFB"} => In("TTFB", ttfb) = 1) BY DEF In
  <2>3. next + 1 <= 1 + MaxTracked + 1 + Reported(reports)
    BY <1>4, <2>1, <2>2, BoundAssumption
  <2>4. Bounded(next, booting, visit, reports) BY <1>2, <2>3 DEF Bounded
  <2>5. QED BY <1>2, <2>4 DEF CountInv
<1>10. BufInv
  <2>1. \A i \in buf : i < next /\ i .. next - 1 \subseteq buf BY <1>4
  <2>2. ASSUME NEW i \in Ids PROVE ~(i < next /\ i \notin buf)
    <3>1. i \in Nat /\ 1 <= i BY <1>5 DEF Ids
    <3>2. QED BY <1>4, <3>1
  <2>3. Lost = {} BY <2>2 DEF Lost
  <2>4. \A i \in Ids : sent[i] = 0 BY <1>2
  <2>5. QED BY <2>1, <2>3, <2>4 DEF BufInv, SentOnce
<1>11. FlushInv BY <1>2, <1>4 DEF FlushInv
<1>12. VisitInv BY <1>2 DEF VisitInv
<1>13. AwayInv BY <1>2 DEF AwayInv, AwayIsFlushed
<1>14. QED BY <1>7, <1>8, <1>9, <1>10, <1>11, <1>12, <1>13 DEF Inv

LEMMA StepInv == Inv /\ [Next]_vars => Inv'
<1> SUFFICES ASSUME Inv, [Next]_vars PROVE Inv' OBVIOUS
<1>1. CASE Track BY <1>1, TrackStep
<1>2. CASE SetEnabled \/ FlushResolves \/ Show \/ PageShow \/ UNCHANGED vars
             \/ \E i \in Ids : FetchSettles(i)
  BY <1>2, StillStep
<1>3. CASE TimerFires \/ FlushCall BY <1>3, SendStep
<1>4. CASE \E p \in Paths : Navigate(p) BY <1>4, NavigateStep
<1>5. CASE Boot BY <1>5, BootStep
<1>6. CASE \E v \in Vitals : Entry(v) BY <1>6, EntryStep
<1>7. CASE FirstPaint BY <1>7, FirstPaintStep
<1>8. CASE Hide BY <1>8, HideStep
<1>9. CASE PageHide BY <1>9, PageHideStep
<1>10. QED BY <1>1, <1>2, <1>3, <1>4, <1>5, <1>6, <1>7, <1>8, <1>9 DEF Next

LEMMA InvCorrect == Spec => []Inv
BY InitInv, StepInv, PTL DEF Spec

----------------------------------------------------------------------------
(* What follows *)

(* All state keeps its type, and MaxEvents is enough numbers for the events.  *)
THEOREM TypeCorrect == Spec => []TypeOK
<1>1. Inv => TypeOK BY DEF Inv
<1>2. QED BY <1>1, InvCorrect, PTL

(* Each recorded event is in the buffer or has been handed to the browser     *)
(* once, whichever of the timer, flush() and the page lifecycle comes first, *)
(* unless it was in a batch with one before it, or was itself one, that      *)
(* JSON.stringify threw on.                                                  *)
THEOREM SentOnceCorrect == Spec => []SentOnce
<1>1. Inv => SentOnce BY DEF Inv, BufInv
<1>2. QED BY <1>1, InvCorrect, PTL

(* No vital is reported twice, however often the page is hidden and shown, or *)
(* left and restored.                                                        *)
THEOREM VitalOnceCorrect == Spec => []VitalOnce
<1>1. Inv => VitalOnce
  <2> SUFFICES ASSUME Inv, NEW v \in Vitals PROVE reports[v] <= 1 BY DEF VitalOnce
  <2>1. v = "TTFB" \/ v = "FCP" \/ v \in Final BY DEF Vitals, Final
  <2>2. QED BY <2>1 DEF Inv, ReportInv, In
<1>2. QED BY <1>1, InvCorrect, PTL

(* Each visit that began while events were recorded has one pageview, and the *)
(* others have none, unless the address changed in the task of init().       *)
THEOREM PageviewPerVisitCorrect == Spec => []PageviewPerVisit
<1>1. Inv => PageviewPerVisit
  <2> SUFFICES ASSUME Inv, ~early, ~booting, NEW v \in 1 .. visit
               PROVE  viewed[v] = IF v \in owed THEN 1 ELSE 0
    BY DEF PageviewPerVisit
  <2>1. v \in 1 .. MaxVisits BY BoundAssumption DEF Inv, TypeOK
  <2>2. QED BY <2>1 DEF Inv, VisitInv, In
<1>2. QED BY <1>1, InvCorrect, PTL

(* A page that is left has nothing in its buffer. *)
THEOREM AwayIsFlushedCorrect == Spec => []AwayIsFlushed
<1>1. Inv => AwayIsFlushed BY DEF Inv, AwayInv
<1>2. QED BY <1>1, InvCorrect, PTL

(* When flush() resolves, no event from before the call is in the buffer or   *)
(* on its way by fetch.                                                      *)
THEOREM FlushCompleteCorrect == Spec => []FlushComplete
<1>1. Inv => FlushComplete BY DEF Inv, FlushInv, FlushComplete
<1>2. QED BY <1>1, InvCorrect, PTL
----------------------------------------------------------------------------
(* The framework adapters.  Only Report, Commit and Pop change the log: the  *)
(* last visit of it, or by a visit at its end.                               *)

VisitSet == [route : Routes, views : Nat, named : Routes \cup {Unnamed}, moved : BOOLEAN]

(* When the tracker came: never, before the first visit, or (init() of the   *)
(* angular service) before the next one.                                     *)
SinceInv ==
  /\ ready => since <= current + 1
  /\ ready /\ (adapter # "angular" \/ due) => since = 1
  /\ ~ready => since = MaxCommits + 1
  /\ adapter = "pages" /\ listening => ready

(* What guards a second report: firedRef for app, and for angular that the    *)
(* one effect it has is the first NavigationEnd.                             *)
GuardInv ==
  /\ adapter = "app" /\ ready =>
       /\ log[current].views = IF fired = route THEN 1 ELSE 0
       /\ ~due => fired = route
  /\ adapter = "angular" /\ due => log[current].views = 0

(* A report that is to come finds the address of its route.                  *)
AddressInv == due /\ Reports /\ ~log[current].moved => location = route

AdapterInv ==
  /\ AdapterTypeOK /\ SinceInv /\ GuardInv /\ AddressInv
  /\ PageviewPerRoute /\ NamesRoute

LEMMA ReportsWhen ==
  ASSUME adapter \in {"app", "pages", "angular"}
  PROVE  /\ adapter = "app" => (Reports <=> ready /\ fired # route)
         /\ adapter = "pages" => (Reports <=> listening)
         /\ adapter = "angular" => (Reports <=> ready)
BY DEF Reports

LEMMA LogTypes ==
  ASSUME AdapterTypeOK
  PROVE  /\ log \in Seq(VisitSet) /\ current \in Nat \ {0} /\ current = Len(log)
         /\ current <= MaxCommits /\ MaxCommits \in Nat
         /\ \A v \in 1 .. current : log[v] \in VisitSet
         /\ log[current] \in VisitSet /\ route = log[current].route /\ route \in Routes
         /\ since \in Nat
<1>1. log \in Seq(VisitSet) /\ Len(log) \in 1 .. MaxCommits /\ since \in 1 .. MaxCommits + 1
  BY DEF AdapterTypeOK, VisitSet, current
<1>2. MaxCommits \in Nat BY CommitAssumption
<1>3. \A v \in 1 .. Len(log) : log[v] \in VisitSet BY <1>1
<1>4. log[Len(log)] \in VisitSet BY <1>1, <1>2, <1>3
<1>5. log[Len(log)].route \in Routes BY <1>4 DEF VisitSet
<1>6. QED BY <1>1, <1>2, <1>3, <1>4, <1>5 DEF current, route

LEMMA LastChanged ==
  ASSUME AdapterTypeOK, NEW x \in VisitSet, log' = [log EXCEPT ![current] = x]
  PROVE  /\ log' \in Seq(VisitSet) /\ current' = current
         /\ log'[current] = x /\ route' = x.route
         /\ \A v \in 1 .. current : v # current => log'[v] = log[v]
<1>1. log \in Seq(VisitSet) /\ current \in Nat \ {0} /\ current = Len(log) BY LogTypes
<1>2. DOMAIN log = 1 .. Len(log) /\ current \in 1 .. Len(log) BY <1>1
<1>3. log' \in Seq(VisitSet) /\ Len(log') = Len(log) BY <1>1, <1>2
<1>4. log'[current] = x /\ \A v \in 1 .. current : v # current => log'[v] = log[v]
  BY <1>1, <1>2
<1>5. QED BY <1>1, <1>3, <1>4 DEF current, route

LEMMA VisitAdded ==
  ASSUME AdapterTypeOK, NEW x \in VisitSet, log' = Append(log, x)
  PROVE  /\ log' \in Seq(VisitSet) /\ current' = current + 1
         /\ log'[current + 1] = x /\ route' = x.route
         /\ \A v \in 1 .. current : log'[v] = log[v]
<1>1. log \in Seq(VisitSet) /\ current \in Nat \ {0} /\ current = Len(log) BY LogTypes
<1>2. log' \in Seq(VisitSet) /\ Len(log') = Len(log) + 1 BY <1>1
<1>3. log'[current + 1] = x /\ \A v \in 1 .. current : log'[v] = log[v] BY <1>1
<1>4. QED BY <1>1, <1>2, <1>3 DEF current, route

LEMMA ViewedIs ==
  ASSUME NEW v \in VisitSet, NEW a \in Routes
  PROVE  Viewed(v, a) = [route |-> v.route, views |-> v.views + 1, named |-> a,
                         moved |-> v.moved]
<1>1. v = [route |-> v.route, views |-> v.views, named |-> v.named, moved |-> v.moved]
  BY DEF VisitSet
<1> DEFINE w == [v EXCEPT !.views = @ + 1]
<1>2. w = [route |-> v.route, views |-> v.views + 1, named |-> v.named, moved |-> v.moved]
  BY <1>1
<1>3. Viewed(v, a) = [w EXCEPT !.named = a] BY DEF Viewed
<1> HIDE DEF w
<1>4. QED BY <1>2, <1>3

LEMMA AdapterInitInv == AdapterInit => AdapterInv
<1> SUFFICES ASSUME AdapterInit PROVE AdapterInv OBVIOUS
<1>1. MaxCommits \in Nat \ {0} BY CommitAssumption
<1> DEFINE x == Visit(location)
<1>2. x = [route |-> location, views |-> 0, named |-> Unnamed, moved |-> FALSE] BY DEF Visit
<1>3. x \in VisitSet /\ x.route = location /\ x.views = 0 BY <1>2 DEF AdapterInit, VisitSet
<1>4. log = <<x>> BY DEF AdapterInit
<1> HIDE DEF x
<1>5. log \in Seq(VisitSet) /\ Len(log) = 1 /\ log[1] = x BY <1>3, <1>4
<1>6. current = 1 /\ route = location /\ log[current].views = 0
  BY <1>3, <1>5 DEF current, route
<1>7. /\ adapter \in {"app", "pages", "angular"} /\ ready \in BOOLEAN /\ listening = ready
      /\ since = (IF ready THEN 1 ELSE MaxCommits + 1) /\ location \in Routes
      /\ due = TRUE /\ fired = Unnamed
  BY DEF AdapterInit
<1>8. AdapterTypeOK BY <1>1, <1>5, <1>6, <1>7 DEF AdapterTypeOK, VisitSet
<1>9. SinceInv /\ AddressInv BY <1>1, <1>6, <1>7 DEF SinceInv, AddressInv
<1>10. GuardInv
  <2>1. fired # route BY <1>6, <1>7, RouteAssumption
  <2>2. QED BY <1>6, <1>7, <2>1 DEF GuardInv
<1>11. \A v \in 1 .. current : v = 1 BY <1>6
<1>12. PageviewPerRoute /\ NamesRoute
  BY <1>1, <1>6, <1>7, <1>11 DEF PageviewPerRoute, NamesRoute
<1>13. QED BY <1>8, <1>9, <1>10, <1>12 DEF AdapterInv

(* The effect or the event that follows a commit. *)
LEMMA ReportStep == ASSUME AdapterInv, Report PROVE AdapterInv'
<1>0. AdapterTypeOK /\ SinceInv /\ GuardInv /\ AddressInv /\ PageviewPerRoute /\ NamesRoute
  BY DEF AdapterInv
<1>1. /\ due = TRUE /\ due' = FALSE
      /\ log' = IF Reports THEN [log EXCEPT ![current] = Viewed(@, location)] ELSE log
      /\ fired' = IF adapter = "app" /\ Reports THEN route ELSE fired
      /\ adapter' = adapter /\ ready' = ready /\ since' = since /\ listening' = listening
      /\ location' = location
  BY <1>0 DEF Report, AdapterTypeOK
<1>2. /\ adapter \in {"app", "pages", "angular"} /\ location \in Routes
      /\ ready \in BOOLEAN /\ listening \in BOOLEAN
      /\ fired \in Routes \cup {Unnamed}
  BY <1>0 DEF AdapterTypeOK
<1>3. CASE Reports
  <2> DEFINE old == log[current]
             x == [route |-> old.route, views |-> old.views + 1, named |-> location,
                   moved |-> old.moved]
  <2>1. old \in VisitSet /\ x \in VisitSet
    BY <1>0, <1>2, LogTypes DEF VisitSet
  <2>2. log' = [log EXCEPT ![current] = x]
    <3>1. Viewed(log[current], location) = x BY <1>2, <2>1, ViewedIs
    <3>2. log' = [log EXCEPT ![current] = Viewed(log[current], location)]
      BY <1>0, <1>1, <1>3, LogTypes
    <3>3. QED BY <3>1, <3>2
  <2>3. /\ x.route = old.route /\ x.views = old.views + 1 /\ x.named = location
        /\ x.moved = old.moved /\ old.views \in Nat
    BY <2>1 DEF VisitSet
  <2> HIDE DEF x
  <2>4. /\ log' \in Seq(VisitSet) /\ current' = current /\ log'[current] = x
        /\ route' = x.route
        /\ \A v \in 1 .. current : v # current => log'[v] = log[v]
    BY <1>0, <2>1, <2>2, LastChanged
  <2>5. route' = route BY <1>0, <2>3, <2>4, LogTypes
  <2>6. AdapterTypeOK'
    <3>1. current' \in 1 .. MaxCommits BY <1>0, <2>4 DEF AdapterTypeOK
    <3>2. fired' \in Routes \cup {Unnamed} BY <1>0, <1>1, <1>2, LogTypes
    <3>3. QED BY <1>0, <1>1, <2>4, <3>1, <3>2 DEF AdapterTypeOK, VisitSet
  <2>7. /\ current \in Nat \ {0} /\ since \in Nat /\ current <= MaxCommits
        /\ \A v \in 1 .. current : log[v].views \in Nat
    BY <1>0, LogTypes DEF VisitSet
  <2>8. ready /\ since = 1
    <3>1. ready BY <1>0, <1>2, <1>3, ReportsWhen DEF SinceInv
    <3>2. QED BY <1>0, <1>1, <3>1 DEF SinceInv
  <2>9. SinceInv' BY <1>0, <1>1, <2>4, <2>7 DEF SinceInv
  <2>10. adapter # "pages" => old.views = 0
    BY <1>0, <1>1, <1>2, <1>3, <2>8, ReportsWhen DEF GuardInv
  <2>11. GuardInv'
    BY <1>1, <1>2, <1>3, <2>3, <2>4, <2>5, <2>10 DEF GuardInv
  <2>12. AddressInv' BY <1>1 DEF AddressInv
  <2>13. PageviewPerRoute'
    <3> SUFFICES ASSUME NEW v \in 1 .. current
                 PROVE  /\ ~(v < since)
                        /\ adapter # "pages" => log'[v].views <= 1
                        /\ (adapter = "pages" => listening) => log'[v].views >= 1
      BY <1>1, <2>4 DEF PageviewPerRoute
    <3>1. ~(v < since) BY <2>7, <2>8
    <3>2. CASE v = current BY <2>3, <2>4, <2>10, <3>1, <3>2
    <3>3. CASE v # current
      <4>1. log'[v] = log[v] /\ v < current BY <2>4, <2>7, <3>3
      <4>2. QED BY <1>0, <2>7, <3>1, <4>1 DEF PageviewPerRoute
    <3>4. QED BY <3>2, <3>3
  <2>14. NamesRoute'
    <3> SUFFICES ASSUME NEW v \in 1 .. current, log'[v].views > 0, ~log'[v].moved
                 PROVE  log'[v].named = log'[v].route
      BY <2>4 DEF NamesRoute
    <3>1. CASE v = current
      <4>1. location = route BY <1>0, <1>1, <1>3, <2>3, <2>4, <3>1 DEF AddressInv
      <4>2. QED BY <1>0, <2>3, <2>4, <3>1, <4>1, LogTypes
    <3>2. CASE v # current BY <1>0, <2>4, <3>2 DEF NamesRoute
    <3>3. QED BY <3>1, <3>2
  <2>15. QED BY <2>6, <2>9, <2>11, <2>12, <2>13, <2>14 DEF AdapterInv
<1>4. CASE ~Reports
  <2>1. log' = log /\ fired' = fired BY <1>1, <1>4
  <2>2. current' = current /\ route' = route BY <2>1 DEF current, route
  <2>3. AdapterTypeOK' BY <1>0, <1>1, <2>1, <2>2 DEF AdapterTypeOK
  <2>4. SinceInv' BY <1>0, <1>1, <2>2 DEF SinceInv
  <2>5. GuardInv' BY <1>0, <1>1, <1>2, <1>4, <2>1, <2>2, ReportsWhen DEF GuardInv
  <2>6. AddressInv' BY <1>1 DEF AddressInv
  <2>7. PageviewPerRoute'
    <3> SUFFICES ASSUME NEW v \in 1 .. current
                 PROVE  /\ v < since => log[v].views = 0
                        /\ adapter # "pages" => log[v].views <= 1
                        /\ v >= since /\ (adapter = "pages" => listening) =>
                             log[v].views >= 1
      BY <1>1, <2>1, <2>2 DEF PageviewPerRoute
    <3>1. /\ v < since => log[v].views = 0
          /\ adapter # "pages" => log[v].views <= 1
          /\ v >= since /\ v < current /\ (adapter = "pages" => listening) =>
               log[v].views >= 1
      BY <1>0 DEF PageviewPerRoute
    <3>2. ASSUME v = current, v >= since, adapter = "pages" => listening
          PROVE  log[v].views >= 1
      <4>1. ready
        <5>1. ASSUME ~ready PROVE FALSE
          <6>1. since = MaxCommits + 1 BY <1>0, <5>1 DEF SinceInv
          <6>2. QED BY <1>0, <3>2, <6>1, LogTypes
        <5>2. QED BY <5>1
      <4>2. adapter = "app" /\ fired = route BY <1>2, <1>4, <3>2, <4>1, ReportsWhen
      <4>3. QED BY <1>0, <3>2, <4>1, <4>2 DEF GuardInv
    <3>3. current \in Nat BY <1>0, LogTypes
    <3>4. QED BY <3>1, <3>2, <3>3
  <2>8. NamesRoute' BY <1>0, <2>1, <2>2 DEF NamesRoute
  <2>9. QED BY <2>3, <2>4, <2>5, <2>6, <2>7, <2>8 DEF AdapterInv
<1>5. QED BY <1>3, <1>4

(* A navigation ends at another route. *)
LEMMA CommitStep ==
  ASSUME AdapterInv, ~due, NEW r \in Routes, r # route, Commit(r)
  PROVE  AdapterInv'
<1>0. AdapterTypeOK /\ SinceInv /\ GuardInv /\ AddressInv /\ PageviewPerRoute /\ NamesRoute
  BY DEF AdapterInv
<1> DEFINE x == [route |-> r, views |-> IF adapter = "angular" /\ ready THEN 1 ELSE 0,
                 named |-> IF adapter = "angular" /\ ready THEN r ELSE Unnamed,
                 moved |-> FALSE]
<1>1. /\ current < MaxCommits
      /\ location' = r /\ due' = (adapter # "angular")
      /\ log' = Append(log, x)
      /\ adapter' = adapter /\ ready' = ready /\ since' = since /\ listening' = listening
      /\ fired' = fired
  <2>1. Visit(r) = [route |-> r, views |-> 0, named |-> Unnamed, moved |-> FALSE]
    BY DEF Visit
  <2>2. Visit(r) \in VisitSet BY <2>1 DEF VisitSet
  <2>3. Viewed(Visit(r), r) = [route |-> r, views |-> 1, named |-> r, moved |-> FALSE]
    <3>1. /\ Visit(r).route = r /\ Visit(r).views = 0 /\ Visit(r).moved = FALSE BY <2>1
    <3>2. Viewed(Visit(r), r) = [route |-> Visit(r).route, views |-> Visit(r).views + 1,
                                 named |-> r, moved |-> Visit(r).moved]
      BY <2>2, ViewedIs
    <3>3. 0 + 1 = 1 OBVIOUS
    <3> HIDE DEF x
    <3>4. QED BY <3>1, <3>2, <3>3
  <2>4. log' = Append(log, IF adapter = "angular" /\ ready
                           THEN Viewed(Visit(r), r) ELSE Visit(r))
    BY DEF Commit
  <2>5. log' = Append(log, x)
    <3>1. CASE adapter = "angular" /\ ready BY <2>3, <2>4, <3>1
    <3>2. CASE ~(adapter = "angular" /\ ready) BY <2>1, <2>4, <3>2
    <3>3. QED BY <3>1, <3>2
  <2>6. QED BY <2>5 DEF Commit
<1>2. /\ adapter \in {"app", "pages", "angular"} /\ ready \in BOOLEAN
      /\ fired \in Routes \cup {Unnamed}
  BY <1>0 DEF AdapterTypeOK
<1>3. /\ x \in VisitSet /\ x.route = r /\ x.moved = FALSE
      /\ x.views = (IF adapter = "angular" /\ ready THEN 1 ELSE 0)
      /\ (adapter = "angular" /\ ready => x.named = r)
  BY DEF VisitSet
<1> HIDE DEF x
<1>4. /\ log' \in Seq(VisitSet) /\ current' = current + 1 /\ log'[current + 1] = x
      /\ route' = r
      /\ \A v \in 1 .. current : log'[v] = log[v]
  BY <1>0, <1>1, <1>3, VisitAdded
<1>5. /\ current \in Nat \ {0} /\ since \in Nat /\ MaxCommits \in Nat
      /\ \A v \in 1 .. current : log[v].views \in Nat
  BY <1>0, LogTypes DEF VisitSet
<1>6. AdapterTypeOK'
  <2>1. current' \in 1 .. MaxCommits BY <1>1, <1>4, <1>5
  <2>2. QED BY <1>0, <1>1, <1>4, <2>1 DEF AdapterTypeOK, VisitSet
<1>7. SinceInv'
  <2>1. due' => adapter # "angular" BY <1>1
  <2>2. ready => since <= current + 2 BY <1>0, <1>5 DEF SinceInv
  <2>3. QED BY <1>0, <1>1, <1>4, <1>5, <2>1, <2>2 DEF SinceInv
<1>8. GuardInv'
  <2>1. adapter = "app" /\ ready => fired # r /\ due'
    BY <1>0, <1>1 DEF GuardInv
  <2>2. QED BY <1>1, <1>3, <1>4, <2>1 DEF GuardInv
<1>9. AddressInv' BY <1>1, <1>4 DEF AddressInv
<1>10. PageviewPerRoute'
  <2> SUFFICES ASSUME NEW v \in 1 .. current + 1
               PROVE  /\ v < since => log'[v].views = 0
                      /\ adapter # "pages" => log'[v].views <= 1
                      /\ v >= since /\ (v < current + 1 \/ ~due')
                           /\ (adapter = "pages" => listening) => log'[v].views >= 1
    BY <1>1, <1>4 DEF PageviewPerRoute
  <2>1. CASE v = current + 1
    <3>1. log'[v] = x BY <1>4, <2>1
    <3>2. ready => ~(v < since) BY <1>0, <1>5, <2>1 DEF SinceInv
    <3>3. ~ready => ~(v >= since) BY <1>0, <1>1, <1>5, <2>1 DEF SinceInv
    <3>4. ~(v < current + 1) BY <1>5, <2>1
    <3>5. ~due' => adapter = "angular" BY <1>1
    <3>6. QED BY <1>3, <3>1, <3>2, <3>3, <3>4, <3>5
  <2>2. CASE v # current + 1
    <3>1. v \in 1 .. current BY <1>5, <2>2
    <3>2. log'[v] = log[v] BY <1>4, <3>1
    <3>3. QED BY <1>0, <3>1, <3>2 DEF PageviewPerRoute
  <2>3. QED BY <2>1, <2>2
<1>11. NamesRoute'
  <2> SUFFICES ASSUME NEW v \in 1 .. current + 1, log'[v].views > 0, ~log'[v].moved
               PROVE  log'[v].named = log'[v].route
    BY <1>4 DEF NamesRoute
  <2>1. CASE v = current + 1
    <3>1. log'[v] = x BY <1>4, <2>1
    <3>2. adapter = "angular" /\ ready BY <1>3, <3>1
    <3>3. QED BY <1>3, <3>1, <3>2
  <2>2. CASE v # current + 1
    <3>1. v \in 1 .. current BY <1>5, <2>2
    <3>2. QED BY <1>0, <1>4, <3>1 DEF NamesRoute
  <2>3. QED BY <2>1, <2>2
<1>12. QED BY <1>6, <1>7, <1>8, <1>9, <1>10, <1>11 DEF AdapterInv

(* The address moves on under the router. *)
LEMMA PopStep == ASSUME AdapterInv, NEW r \in Routes, Pop(r) PROVE AdapterInv'
<1>0. AdapterTypeOK /\ SinceInv /\ GuardInv /\ AddressInv /\ PageviewPerRoute /\ NamesRoute
  BY DEF AdapterInv
<1> DEFINE old == log[current]
           x == [route |-> old.route, views |-> old.views, named |-> old.named,
                 moved |-> old.moved \/ due]
<1>1. /\ location' = r
      /\ log' = [log EXCEPT ![current].moved = @ \/ due]
      /\ adapter' = adapter /\ ready' = ready /\ since' = since /\ listening' = listening
      /\ due' = due /\ fired' = fired
  BY DEF Pop
<1>2. old \in VisitSet /\ x \in VisitSet
  <2>1. old \in VisitSet /\ due \in BOOLEAN BY <1>0, LogTypes DEF AdapterTypeOK
  <2>2. QED BY <2>1 DEF VisitSet
<1>3. log' = [log EXCEPT ![current] = x]
  <2>1. [old EXCEPT !.moved = @ \/ due] = x BY <1>2 DEF VisitSet
  <2>2. log' = [log EXCEPT ![current] = [log[current] EXCEPT !.moved = @ \/ due]]
    BY <1>0, <1>1, LogTypes
  <2>3. QED BY <2>1, <2>2
<1>4. /\ x.route = old.route /\ x.views = old.views /\ x.named = old.named
      /\ x.moved = (old.moved \/ due)
  OBVIOUS
<1> HIDE DEF x
<1>5. /\ log' \in Seq(VisitSet) /\ current' = current /\ log'[current] = x
      /\ route' = x.route
      /\ \A v \in 1 .. current : v # current => log'[v] = log[v]
  BY <1>0, <1>2, <1>3, LastChanged
<1>6. route' = route BY <1>0, <1>4, <1>5, LogTypes
<1>7. \A v \in 1 .. current :
        /\ log'[v].views = log[v].views /\ log'[v].named = log[v].named
        /\ log'[v].route = log[v].route
        /\ ~log'[v].moved => ~log[v].moved
  BY <1>4, <1>5
<1>8. AdapterTypeOK' BY <1>0, <1>1, <1>5 DEF AdapterTypeOK, VisitSet
<1>9. SinceInv' BY <1>0, <1>1, <1>5 DEF SinceInv
<1>10. GuardInv' BY <1>0, <1>1, <1>4, <1>5, <1>6 DEF GuardInv
<1>11. AddressInv'
  <2>1. due' => log'[current'].moved BY <1>1, <1>4, <1>5
  <2>2. QED BY <2>1 DEF AddressInv
<1>12. PageviewPerRoute' BY <1>0, <1>1, <1>5, <1>7 DEF PageviewPerRoute
<1>13. NamesRoute' BY <1>0, <1>5, <1>7 DEF NamesRoute
<1>14. QED BY <1>8, <1>9, <1>10, <1>11, <1>12, <1>13 DEF AdapterInv

(* Effects that run again, init(), and a link to the route that is shown.    *)
LEMMA AgainStep ==
  ASSUME AdapterInv, PushSame \/ RerunApp \/ RerunPages \/ ManualInit
  PROVE  AdapterInv'
<1>0. AdapterTypeOK /\ SinceInv /\ GuardInv /\ AddressInv /\ PageviewPerRoute /\ NamesRoute
  BY DEF AdapterInv
<1>1. log' = log /\ adapter' = adapter /\ location' = location /\ fired' = fired
  BY DEF PushSame, RerunApp, RerunPages, ManualInit
<1>2. current' = current /\ route' = route BY <1>1 DEF current, route
<1>3. /\ current \in Nat \ {0} /\ current <= MaxCommits /\ MaxCommits \in Nat /\ since \in Nat
      /\ ready \in BOOLEAN /\ due \in BOOLEAN /\ listening \in BOOLEAN
      /\ adapter \in {"app", "pages", "angular"}
  BY <1>0, LogTypes DEF AdapterTypeOK
<1>4. CASE PushSame
  <2>1. /\ adapter = "pages" /\ ~due /\ location = route /\ due' = TRUE
        /\ ready' = ready /\ since' = since /\ listening' = listening
    BY <1>4 DEF PushSame
  <2>2. AdapterTypeOK' BY <1>0, <1>1, <1>2, <2>1 DEF AdapterTypeOK
  <2>3. SinceInv' /\ GuardInv' /\ AddressInv'
    BY <1>0, <1>1, <1>2, <2>1 DEF SinceInv, GuardInv, AddressInv
  <2>4. PageviewPerRoute' /\ NamesRoute'
    BY <1>0, <1>1, <1>2, <2>1 DEF PageviewPerRoute, NamesRoute
  <2>5. QED BY <2>2, <2>3, <2>4 DEF AdapterInv
<1>5. CASE RerunApp
  <2>1. /\ adapter = "app" /\ ~due /\ due' = TRUE
        /\ ready' = ready /\ since' = since /\ listening' = listening
    BY <1>5 DEF RerunApp
  <2>2. AdapterTypeOK' BY <1>0, <1>1, <1>2, <2>1 DEF AdapterTypeOK
  <2>3. SinceInv' /\ GuardInv'
    BY <1>0, <1>1, <1>2, <2>1 DEF SinceInv, GuardInv
  <2>4. ~Reports'
    <3>1. ~(ready /\ fired # route) BY <1>0, <2>1 DEF GuardInv
    <3>2. ~Reports BY <1>3, <2>1, <3>1, ReportsWhen
    <3>3. Reports' = Reports BY <1>1, <1>2, <2>1 DEF Reports
    <3>4. QED BY <3>2, <3>3
  <2>5. AddressInv' BY <2>4 DEF AddressInv
  <2>6. PageviewPerRoute' /\ NamesRoute'
    BY <1>0, <1>1, <1>2, <2>1 DEF PageviewPerRoute, NamesRoute
  <2>7. QED BY <2>2, <2>3, <2>5, <2>6 DEF AdapterInv
<1>6. CASE RerunPages
  <2>1. /\ adapter = "pages" /\ ~due /\ due' = due /\ listening' = FALSE
        /\ ready' = ready /\ since' = since
    BY <1>6 DEF RerunPages
  <2>2. AdapterTypeOK' BY <1>0, <1>1, <1>2, <2>1 DEF AdapterTypeOK
  <2>3. SinceInv' /\ GuardInv' /\ AddressInv'
    BY <1>0, <1>1, <1>2, <2>1 DEF SinceInv, GuardInv, AddressInv
  <2>4. PageviewPerRoute' /\ NamesRoute'
    BY <1>0, <1>1, <1>2, <2>1 DEF PageviewPerRoute, NamesRoute
  <2>5. QED BY <2>2, <2>3, <2>4 DEF AdapterInv
<1>7. CASE ManualInit
  <2>1. /\ adapter = "angular" /\ ~ready /\ ~due /\ ready' = TRUE /\ since' = current + 1
        /\ due' = due /\ listening' = listening
    BY <1>7 DEF ManualInit
  <2>2. AdapterTypeOK' BY <1>0, <1>1, <1>2, <1>3, <2>1 DEF AdapterTypeOK
  <2>3. SinceInv' /\ GuardInv' /\ AddressInv'
    BY <1>0, <1>1, <1>2, <1>3, <2>1 DEF SinceInv, GuardInv, AddressInv
  <2>4. \A v \in 1 .. current : log[v].views = 0
    <3>1. since = MaxCommits + 1 BY <1>0, <2>1 DEF SinceInv
    <3>2. \A v \in 1 .. current : v < since BY <1>3, <3>1
    <3>3. QED BY <1>0, <3>2 DEF PageviewPerRoute
  <2>5. PageviewPerRoute'
    <3>1. \A v \in 1 .. current : ~(v >= since') BY <1>3, <2>1
    <3>2. QED BY <1>1, <1>2, <2>4, <3>1 DEF PageviewPerRoute
  <2>6. NamesRoute' BY <1>0, <1>1, <1>2 DEF NamesRoute
  <2>7. QED BY <2>2, <2>3, <2>5, <2>6 DEF AdapterInv
<1>8. QED BY <1>4, <1>5, <1>6, <1>7

LEMMA AdapterStep == AdapterInv /\ [AdapterNext]_adapterVars => AdapterInv'
<1> SUFFICES ASSUME AdapterInv, [AdapterNext]_adapterVars PROVE AdapterInv' OBVIOUS
<1>1. CASE Report BY <1>1, ReportStep
<1>2. ASSUME NEW r \in Routes, Push(r) PROVE AdapterInv'
  BY <1>2, CommitStep DEF Push
<1>3. ASSUME NEW r \in Routes, Pop(r) PROVE AdapterInv' BY <1>3, PopStep
<1>4. CASE Follow
  <2>1. location \in Routes BY DEF AdapterInv, AdapterTypeOK
  <2>2. QED BY <1>4, <2>1, CommitStep DEF Follow
<1>5. CASE PushSame \/ RerunApp \/ RerunPages \/ ManualInit BY <1>5, AgainStep
<1>6. CASE UNCHANGED adapterVars
  <2>1. /\ adapter' = adapter /\ ready' = ready /\ since' = since /\ listening' = listening
        /\ location' = location /\ log' = log /\ due' = due /\ fired' = fired
    BY <1>6 DEF adapterVars
  <2>2. current' = current BY <2>1 DEF current
  <2>3. route' = route BY <2>1, <2>2 DEF route
  <2>4. Reports' = Reports BY <2>1, <2>3 DEF Reports
  <2>5. QED
    BY <2>1, <2>2, <2>3, <2>4
       DEF AdapterInv, AdapterTypeOK, SinceInv, GuardInv, AddressInv, PageviewPerRoute,
           NamesRoute
<1>7. QED BY <1>1, <1>2, <1>3, <1>4, <1>5, <1>6 DEF AdapterNext

LEMMA AdapterInvCorrect == AdapterSpec => []AdapterInv
BY AdapterInitInv, AdapterStep, PTL DEF AdapterSpec

(* The adapters' variables keep their types, for any routes and any number   *)
(* of navigations.                                                           *)
THEOREM AdapterTypeCorrect == AdapterSpec => []AdapterTypeOK
<1>1. AdapterInv => AdapterTypeOK BY DEF AdapterInv
<1>2. QED BY <1>1, AdapterInvCorrect, PTL

(* Each route that is committed once the tracker is there gets its pageview,  *)
(* and, but for the Pages Router's, only one; none gets one before that.     *)
THEOREM PageviewPerRouteCorrect == AdapterSpec => []PageviewPerRoute
<1>1. AdapterInv => PageviewPerRoute BY DEF AdapterInv
<1>2. QED BY <1>1, AdapterInvCorrect, PTL

(* A pageview carries the address of its route unless the browser went back   *)
(* or forward before it.                                                     *)
THEOREM NamesRouteCorrect == AdapterSpec => []NamesRoute
<1>1. AdapterInv => NamesRoute BY DEF AdapterInv
<1>2. QED BY <1>1, AdapterInvCorrect, PTL
=============================================================================
