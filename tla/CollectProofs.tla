--------------------------- MODULE CollectProofs ---------------------------
(***************************************************************************)
(* Theorems about Collect, for any requests, visitors and hosts, and any   *)
(* number of days and of versions of the site.                             *)
(***************************************************************************)
EXTENDS Collect, TLAPS

(* The two clock readings: the event is dated today or yesterday while its   *)
(* request is being dated, and no later than the salt, by a day at most.     *)
ClockOrder ==
  \A r \in Requests :
    /\ place[r] = "dated" => ts[r] <= day /\ day <= ts[r] + 1
    /\ place[r] = "built" \/ r \in Submitted =>
         salted[r] # -1 /\ ts[r] <= salted[r] /\ salted[r] <= ts[r] + 1

OkIsAnswered == \A r \in Submitted : place[r] = "answered"

IInv == TypeOK /\ ClockOrder /\ OkIsAnswered

LEMMA InitInv == Init => IInv
<1> SUFFICES ASSUME Init PROVE IInv
  OBVIOUS
<1>1. TypeOK
  BY CollectAssumption DEF Init, TypeOK, Places, Reasons, Submitted
<1> QED
  BY <1>1 DEF Init, IInv, ClockOrder, Submitted, OkIsAnswered

(* A request that is dropped says nothing new.                               *)
LEMMA DropInv ==
  ASSUME IInv, NEW r \in Requests, NEW why \in Reasons \ {"ok"}, Drop(r, why),
         place[r] # "answered"
  PROVE  IInv'
<1> USE DEF IInv, Drop
<1>1. Submitted' \subseteq Submitted
  BY DEF Submitted, TypeOK
<1>2. TypeOK'
  BY <1>1 DEF TypeOK, Places, Reasons
<1>3. \A q \in Requests : place'[q] \in {"dated", "built"} => place[q] = place'[q]
  BY DEF TypeOK
<1>4. ClockOrder' /\ OkIsAnswered'
  BY <1>1, <1>3 DEF ClockOrder, OkIsAnswered, TypeOK, Submitted
<1> QED
  BY <1>2, <1>4

LEMMA StepInv == IInv /\ [Next]_vars => IInv'
<1> SUFFICES ASSUME IInv, [Next]_vars PROVE IInv'
  OBVIOUS
<1> USE DEF IInv
<1>1. CASE Midnight
  <2>1. day' = day + 1 /\ UNCHANGED <<site, current, place, input, ts, salted, reason>>
    BY <1>1 DEF Midnight, request
  <2>2. \A r \in Requests : place[r] = "dated" => ts[r] = day
    BY <1>1 DEF Midnight
  <2>3. TypeOK'
    BY <1>1, <2>1, CollectAssumption DEF Midnight, TypeOK, Submitted
  <2> QED
    BY <2>1, <2>2, <2>3 DEF TypeOK, ClockOrder, Submitted, OkIsAnswered
<1>2. CASE WriteSite
  <2>1. PICK row \in SiteRows :
          site' = [v \in 1..(current + 1) |-> IF v <= current THEN site[v] ELSE row]
    BY <1>2 DEF WriteSite
  <2>2. /\ current < MaxSite /\ current' = current + 1
        /\ UNCHANGED <<day, place, input, ts, salted, reason>>
    BY <1>2 DEF WriteSite, request
  <2>3. current \in 1..MaxSite /\ MaxSite \in Nat
    BY CollectAssumption DEF TypeOK
  <2>4. site' \in [1..current' -> SiteRows] /\ current' \in 1..MaxSite
    BY <2>1, <2>2, <2>3 DEF TypeOK
  <2>5. TypeOK'
    BY <2>2, <2>4 DEF TypeOK, Submitted
  <2> QED
    BY <2>2, <2>5 DEF ClockOrder, Submitted, OkIsAnswered
<1>3. ASSUME NEW r \in Requests, Handle(r) PROVE IInv'
  <2>1. CASE Receive(r) \/ Pass(r)
    <3>1. /\ place[r] \in {"new", "allow"}
          /\ \E p \in {"allow", "lookup"} : place' = [place EXCEPT ![r] = p]
          /\ UNCHANGED <<day, site, current, input, ts, salted, reason>>
      BY <2>1 DEF Receive, Pass, Advance
    <3>2. TypeOK'
      BY <3>1 DEF TypeOK, Places, Submitted
    <3> QED
      BY <3>1, <3>2 DEF TypeOK, ClockOrder, Submitted, OkIsAnswered
  <2>2. CASE ReceiveMalformed(r) \/ Limited(r) \/ LookupFails(r) \/ ScreenOut(r)
             \/ FilterBot(r) \/ BuildFails(r)
    <3>1. place[r] # "answered" /\ \E why \in Reasons \ {"ok"} : Drop(r, why)
      BY <2>2 DEF ReceiveMalformed, Limited, LookupFails, ScreenOut, FilterBot,
                  BuildFails, Reasons
    <3> QED
      BY <3>1, DropInv
  <2>3. CASE Date(r)
    <3>1. /\ place[r] = "lookup"
          /\ place' = [place EXCEPT ![r] = "dated"]
          /\ ts' = [ts EXCEPT ![r] = day]
          /\ UNCHANGED <<day, site, current, input, salted, reason>>
      BY <2>3 DEF Date, Advance
    <3>2. TypeOK'
      BY <3>1 DEF TypeOK, Places, Submitted
    <3>3. r \notin Submitted
      BY <3>1 DEF OkIsAnswered
    <3> QED
      BY <3>1, <3>2, <3>3 DEF TypeOK, ClockOrder, Submitted, OkIsAnswered
  <2>4. CASE Build(r)
    <3>1. /\ place[r] = "dated"
          /\ place' = [place EXCEPT ![r] = "built"]
          /\ salted' = [salted EXCEPT ![r] = day]
          /\ UNCHANGED <<day, site, current, input, ts, reason>>
      BY <2>4 DEF Build, Advance
    <3>2. TypeOK'
      BY <3>1, CollectAssumption DEF TypeOK, Places, Submitted
    <3> QED
      BY <3>1, <3>2 DEF TypeOK, ClockOrder, Submitted, OkIsAnswered
  <2>5. CASE SubmitAndAnswer(r)
    <3>1. /\ place[r] = "built"
          /\ place' = [place EXCEPT ![r] = "answered"]
          /\ reason' = [reason EXCEPT ![r] = "ok"]
          /\ UNCHANGED <<day, site, current, input, ts, salted>>
      BY <2>5 DEF SubmitAndAnswer, Advance
    <3>2. TypeOK'
      BY <3>1 DEF TypeOK, Places, Reasons, Submitted, ClockOrder
    <3> QED
      BY <3>1, <3>2 DEF TypeOK, ClockOrder, Submitted, OkIsAnswered
  <2> QED
    BY <1>3, <2>1, <2>2, <2>3, <2>4, <2>5 DEF Handle
<1>4. CASE UNCHANGED vars
  BY <1>4 DEF vars, request, TypeOK, ClockOrder, Submitted, OkIsAnswered
<1> QED
  BY <1>1, <1>2, <1>3, <1>4 DEF Next

LEMMA Invariant == Spec => []IInv
BY InitInv, StepInv, PTL DEF Spec

(* Every variable keeps its type; what is submitted has a session id.        *)
THEOREM TypeCorrect == Spec => []TypeOK
<1>1. IInv => TypeOK
  BY DEF IInv
<1> QED
  BY <1>1, Invariant, PTL

(* The events of one session are dated on one day or on two neighbours.      *)
THEOREM SpanCorrect == Spec => []SessionSpan
<1>1. IInv => SessionSpan
  <2> SUFFICES ASSUME IInv, NEW p \in Submitted, NEW q \in Submitted,
                      salted[p] = salted[q]
               PROVE  ts[p] - ts[q] \in -1..1
    BY DEF SessionSpan, SessionId
  <2>1. p \in Requests /\ q \in Requests
    BY DEF Submitted
  <2>2. ts[p] \in Int /\ ts[q] \in Int /\ salted[p] \in Int
    BY <2>1, CollectAssumption DEF IInv, TypeOK
  <2>3. /\ ts[p] <= salted[p] /\ salted[p] <= ts[p] + 1
        /\ ts[q] <= salted[p] /\ salted[p] <= ts[q] + 1
    BY <2>1 DEF IInv, ClockOrder
  <2> QED
    BY <2>2, <2>3
<1> QED
  BY <1>1, Invariant, PTL
=============================================================================
