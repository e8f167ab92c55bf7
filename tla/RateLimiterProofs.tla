------------------------- MODULE RateLimiterProofs -------------------------
(***************************************************************************)
(* Theorems about RateLimiter for any number of requests, any limits and   *)
(* any resolution of the clock.                                            *)
(***************************************************************************)
EXTENDS RateLimiter, FiniteSetTheorems, TLAPS

(* A time lies in the second that is named after its first tick.             *)
LEMMA SecondFact ==
  ASSUME NEW t \in Nat
  PROVE  /\ Second(t) \in Nat
         /\ Second(t) <= t
         /\ t < Second(t) + TicksPerSec
<1>1. t % TicksPerSec \in 0 .. TicksPerSec - 1
  BY LimiterAssumption
<1>2. t % TicksPerSec <= t
  BY LimiterAssumption
<1> QED
  BY <1>1, <1>2, LimiterAssumption DEF Second

(* What the history of a call says about the place it has reached.           *)
CallInv ==
  \A r \in Requests :
    /\ call[r].at \in {"idle", "ip"} => call[r].counted = {} /\ call[r].passed = {}
    /\ call[r].at = "site" => call[r].counted \subseteq {"ip"}
    /\ call[r].at = "ip" => call[r].ip # NoIp
    /\ call[r].passed \subseteq call[r].counted
    /\ call[r].at = "site" \/ "site" \in call[r].counted =>
         PerIP = 0 \/ call[r].ip = NoIp \/ "ip" \in call[r].passed

(* No INCR has reached Redis in the future.                                  *)
HistoryInv == \A p \in Requests \X Checks : incrAt[p] <= now

Inv == TypeOK /\ CallInv /\ HistoryInv

LEMMA InvInit == Init => Inv
<1> SUFFICES ASSUME Init PROVE Inv
  OBVIOUS
<1> USE LimiterAssumption
<1>1. (CHOOSE s \in Sites : TRUE) \in Sites
  OBVIOUS
<1>2. now \in Seconds
  BY DEF Init, Seconds
<1>3. counter \in [Keys -> [n : Nat, expiresAt : Nat]]
  BY DEF Init, NoCounter
<1>4. call \in [Requests ->
                 [at : Checks \cup {"idle", "allowed", "rejected", "failedOpen"},
                  ip : Ips \cup {NoIp}, site : Sites, readAt : Seconds,
                  counted : SUBSET Checks, passed : SUBSET Checks]]
  BY <1>1, <1>2 DEF Init, Seconds
<1>5. incrAt \in [Requests \X Checks -> Seconds]
  BY DEF Init, Seconds
<1>6. CallInv /\ HistoryInv
  BY DEF Init, CallInv, HistoryInv, Checks
<1> QED
  BY <1>2, <1>3, <1>4, <1>5, <1>6 DEF Inv, TypeOK

(* The counter that a waiting call goes for exists.                          *)
LEMMA KeyFact ==
  ASSUME Inv, NEW r \in Requests, call[r].at \in Checks
  PROVE  KeyOf(r, call[r].at) \in Keys
<1>1. Second(call[r].readAt) \in Seconds
  BY SecondFact, LimiterAssumption DEF Inv, TypeOK, Seconds
<1> QED
  BY <1>1, LimiterAssumption DEF Inv, TypeOK, CallInv, Checks, KeyOf, Keys

LEMMA BumpedFact ==
  ASSUME Inv, NEW k \in Keys
  PROVE  Bumped(k) \in Nat /\ Bumped(k) <= counter[k].n + 1
BY DEF Inv, TypeOK, Bumped

(* What one INCR does to the state that Redis and the history keep.          *)
LEMMA IncrTypes ==
  ASSUME Inv, NEW r \in Requests, call[r].at \in Checks, Incr(r, call[r].at), now' = now
  PROVE  /\ counter' \in [Keys -> [n : Nat, expiresAt : Nat]]
         /\ incrAt' \in [Requests \X Checks -> Seconds]
         /\ \A p \in Requests \X Checks :
              incrAt'[p] = IF p = <<r, call[r].at>> THEN now ELSE incrAt[p]
<1>1. KeyOf(r, call[r].at) \in Keys
  BY KeyFact
<1>2. Bumped(KeyOf(r, call[r].at)) \in Nat /\ now + KeyLife \in Nat
  BY <1>1, BumpedFact, LimiterAssumption DEF Inv, TypeOK, KeyLife, Seconds
<1>3. counter' \in [Keys -> [n : Nat, expiresAt : Nat]]
  BY <1>1, <1>2 DEF Incr, Inv, TypeOK
<1>4. <<r, call[r].at>> \in Requests \X Checks
  OBVIOUS
<1> QED
  BY <1>3, <1>4 DEF Incr, Inv, TypeOK

LEMMA InvStep == Inv /\ [Next]_vars => Inv'
<1> SUFFICES ASSUME Inv, [Next]_vars PROVE Inv'
  OBVIOUS
<1> USE LimiterAssumption
<1>1. ASSUME NEW r \in Requests, NEW ip \in Ips \cup {NoIp}, NEW site \in Sites,
             Begin(r, ip, site)
      PROVE  Inv'
  <2>1. First(ip) \in Checks \cup {"allowed"}
    BY DEF First, Checks
  <2>2. TypeOK'
    BY <1>1, <2>1 DEF Inv, TypeOK, Begin
  <2>3. CallInv'
    BY <1>1 DEF Inv, TypeOK, CallInv, Begin, First, Checks, Seconds
  <2>4. HistoryInv'
    BY <1>1 DEF Inv, HistoryInv, Begin
  <2> QED
    BY <2>2, <2>3, <2>4 DEF Inv
<1>2. ASSUME NEW r \in Requests, IncrPasses(r) PROVE Inv'
  <2> DEFINE check == call[r].at
  <2>1. check \in Checks /\ KeyOf(r, check) \in Keys
    BY <1>2, KeyFact DEF IncrPasses
  <2>2. /\ counter' \in [Keys -> [n : Nat, expiresAt : Nat]]
        /\ incrAt' \in [Requests \X Checks -> Seconds]
        /\ \A p \in Requests \X Checks : incrAt'[p] \in {now, incrAt[p]}
    BY <1>2, <2>1, IncrTypes DEF IncrPasses
  <2>3. AfterPassing(check) \in {"site", "allowed"}
    BY DEF AfterPassing
  <2>4. TypeOK'
    <3> DEFINE Call == [at : Checks \cup {"idle", "allowed", "rejected", "failedOpen"},
                        ip : Ips \cup {NoIp}, site : Sites, readAt : Seconds,
                        counted : SUBSET Checks, passed : SUBSET Checks]
               new == [call[r] EXCEPT !.at = AfterPassing(check),
                                      !.counted = @ \cup {check},
                                      !.passed = @ \cup {check}]
    <3>1. call[r] \in Call
      BY DEF Inv, TypeOK
    <3>2. new \in Call
      BY <2>1, <2>3, <3>1 DEF Checks
    <3>3. call' = [call EXCEPT ![r] = new]
      BY <1>2 DEF IncrPasses, Inv, TypeOK
    <3>4. call' \in [Requests -> Call]
      BY <3>2, <3>3 DEF Inv, TypeOK
    <3>5. now' \in Seconds
      BY <1>2 DEF IncrPasses, Inv, TypeOK
    <3> QED
      BY <2>2, <3>4, <3>5 DEF TypeOK
  <2>5. CallInv'
    <3>1. \A q \in Requests \ {r} : call'[q] = call[q]
      BY <1>2 DEF IncrPasses, Inv, TypeOK
    <3>2. /\ call'[r].at = AfterPassing(check) /\ call'[r].ip = call[r].ip
          /\ call'[r].counted = call[r].counted \cup {check}
          /\ call'[r].passed = call[r].passed \cup {check}
      BY <1>2 DEF IncrPasses, Inv, TypeOK
    <3> QED
      BY <2>1, <2>3, <3>1, <3>2 DEF Inv, CallInv, Checks, AfterPassing
  <2>6. HistoryInv'
    BY <1>2, <2>2 DEF IncrPasses, Inv, TypeOK, HistoryInv, Seconds
  <2> QED
    BY <2>4, <2>5, <2>6 DEF Inv
<1>3. ASSUME NEW r \in Requests, IncrRejects(r) \/ IncrFails(r) PROVE Inv'
  <2> DEFINE check == call[r].at
  <2>1. check \in Checks /\ KeyOf(r, check) \in Keys
    BY <1>3, KeyFact DEF IncrRejects, IncrFails
  <2>2. /\ counter' \in [Keys -> [n : Nat, expiresAt : Nat]]
        /\ incrAt' \in [Requests \X Checks -> Seconds]
        /\ \A p \in Requests \X Checks : incrAt'[p] \in {now, incrAt[p]}
    <3>1. CASE Incr(r, check)
      BY <1>3, <2>1, <3>1, IncrTypes DEF IncrRejects, IncrFails
    <3>2. CASE UNCHANGED <<counter, incrAt>>
      BY <3>2 DEF Inv, TypeOK
    <3> QED
      BY <1>3, <3>1, <3>2 DEF IncrRejects, IncrFails
  <2>3. TypeOK'
    <3> DEFINE Call == [at : Checks \cup {"idle", "allowed", "rejected", "failedOpen"},
                        ip : Ips \cup {NoIp}, site : Sites, readAt : Seconds,
                        counted : SUBSET Checks, passed : SUBSET Checks]
    <3>1. call \in [Requests -> Call] /\ call[r] \in Call
      BY DEF Inv, TypeOK
    <3>2. \A at \in {"rejected", "failedOpen"} :
            /\ [call[r] EXCEPT !.at = at] \in Call
            /\ [call[r] EXCEPT !.at = at, !.counted = @ \cup {check}] \in Call
      <4>1. \A at \in {"rejected", "failedOpen"} : [call[r] EXCEPT !.at = at] \in Call
        BY <3>1
      <4>2. \A c \in Call : [c EXCEPT !.counted = @ \cup {check}] \in Call
        BY <2>1
      <4> QED
        BY <3>1, <4>1, <4>2
    <3>3. \E at \in {"rejected", "failedOpen"} :
            \/ call' = [call EXCEPT ![r] = [call[r] EXCEPT !.at = at]]
            \/ call' = [call EXCEPT ![r] = [call[r] EXCEPT !.at = at, !.counted = @ \cup {check}]]
      BY <1>3 DEF IncrRejects, IncrFails, Inv, TypeOK
    <3>4. call' \in [Requests -> Call]
      <4> HIDE DEF Call
      <4> QED
        BY <3>1, <3>2, <3>3
    <3>5. now' \in Seconds
      BY <1>3 DEF IncrRejects, IncrFails, Inv, TypeOK
    <3> QED
      BY <2>2, <3>4, <3>5 DEF TypeOK
  <2>4. CallInv'
    <3>1. \A q \in Requests \ {r} : call'[q] = call[q]
      BY <1>3 DEF IncrRejects, IncrFails, Inv, TypeOK
    <3>2. /\ call'[r].at \in {"rejected", "failedOpen"}
          /\ call'[r].ip = call[r].ip /\ call'[r].passed = call[r].passed
          /\ call'[r].counted \in {call[r].counted, call[r].counted \cup {check}}
      BY <1>3 DEF IncrRejects, IncrFails, Inv, TypeOK
    <3> QED
      BY <2>1, <3>1, <3>2 DEF Inv, CallInv, Checks
  <2>5. HistoryInv'
    BY <1>3, <2>2 DEF IncrRejects, IncrFails, Inv, TypeOK, HistoryInv, Seconds
  <2> QED
    BY <2>3, <2>4, <2>5 DEF Inv
<1>4. CASE Advance
  <2>1. \A p \in Requests \X Checks : incrAt[p] \in Nat
    BY DEF Inv, TypeOK, Seconds
  <2> QED
    BY <1>4, <2>1 DEF Advance, Inv, TypeOK, CallInv, HistoryInv, Seconds
<1>5. CASE UNCHANGED vars
  BY <1>5 DEF vars, Inv, TypeOK, CallInv, HistoryInv
<1> QED
  BY <1>1, <1>2, <1>3, <1>4, <1>5 DEF Next

(* Type correctness: counters and calls keep their shapes, and no counter    *)
(* outside the seconds of the clock is touched.                              *)
THEOREM TypeCorrect == Spec => []TypeOK
<1>1. Inv => TypeOK
  BY DEF Inv
<1> QED
  BY InvInit, InvStep, <1>1, PTL DEF Spec

----------------------------------------------------------------------------
(* How a step changes the sets of requests counted and passed                *)

(* The call of r counts under the key of its check; the others stay.         *)
Counts(r) ==
  /\ \A q \in Requests \ {r} : call'[q] = call[q]
  /\ call'[r].ip = call[r].ip /\ call'[r].site = call[r].site
  /\ call'[r].readAt = call[r].readAt
  /\ call'[r].counted = call[r].counted \cup {call[r].at}
  /\ call'[r].passed \in {call[r].passed, call[r].passed \cup {call[r].at}}

(* Nothing is counted.                                                       *)
CountsNothing ==
  \A r \in Requests :
    /\ call'[r].counted = call[r].counted
    /\ call'[r].passed = call[r].passed
    /\ call[r].counted \cup call[r].passed # {} =>
         /\ call'[r].ip = call[r].ip /\ call'[r].site = call[r].site
         /\ call'[r].readAt = call[r].readAt

LEMMA CountedFinite ==
  ASSUME NEW k
  PROVE  /\ IsFiniteSet(CountedIn(k)) /\ Cardinality(CountedIn(k)) \in Nat
         /\ IsFiniteSet(PassedIn(k)) /\ Cardinality(PassedIn(k)) \in Nat
<1>1. CountedIn(k) \subseteq Requests /\ PassedIn(k) \subseteq Requests
  BY DEF CountedIn, PassedIn
<1>2. IsFiniteSet(CountedIn(k)) /\ IsFiniteSet(PassedIn(k))
  BY <1>1, FS_Subset, LimiterAssumption
<1> QED
  BY <1>2, FS_CardinalityType

LEMMA NothingCounted ==
  ASSUME CountsNothing
  PROVE  \A k : CountedIn(k)' = CountedIn(k) /\ PassedIn(k)' = PassedIn(k)
<1> SUFFICES ASSUME NEW k
             PROVE  CountedIn(k)' = CountedIn(k) /\ PassedIn(k)' = PassedIn(k)
  OBVIOUS
<1>1. \A r \in Requests : \A check :
        check \in call[r].counted \cup call[r].passed => KeyOf(r, check)' = KeyOf(r, check)
  BY DEF CountsNothing, KeyOf
<1> QED
  BY <1>1 DEF CountsNothing, CountedIn, PassedIn

LEMMA OneCounted ==
  ASSUME Inv, NEW r \in Requests, call[r].at \in Checks, Counts(r)
  PROVE  /\ \A k : CountedIn(k)' = IF k = KeyOf(r, call[r].at)
                                     THEN CountedIn(k) \cup {r} ELSE CountedIn(k)
         /\ \A k : k # KeyOf(r, call[r].at) => PassedIn(k)' = PassedIn(k)
         /\ \A k : k = KeyOf(r, call[r].at) =>
              PassedIn(k)' = IF call[r].at \in call'[r].passed
                               THEN PassedIn(k) \cup {r} ELSE PassedIn(k)
         /\ r \notin CountedIn(KeyOf(r, call[r].at))
         /\ r \notin PassedIn(KeyOf(r, call[r].at))
<1> DEFINE check == call[r].at
<1>1. check \notin call[r].counted /\ check \notin call[r].passed
  BY DEF Inv, CallInv, Checks
<1>2. \A q \in Requests : \A c : KeyOf(q, c)' = KeyOf(q, c)
  BY DEF Counts, KeyOf
<1>3. KeyOf(r, check)[1] = check /\ \A c : KeyOf(r, c)[1] = c
  BY DEF KeyOf
<1>4. ASSUME NEW k
      PROVE  CountedIn(k)' = IF k = KeyOf(r, check) THEN CountedIn(k) \cup {r}
                                                    ELSE CountedIn(k)
  <2>1. \A q \in Requests \ {r} : q \in CountedIn(k)' <=> q \in CountedIn(k)
    BY <1>2 DEF Counts, CountedIn
  <2>2. r \in CountedIn(k)' <=> r \in CountedIn(k) \/ k = KeyOf(r, check)
    BY <1>2, <1>3 DEF Counts, CountedIn
  <2>3. CountedIn(k) \subseteq Requests /\ CountedIn(k)' \subseteq Requests
    BY DEF CountedIn
  <2> QED
    BY <2>1, <2>2, <2>3
<1>5. ASSUME NEW k, k # KeyOf(r, check) PROVE PassedIn(k)' = PassedIn(k)
  <2>1. \A q \in Requests \ {r} : q \in PassedIn(k)' <=> q \in PassedIn(k)
    BY <1>2 DEF Counts, PassedIn
  <2>2. r \in PassedIn(k)' <=> r \in PassedIn(k)
    BY <1>2, <1>3, <1>5 DEF Counts, PassedIn
  <2>3. PassedIn(k) \subseteq Requests /\ PassedIn(k)' \subseteq Requests
    BY DEF PassedIn
  <2> QED
    BY <2>1, <2>2, <2>3
<1>6. ASSUME NEW k, k = KeyOf(r, check)
      PROVE  PassedIn(k)' = IF check \in call'[r].passed THEN PassedIn(k) \cup {r}
                                                         ELSE PassedIn(k)
  <2>1. \A q \in Requests \ {r} : q \in PassedIn(k)' <=> q \in PassedIn(k)
    BY <1>2 DEF Counts, PassedIn
  <2>2. r \in PassedIn(k)' <=> check \in call'[r].passed
    BY <1>2, <1>3, <1>6 DEF PassedIn
  <2>3. r \notin PassedIn(k)
    BY <1>1, <1>3, <1>6 DEF PassedIn
  <2>4. PassedIn(k) \subseteq Requests /\ PassedIn(k)' \subseteq Requests
    BY DEF PassedIn
  <2> QED
    BY <2>1, <2>2, <2>3, <2>4
<1>7. r \notin CountedIn(KeyOf(r, check)) /\ r \notin PassedIn(KeyOf(r, check))
  BY <1>1, <1>3 DEF CountedIn, PassedIn
<1> QED
  BY <1>4, <1>5, <1>6, <1>7

(* Every step leaves the counters alone, or is one INCR of one call.         *)
QuietStep ==
  /\ CountsNothing
  /\ UNCHANGED <<counter, incrAt>>
  /\ now \in Nat /\ now' \in Nat /\ now <= now'
  /\ \A r \in Requests : call'[r].at = "rejected" => call[r].at = "rejected"

IncrStep(r) ==
  LET check == call[r].at IN
  /\ check \in Checks
  /\ Counts(r)
  /\ Incr(r, check)
  /\ now' = now
  /\ check \in call'[r].passed => WithinLimit(Bumped(KeyOf(r, check)), check)
  /\ call'[r].at = "rejected" =>
       ~WithinLimit(Bumped(KeyOf(r, check)), check) /\ check \notin call'[r].passed

LEMMA StepKinds ==
  ASSUME Inv, [Next]_vars
  PROVE  QuietStep \/ \E r \in Requests : IncrStep(r)
<1>0. now \in Nat
  BY DEF Inv, TypeOK, Seconds
<1>1. ASSUME NEW r \in Requests, NEW ip \in Ips \cup {NoIp}, NEW site \in Sites,
             Begin(r, ip, site)
      PROVE  QuietStep
  <2>1. call'[r].counted = {} /\ call'[r].passed = {} /\ call'[r].at # "rejected"
    BY <1>1 DEF Begin, First, Inv, TypeOK
  <2>2. call[r].counted = {} /\ call[r].passed = {}
    BY <1>1 DEF Begin, Inv, CallInv
  <2>3. \A q \in Requests \ {r} : call'[q] = call[q]
    BY <1>1 DEF Begin, Inv, TypeOK
  <2> QED
    BY <1>0, <1>1, <2>1, <2>2, <2>3 DEF QuietStep, CountsNothing, Begin
<1>2. ASSUME NEW r \in Requests, IncrPasses(r) PROVE IncrStep(r)
  <2>1. Counts(r) /\ call'[r].at # "rejected"
    BY <1>2 DEF IncrPasses, AfterPassing, Counts, Inv, TypeOK
  <2> QED
    BY <1>2, <2>1 DEF IncrPasses, IncrStep
<1>3. ASSUME NEW r \in Requests, IncrRejects(r) PROVE IncrStep(r)
  <2>1. Counts(r) /\ call'[r].passed = call[r].passed
    BY <1>3 DEF IncrRejects, Counts, Inv, TypeOK
  <2>2. call[r].at \notin call'[r].passed
    BY <1>3, <2>1 DEF IncrRejects, Inv, CallInv, Checks
  <2> QED
    BY <1>3, <2>1, <2>2 DEF IncrRejects, IncrStep
<1>4. ASSUME NEW r \in Requests, IncrFails(r) PROVE QuietStep \/ IncrStep(r)
  <2>1. call'[r].at = "failedOpen" /\ call'[r].passed = call[r].passed
    BY <1>4 DEF IncrFails, Inv, TypeOK
  <2>2. call[r].at \notin call'[r].passed
    BY <1>4, <2>1 DEF IncrFails, Inv, CallInv, Checks
  <2>3. \A q \in Requests \ {r} : call'[q] = call[q]
    BY <1>4 DEF IncrFails, Inv, TypeOK
  <2>4. call'[r].ip = call[r].ip /\ call'[r].site = call[r].site
        /\ call'[r].readAt = call[r].readAt
    BY <1>4 DEF IncrFails, Inv, TypeOK
  <2>5. CASE Incr(r, call[r].at) /\ call'[r].counted = call[r].counted \cup {call[r].at}
    BY <1>4, <2>1, <2>2, <2>3, <2>4, <2>5 DEF IncrFails, IncrStep, Counts
  <2>6. CASE UNCHANGED <<counter, incrAt>> /\ call'[r].counted = call[r].counted
    BY <1>0, <1>4, <2>1, <2>3, <2>4, <2>6 DEF IncrFails, QuietStep, CountsNothing
  <2> QED
    BY <1>4, <2>5, <2>6 DEF IncrFails, Inv, TypeOK
<1>5. CASE Advance
  BY <1>0, <1>5 DEF Advance, QuietStep, CountsNothing
<1>6. CASE UNCHANGED vars
  BY <1>0, <1>6 DEF vars, QuietStep, CountsNothing
<1> QED
  BY <1>1, <1>2, <1>3, <1>4, <1>5, <1>6 DEF Next

LEMMA IncrCounter ==
  ASSUME Inv, NEW r \in Requests, NEW k \in Keys, k = KeyOf(r, call[r].at),
         Incr(r, call[r].at)
  PROVE  /\ counter'[k].n = Bumped(k) /\ counter'[k].expiresAt = now + KeyLife
         /\ \A j \in Keys : j # k => counter'[j] = counter[j]
BY DEF Incr, Inv, TypeOK

----------------------------------------------------------------------------
(* No request is refused without cause                                       *)

CauseInv ==
  /\ Inv
  /\ \A k \in Keys : counter[k].n <= Cardinality(CountedIn(k))
  /\ RejectedForCause

LEMMA CauseInit == Init => CauseInv
<1> SUFFICES ASSUME Init PROVE CauseInv
  OBVIOUS
<1>1. Inv
  BY InvInit
<1>2. \A k \in Keys : counter[k].n = 0
  BY DEF Init, NoCounter
<1>3. RejectedForCause
  BY DEF Init, RejectedForCause
<1>4. ASSUME NEW k \in Keys PROVE counter[k].n <= Cardinality(CountedIn(k))
  BY <1>2, CountedFinite
<1> QED
  BY <1>1, <1>3, <1>4 DEF CauseInv

LEMMA CauseStep == CauseInv /\ [Next]_vars => CauseInv'
<1> SUFFICES ASSUME CauseInv, [Next]_vars PROVE CauseInv'
  OBVIOUS
<1>0. Inv /\ Inv' /\ RejectedForCause
  BY InvStep DEF CauseInv
<1>1. CASE QuietStep
  <2>1. \A k : CountedIn(k)' = CountedIn(k)
    BY <1>1, NothingCounted DEF QuietStep
  <2>2. \A k \in Keys : (counter[k].n <= Cardinality(CountedIn(k)))'
    BY <1>1, <2>1 DEF QuietStep, CauseInv
  <2>3. RejectedForCause'
    <3> SUFFICES ASSUME NEW r \in Requests, call'[r].at = "rejected"
                 PROVE  \E check \in call'[r].counted \ call'[r].passed :
                          Cardinality(CountedIn(KeyOf(r, check))' \ {r}) >= Limit(check)
      BY DEF RejectedForCause, Limit
    <3>1. PICK check \in call[r].counted \ call[r].passed :
            Cardinality(CountedIn(KeyOf(r, check)) \ {r}) >= Limit(check)
      BY <1>0, <1>1 DEF QuietStep, RejectedForCause
    <3>2. check \in call'[r].counted \ call'[r].passed /\ KeyOf(r, check)' = KeyOf(r, check)
      BY <1>1, <3>1 DEF QuietStep, CountsNothing, KeyOf
    <3>3. CountedIn(KeyOf(r, check))' = CountedIn(KeyOf(r, check))
      <4>1. \A k : k = KeyOf(r, check) => CountedIn(k)' = CountedIn(KeyOf(r, check))
        BY <2>1
      <4> QED
        BY <3>2, <4>1 DEF CountedIn
    <3> QED
      BY <3>1, <3>2, <3>3
  <2> QED
    BY <1>0, <2>2, <2>3 DEF CauseInv
<1>2. ASSUME NEW q \in Requests, IncrStep(q) PROVE CauseInv'
  <2>1. PICK k \in Keys : k = KeyOf(q, call[q].at)
    BY <1>0, <1>2, KeyFact DEF IncrStep
  <2>2. /\ CountedIn(k)' = CountedIn(k) \cup {q} /\ q \notin CountedIn(k)
        /\ \A j : j # k => CountedIn(j)' = CountedIn(j)
    BY <1>0, <1>2, <2>1, OneCounted DEF IncrStep
  <2>3. Cardinality(CountedIn(k)') = Cardinality(CountedIn(k)) + 1
    BY <2>2, CountedFinite, FS_AddElement
  <2>4. \A j \in Keys : (counter[j].n <= Cardinality(CountedIn(j)))'
    <3>1. /\ counter'[k].n <= counter[k].n + 1
          /\ \A j \in Keys : j # k => counter'[j] = counter[j]
      BY <1>0, <1>2, <2>1, IncrCounter, BumpedFact DEF IncrStep
    <3>2. counter[k].n \in Nat /\ counter'[k].n \in Nat /\ Cardinality(CountedIn(k)) \in Nat
      BY <1>0, CountedFinite DEF Inv, TypeOK
    <3>3. counter'[k].n <= Cardinality(CountedIn(k)')
      BY <2>3, <3>1, <3>2 DEF CauseInv
    <3>4. ASSUME NEW j \in Keys, j # k PROVE counter'[j].n <= Cardinality(CountedIn(j)')
      BY <2>2, <3>1, <3>4 DEF CauseInv
    <3> QED
      BY <3>3, <3>4
  <2>5. RejectedForCause'
    <3> SUFFICES ASSUME NEW r \in Requests, call'[r].at = "rejected"
                 PROVE  \E check \in call'[r].counted \ call'[r].passed :
                          \A j : j = KeyOf(r, check)' =>
                            Cardinality(CountedIn(j)' \ {r}) >= Limit(check)
      BY DEF RejectedForCause, Limit
    <3>1. CASE r = q
      <4>1. ~WithinLimit(Bumped(k), call[r].at) /\ call[r].at \in call'[r].counted \ call'[r].passed
        BY <1>2, <2>1, <3>1 DEF IncrStep, Counts
      <4>2. Bumped(k) \in Nat /\ Bumped(k) <= Cardinality(CountedIn(k)) + 1
        <5>1. Cardinality(CountedIn(k)) \in Nat /\ counter[k].n \in Nat
          BY <1>0, CountedFinite DEF Inv, TypeOK
        <5> QED
          BY <1>0, <5>1, BumpedFact DEF CauseInv
      <4>3. Limit(call[r].at) \in Nat
        BY LimiterAssumption DEF Limit
      <4>4. Cardinality(CountedIn(k)) >= Limit(call[r].at)
        BY <4>1, <4>2, <4>3, CountedFinite DEF WithinLimit
      <4>5. CountedIn(k)' \ {r} = CountedIn(k)
        BY <2>2, <3>1
      <4>6. PICK check : check = call[r].at
        OBVIOUS
      <4>7. KeyOf(r, check)' = k
        BY <1>2, <2>1, <3>1, <4>6 DEF IncrStep, Counts, KeyOf
      <4>8. check \in call'[r].counted \ call'[r].passed
        BY <4>1, <4>6
      <4>9. Cardinality(CountedIn(k)' \ {r}) >= Limit(check)
        BY <4>4, <4>5, <4>6
      <4>10. \A j : j = KeyOf(r, check)' => Cardinality(CountedIn(j)' \ {r}) >= Limit(check)
        BY <4>7, <4>9
      <4> QED
        BY <4>8, <4>10
    <3>2. CASE r # q
      <4>1. call'[r] = call[r]
        BY <1>2, <3>2 DEF IncrStep, Counts
      <4>2. PICK check \in call[r].counted \ call[r].passed :
              Cardinality(CountedIn(KeyOf(r, check)) \ {r}) >= Limit(check)
        BY <1>0, <4>1 DEF RejectedForCause
      <4>3. PICK j : j = KeyOf(r, check)
        OBVIOUS
      <4>4. KeyOf(r, check)' = j
        BY <4>1, <4>3 DEF KeyOf
      <4>5. CountedIn(j) \subseteq CountedIn(j)'
        BY <2>2
      <4>6. Cardinality(CountedIn(j)' \ {r}) >= Cardinality(CountedIn(j) \ {r})
        <5>1. IsFiniteSet(CountedIn(j)')
          <6>1. CountedIn(j)' = CountedIn(j) \/ CountedIn(j)' = CountedIn(j) \cup {q}
            BY <2>2
          <6> QED
            BY <6>1, CountedFinite, FS_AddElement
        <5>2. IsFiniteSet(CountedIn(j)' \ {r})
          BY <5>1, FS_Difference, FS_Subset
        <5>3. CountedIn(j) \ {r} \subseteq CountedIn(j)' \ {r}
          BY <4>5
        <5> QED
          BY <5>2, <5>3, FS_Subset, FS_CardinalityType
      <4>7. /\ Cardinality(CountedIn(j)' \ {r}) \in Nat
            /\ Cardinality(CountedIn(j) \ {r}) \in Nat
            /\ Limit(check) \in Nat
        <5>1. IsFiniteSet(CountedIn(j)') /\ IsFiniteSet(CountedIn(j))
          <6>1. CountedIn(j)' = CountedIn(j) \/ CountedIn(j)' = CountedIn(j) \cup {q}
            BY <2>2
          <6> QED
            BY <6>1, CountedFinite, FS_AddElement
        <5>2. IsFiniteSet(CountedIn(j)' \ {r}) /\ IsFiniteSet(CountedIn(j) \ {r})
          BY <5>1, FS_Subset
        <5> QED
          BY <5>2, FS_CardinalityType, LimiterAssumption DEF Limit
      <4>8. Cardinality(CountedIn(j)' \ {r}) >= Limit(check)
        BY <4>2, <4>3, <4>6, <4>7
      <4> QED
        BY <4>1, <4>2, <4>4, <4>8
    <3> QED
      BY <3>1, <3>2
  <2> QED
    BY <1>0, <2>4, <2>5 DEF CauseInv
<1> QED
  BY <1>0, <1>1, <1>2, StepKinds

(* However many requests meet, in whatever order they reach Redis and however*)
(* late, a request is refused only when its limit had been used up.          *)
THEOREM RejectedForCauseCorrect == Spec => []RejectedForCause
<1>1. CauseInv => RejectedForCause
  BY DEF CauseInv
<1> QED
  BY CauseInit, CauseStep, <1>1, PTL DEF Spec

----------------------------------------------------------------------------
(* No more than the limit pass                                               *)

(* Those that passed the counter of k since u.                               *)
PassedSince(k, u) == {r \in PassedIn(k) : incrAt[<<r, k[1]>>] >= u}

(* A pass keeps its counter alive for two seconds.  So as long as two seconds *)
(* from u are not over, those that have passed since u passed in the counter's*)
(* present life, and it has counted them; and in any two seconds they are no  *)
(* more than the limit.                                                      *)
CapInv ==
  /\ Inv
  /\ \A k \in Keys :
       /\ \A r \in PassedIn(k) : incrAt[<<r, k[1]>>] + KeyLife <= counter[k].expiresAt
       /\ \A u \in Seconds : now < u + KeyLife =>
            Cardinality(PassedSince(k, u)) <= counter[k].n
  /\ CapHolds

LEMMA SubsetsFinite ==
  ASSUME NEW k, NEW S, S \subseteq PassedIn(k)
  PROVE  IsFiniteSet(S) /\ Cardinality(S) \in Nat
BY CountedFinite, FS_Subset, FS_CardinalityType

LEMMA CapInit == Init => CapInv
<1> SUFFICES ASSUME Init PROVE CapInv
  OBVIOUS
<1>1. \A k : PassedIn(k) = {}
  BY DEF Init, PassedIn
<1>2. \A k, u : PassedSince(k, u) = {}
  BY <1>1 DEF PassedSince
<1>3. \A k \in Keys : counter[k].n = 0
  BY DEF Init, NoCounter
<1>4. CapHolds
  <2>1. \A k, t : {r \in PassedIn(k) : ReachedIn(r, k[1], t)} = {}
    BY <1>1
  <2> QED
    BY <2>1, FS_EmptySet, LimiterAssumption DEF CapHolds, Limit
<1> QED
  BY <1>1, <1>2, <1>3, <1>4, InvInit, FS_EmptySet DEF CapInv

LEMMA CapStep == CapInv /\ [Next]_vars => CapInv'
<1> SUFFICES ASSUME CapInv, [Next]_vars PROVE CapInv'
  OBVIOUS
<1>0. Inv /\ Inv'
  BY InvStep DEF CapInv
<1>1. CASE QuietStep
  <2>1. \A k : PassedIn(k)' = PassedIn(k)
    BY <1>1, NothingCounted DEF QuietStep
  <2>2. \A k, u : PassedSince(k, u)' = PassedSince(k, u)
    BY <1>1, <2>1 DEF QuietStep, PassedSince
  <2>3. \A k, t : {r \in PassedIn(k) : ReachedIn(r, k[1], t)}'
                   = {r \in PassedIn(k) : ReachedIn(r, k[1], t)}
    BY <1>1, <2>1 DEF QuietStep, ReachedIn
  <2>4. CapHolds'
    BY <2>3 DEF CapInv, CapHolds, Limit
  <2>5. \A u \in Seconds : now' < u + KeyLife => now < u + KeyLife
    BY <1>1, LimiterAssumption DEF QuietStep, Seconds, KeyLife
  <2> QED
    BY <1>0, <1>1, <2>1, <2>2, <2>4, <2>5 DEF QuietStep, CapInv, KeyLife
<1>2. ASSUME NEW q \in Requests, IncrStep(q) PROVE CapInv'
  <2>1. PICK k \in Keys : k = KeyOf(q, call[q].at)
    BY <1>0, <1>2, KeyFact DEF IncrStep
  <2>2. /\ \A j : j # k => PassedIn(j)' = PassedIn(j)
        /\ PassedIn(k)' = PassedIn(k) \/
             (call[q].at \in call'[q].passed /\ PassedIn(k)' = PassedIn(k) \cup {q})
        /\ q \notin PassedIn(k)
    BY <1>0, <1>2, <2>1, OneCounted DEF IncrStep
  <2>3. /\ counter'[k].n = Bumped(k) /\ counter'[k].expiresAt = now + KeyLife
        /\ \A j \in Keys : j # k => counter'[j] = counter[j]
    BY <1>0, <1>2, <2>1, IncrCounter DEF IncrStep
  <2>4. k[1] = call[q].at /\ k[1] \in Checks
    BY <1>2, <2>1 DEF KeyOf, IncrStep
  <2>5. /\ incrAt'[<<q, k[1]>>] = now
        /\ \A j \in Keys : \A r \in PassedIn(j) : incrAt'[<<r, j[1]>>] = incrAt[<<r, j[1]>>]
    <3>1. \A p \in Requests \X Checks :
            incrAt'[p] = IF p = <<q, call[q].at>> THEN now ELSE incrAt[p]
      BY <1>0, <1>2, IncrTypes DEF IncrStep
    <3>2. ASSUME NEW j \in Keys, NEW r \in PassedIn(j)
          PROVE  <<r, j[1]>> \in Requests \X Checks /\ <<r, j[1]>> # <<q, call[q].at>>
      <4>1. r \in Requests /\ j[1] \in call[r].passed
        BY <3>2 DEF PassedIn
      <4>2. j[1] \in Checks
        BY <3>2 DEF Keys, Checks
      <4>3. r = q => j[1] # call[q].at
        BY <1>0, <1>2, <4>1 DEF Inv, CallInv, Checks, IncrStep
      <4> QED
        BY <4>1, <4>2, <4>3
    <3> QED
      BY <2>4, <3>1, <3>2
  <2>6. /\ now \in Nat /\ now' = now /\ KeyLife \in Nat \ {0} /\ KeyLife = 2 * TicksPerSec
        /\ counter[k].n \in Nat /\ counter[k].expiresAt \in Nat /\ Bumped(k) \in Nat
        /\ Limit(k[1]) \in Nat
        /\ \A r \in Requests : incrAt[<<r, k[1]>>] \in Nat
    BY <1>0, <1>2, <2>4, BumpedFact, LimiterAssumption
       DEF Inv, TypeOK, KeyLife, Limit, IncrStep, Seconds
  <2>7. ASSUME NEW u \in Seconds, now < u + KeyLife
        PROVE  Cardinality(PassedSince(k, u)) + 1 <= Bumped(k)
    <3>1. CASE now < counter[k].expiresAt
      <4>1. Cardinality(PassedSince(k, u)) <= counter[k].n
        BY <2>7 DEF CapInv
      <4>2. Cardinality(PassedSince(k, u)) \in Nat
        BY SubsetsFinite DEF PassedSince
      <4> QED
        BY <2>6, <3>1, <4>1, <4>2 DEF Bumped
    <3>2. CASE ~(now < counter[k].expiresAt)
      <4>1. ASSUME NEW r \in PassedIn(k) PROVE ~(incrAt[<<r, k[1]>>] >= u)
        <5>1. r \in Requests /\ incrAt[<<r, k[1]>>] + KeyLife <= counter[k].expiresAt
          BY <4>1 DEF CapInv, PassedIn
        <5> QED
          BY <2>6, <2>7, <3>2, <5>1 DEF Seconds
      <4>2. PassedSince(k, u) = {}
        BY <4>1 DEF PassedSince
      <4> QED
        BY <2>6, <3>2, <4>2, FS_EmptySet DEF Bumped
    <3> QED
      BY <3>1, <3>2
  <2>8. ASSUME NEW u \in Seconds
        PROVE  PassedSince(k, u)' = PassedSince(k, u) \/
                 (PassedIn(k)' = PassedIn(k) \cup {q} /\ PassedSince(k, u)' = PassedSince(k, u) \cup {q})
    <3>1. \A r \in PassedIn(k) : r \in PassedSince(k, u)' <=> r \in PassedSince(k, u)
      BY <2>2, <2>5 DEF PassedSince
    <3>2. PassedSince(k, u)' \subseteq PassedIn(k)' /\ PassedSince(k, u) \subseteq PassedIn(k)
      BY DEF PassedSince
    <3> QED
      BY <2>2, <3>1, <3>2
  <2>9. ASSUME NEW u \in Seconds, now < u + KeyLife
        PROVE  Cardinality(PassedSince(k, u)') <= Bumped(k)
    <3>1. /\ Cardinality(PassedSince(k, u)) \in Nat /\ IsFiniteSet(PassedSince(k, u))
          /\ q \notin PassedSince(k, u)
      BY <2>2, SubsetsFinite DEF PassedSince
    <3>2. Cardinality(PassedSince(k, u) \cup {q}) = Cardinality(PassedSince(k, u)) + 1
      BY <3>1, FS_AddElement
    <3>3. PassedSince(k, u)' \in {PassedSince(k, u), PassedSince(k, u) \cup {q}}
      BY <2>8
    <3>4. Cardinality(PassedSince(k, u)') \in
            {Cardinality(PassedSince(k, u)), Cardinality(PassedSince(k, u)) + 1}
      BY <3>2, <3>3
    <3> QED
      BY <2>6, <2>7, <2>9, <3>1, <3>4
  <2>10. ASSUME NEW j \in Keys
         PROVE  /\ \A r \in PassedIn(j)' : incrAt'[<<r, j[1]>>] + KeyLife <= counter'[j].expiresAt
                /\ \A u \in Seconds : now' < u + KeyLife =>
                     Cardinality(PassedSince(j, u)') <= counter'[j].n
    <3>1. CASE j = k
      <4>1. \A r \in Requests : incrAt[<<r, k[1]>>] <= now
        BY <1>0, <2>4 DEF Inv, HistoryInv
      <4>2. \A r \in PassedIn(k) : r \in Requests
        BY DEF PassedIn
      <4>3. ASSUME NEW r \in PassedIn(k)' PROVE incrAt'[<<r, k[1]>>] <= now
        BY <2>2, <2>5, <2>6, <4>1, <4>2
      <4>4. ASSUME NEW r \in PassedIn(k)' PROVE incrAt'[<<r, k[1]>>] \in Nat
        BY <2>2, <2>5, <2>6, <4>2
      <4> QED
        BY <2>3, <2>6, <2>9, <3>1, <4>3, <4>4
    <3>2. CASE j # k
      <4>1. \A u : PassedSince(j, u)' = PassedSince(j, u)
        BY <2>2, <2>5, <3>2 DEF PassedSince
      <4> QED
        BY <2>2, <2>3, <2>5, <2>6, <3>2, <4>1 DEF CapInv
    <3> QED
      BY <3>1, <3>2
  <2>11. CapHolds'
    <3> SUFFICES ASSUME NEW j \in Keys, NEW t \in Seconds
                 PROVE  Cardinality({r \in PassedIn(j) : ReachedIn(r, j[1], t)}') <= Limit(j[1])
      BY DEF CapHolds, Limit
    <3> DEFINE W == {r \in PassedIn(j) : ReachedIn(r, j[1], t)}
    <3>1. \A r \in PassedIn(j) : r \in W' <=> r \in W
      BY <2>2, <2>5 DEF ReachedIn
    <3>2. W \subseteq PassedIn(j) /\ W' \subseteq PassedIn(j)'
      OBVIOUS
    <3>3. Cardinality(W) <= Limit(j[1])
      BY DEF CapInv, CapHolds
    <3>4. CASE W' = W
      BY <3>3, <3>4
    <3>5. CASE W' # W
      <4>1. j = k /\ PassedIn(k)' = PassedIn(k) \cup {q} /\ q \in W'
            /\ call[q].at \in call'[q].passed
        BY <2>2, <3>1, <3>2, <3>5
      <4>2. now \in t .. t + 2 * TicksPerSec - 1
        BY <2>5, <4>1 DEF ReachedIn
      <4>3. now < t + KeyLife
        BY <2>6, <4>2, LimiterAssumption DEF Seconds
      <4>4. W' \subseteq PassedSince(k, t)'
        <5> SUFFICES ASSUME NEW r \in W' PROVE r \in PassedSince(k, t)'
          OBVIOUS
        <5>1. r \in PassedIn(k)' /\ incrAt'[<<r, k[1]>>] \in t .. t + 2 * TicksPerSec - 1
          BY <4>1 DEF ReachedIn
        <5> QED
          BY <5>1 DEF PassedSince
      <4>5. Cardinality(PassedSince(k, t)') <= Bumped(k)
        BY <2>9, <4>3
      <4>6. Bumped(k) <= Limit(k[1])
        BY <1>2, <2>1, <2>4, <4>1 DEF IncrStep, WithinLimit
      <4>7. IsFiniteSet(PassedSince(k, t)')
        <5>1. PassedSince(k, t)' \subseteq PassedIn(k) \cup {q}
          BY <4>1 DEF PassedSince
        <5> QED
          BY <5>1, CountedFinite, FS_AddElement, FS_Subset
      <4>8. /\ Cardinality(W') <= Cardinality(PassedSince(k, t)')
            /\ Cardinality(W') \in Nat /\ Cardinality(PassedSince(k, t)') \in Nat
        BY <4>4, <4>7, FS_Subset, FS_CardinalityType
      <4> QED
        BY <2>6, <4>1, <4>5, <4>6, <4>8
    <3> QED
      BY <3>4, <3>5
  <2> QED
    BY <1>0, <2>10, <2>11 DEF CapInv, KeyLife
<1> QED
  BY <1>0, <1>1, <1>2, StepKinds

(* However late requests reach Redis, no counter lets more than its limit     *)
(* through in any two seconds.                                               *)
THEOREM CapCorrect == Spec => []CapHolds
<1>1. CapInv => CapHolds
  BY DEF CapInv
<1> QED
  BY CapInit, CapStep, <1>1, PTL DEF Spec

(* Nor does one address use up a site's budget.                              *)
THEOREM OneAddressCorrect == Spec => []OneAddressLeavesSite
<1>1. CapInv => OneAddressLeavesSite
  <2> SUFFICES ASSUME CapInv, PerIP > 0, NEW ip \in Ips, NEW site \in Sites, NEW s \in Seconds,
                      NEW t \in Seconds
               PROVE  Cardinality({r \in CountedIn(<<"site", site, s>>) :
                                     call[r].ip = ip /\ ReachedIn(r, "ip", t)}) <= PerIP
    BY DEF OneAddressLeavesSite
  <2> DEFINE mine == {r \in CountedIn(<<"site", site, s>>) :
                        call[r].ip = ip /\ ReachedIn(r, "ip", t)}
             k == <<"ip", ip, s>>
             passed == {r \in PassedIn(k) : ReachedIn(r, k[1], t)}
  <2>1. k \in Keys
    BY DEF Keys
  <2>2. mine \subseteq passed
    <3> SUFFICES ASSUME NEW r \in mine PROVE r \in passed
      OBVIOUS
    <3>1. /\ r \in Requests /\ "site" \in call[r].counted /\ call[r].ip = ip
          /\ Second(call[r].readAt) = s /\ ReachedIn(r, "ip", t)
      BY DEF CountedIn, KeyOf
    <3>2. "ip" \in call[r].passed
      BY <3>1, LimiterAssumption DEF CapInv, Inv, CallInv
    <3> QED
      BY <3>1, <3>2 DEF PassedIn, KeyOf
  <2>3. IsFiniteSet(passed) /\ Cardinality(passed) \in Nat
    BY SubsetsFinite
  <2>4. Cardinality(mine) \in Nat /\ Cardinality(mine) <= Cardinality(passed)
    BY <2>2, <2>3, FS_Subset, FS_CardinalityType
  <2>5. Cardinality(passed) <= PerIP
    BY <2>1 DEF CapInv, CapHolds, Limit
  <2> QED
    BY <2>3, <2>4, <2>5, LimiterAssumption
<1> QED
  BY CapInit, CapStep, <1>1, PTL DEF Spec
=============================================================================
