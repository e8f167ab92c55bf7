------------------------- MODULE ControlPlaneProofs -------------------------
(***************************************************************************)
(* Theorems about Domains, for any number of calls and hostnames, about    *)
(* Migrate, for any number of files, and about the two together.           *)
(*                                                                         *)
(* What carries the proofs about the primary is what a call knows, from    *)
(* its count on, about the rows that it could have seen, and that the      *)
(* index lets one call at a time through.  That the calls implement        *)
(* DomainsContract needs the locks of their rows besides.                  *)
(***************************************************************************)
EXTENDS ControlPlane, TLAPS

----------------------------------------------------------------------------
(* Domains *)

Started(r) == row[r] # "none"

(* A call's row is not there before its COMMIT, nor after a refusal.          *)
RowAfterCommit ==
  \A c \in Creates : at[c] \in Running \cup {"idle", "conflict"} => row[c] = "none"

(* A call that has passed the index of the primaries is the only one, and    *)
(* demotes whatever is primary.                                              *)
PendingAlone ==
  /\ \A c, e \in Creates :
       at[c] = "commit" /\ at[e] = "commit" /\ primary[c] /\ primary[e] => c = e
  /\ \A c \in Creates : at[c] = "commit" /\ primary[c] => Primaries \subseteq touched[c]

(* Only a call for a primary demotes, and it demotes others.                 *)
DemotesForItself ==
  \A c \in Creates :
    /\ at[c] \in {"demote", "lock", "index"} => primary[c]
    /\ touched[c] # {} => primary[c]

(* Only rows that are there, or have been, are changed.                      *)
TouchesStarted == \A t \in Calls : \A r \in touched[t] : Started(r)

(* A call that leaves its domain without is_primary has counted others.      *)
OthersCounted ==
  \A c \in Creates :
    at[c] \in {"insert", "index", "commit"} /\ ~primary[c] => \E r \in Creates : Started(r)

(* PrimaryRemains does not keep itself up when the last domain has gone.     *)
FirstStays == (\E r \in Creates : Started(r)) /\ ~orphaned => Primaries # {}

(* Of the primaries that were there when it counted, a call has demoted      *)
(* those that still are.                                                     *)
CountedDemoted ==
  \A c \in Creates :
    /\ \A r \in before[c] : Started(r)
    /\ at[c] = "lock" => before[c] \cap Primaries \subseteq seen[c]
    /\ at[c] \in {"insert", "index"} /\ primary[c] =>
         before[c] \cap Primaries \subseteq touched[c]

IInv ==
  /\ TypeOK
  /\ RowAfterCommit
  /\ PendingAlone
  /\ OnePrimary
  /\ TouchesStarted
  /\ DemotesForItself
  /\ OthersCounted
  /\ FirstStays
  /\ CountedDemoted
  /\ ConflictExplained

----------------------------------------------------------------------------
(* The invariant is kept: one lemma for each action. *)

(* A call begins.                                                          *)
LEMMA BeginCreateKeeps ==
  ASSUME IInv, NEW c \in Creates, BeginCreate(c)
  PROVE  IInv'
<1> USE CallsAssumption DEF IInv, TypeOK, Calls, Running, BeginCreate
<1>1. TypeOK'
  OBVIOUS
<1>2. RowAfterCommit'
  BY DEF RowAfterCommit
<1>3. PendingAlone'
  BY DEF PendingAlone, Primaries, Live
<1>4. OnePrimary'
  BY DEF OnePrimary, Primaries, Live
<1>5. TouchesStarted'
  BY DEF TouchesStarted, Started, Live, Primaries
<1>6. DemotesForItself'
  BY DEF DemotesForItself
<1>7. OthersCounted'
  BY DEF OthersCounted, Started, Live
<1>8. FirstStays'
  BY DEF FirstStays, Started, Primaries, Live
<1>9. CountedDemoted'
  BY DEF CountedDemoted, Started, Primaries, Live
<1>10. ConflictExplained'
  BY DEF ConflictExplained
<1> QED
  BY <1>1, <1>2, <1>3, <1>4, <1>5, <1>6, <1>7, <1>8, <1>9, <1>10 DEF IInv

(* The count fixes what the call knows: `before`, and whether it is first. *)
LEMMA CountKeeps ==
  ASSUME IInv, NEW c \in Creates, Count(c)
  PROVE  IInv'
<1> USE CallsAssumption DEF IInv, TypeOK, Calls, Running, Count
<1>1. TypeOK'
  OBVIOUS
<1>2. RowAfterCommit'
  BY DEF RowAfterCommit
<1>3. PendingAlone'
  BY DEF PendingAlone, Primaries, Live
<1>4. OnePrimary'
  BY DEF OnePrimary, Primaries, Live
<1>5. TouchesStarted'
  BY DEF TouchesStarted, Started, Live, Primaries
<1>6. DemotesForItself'
  BY DEF DemotesForItself
<1>7. OthersCounted'
  <2> SUFFICES ASSUME NEW e \in Creates, ~primary'[e],
                      at'[e] \in {"insert", "index", "commit"}
               PROVE  \E r \in Creates : Started(r)
    BY DEF OthersCounted, Started
  <2>1. CASE e = c
    <3>1. Live # {}
      BY <2>1
    <3> QED
      BY <3>1 DEF Live, Started
  <2>2. CASE e # c
    BY <2>2 DEF OthersCounted
  <2> QED
    BY <2>1, <2>2
<1>8. FirstStays'
  BY DEF FirstStays, Started, Primaries, Live
<1>9. CountedDemoted'
  BY DEF CountedDemoted, Started, Primaries, Live
<1>10. ConflictExplained'
  BY DEF ConflictExplained
<1> QED
  BY <1>1, <1>2, <1>3, <1>4, <1>5, <1>6, <1>7, <1>8, <1>9, <1>10 DEF IInv

(* The UPDATE finds its rows.                                              *)
LEMMA DemoteFindKeeps ==
  ASSUME IInv, NEW c \in Creates, DemoteFind(c)
  PROVE  IInv'
<1> USE CallsAssumption DEF IInv, TypeOK, Calls, Running, DemoteFind
<1>1. TypeOK'
  BY DEF Primaries, Live
<1>2. RowAfterCommit'
  BY DEF RowAfterCommit
<1>3. PendingAlone'
  BY DEF PendingAlone, Primaries, Live
<1>4. OnePrimary'
  BY DEF OnePrimary, Primaries, Live
<1>5. TouchesStarted'
  BY DEF TouchesStarted, Started, Live, Primaries
<1>6. DemotesForItself'
  BY DEF DemotesForItself
<1>7. OthersCounted'
  BY DEF OthersCounted, Started, Live
<1>8. FirstStays'
  BY DEF FirstStays, Started, Primaries, Live
<1>9. CountedDemoted'
  BY DEF CountedDemoted, Started, Primaries, Live
<1>10. ConflictExplained'
  BY DEF ConflictExplained
<1> QED
  BY <1>1, <1>2, <1>3, <1>4, <1>5, <1>6, <1>7, <1>8, <1>9, <1>10 DEF IInv

(* The UPDATE changes those of its rows that are still primary.            *)
LEMMA DemoteKeeps ==
  ASSUME IInv, NEW c \in Creates, Demote(c)
  PROVE  IInv'
<1> USE CallsAssumption DEF IInv, TypeOK, Calls, Running, Demote
<1>1. TypeOK'
  OBVIOUS
<1>2. RowAfterCommit'
  BY DEF RowAfterCommit
<1>3. PendingAlone'
  BY DEF PendingAlone, Primaries, Live
<1>4. OnePrimary'
  BY DEF OnePrimary, Primaries, Live
<1>5. TouchesStarted'
  BY DEF TouchesStarted, Started, Live, Primaries
<1>6. DemotesForItself'
  BY DEF DemotesForItself
<1>7. OthersCounted'
  BY DEF OthersCounted, Started, Live, DemotesForItself
<1>8. FirstStays'
  BY DEF FirstStays, Started, Primaries, Live
<1>9. CountedDemoted'
  BY DEF CountedDemoted, Started, Primaries, Live
<1>10. ConflictExplained'
  BY DEF ConflictExplained
<1> QED
  BY <1>1, <1>2, <1>3, <1>4, <1>5, <1>6, <1>7, <1>8, <1>9, <1>10 DEF IInv

(* The first index lets the call on or refuses it.                         *)
LEMMA InsertHostnameKeeps ==
  ASSUME IInv, NEW c \in Creates, InsertHostname(c)
  PROVE  IInv'
<1> USE CallsAssumption DEF IInv, TypeOK, Calls, Running, InsertHostname,
       Passes, Conflict, Rollback, Ends
<1>1. TypeOK'
  BY SMTT(20) DEF SameHost, Live
<1>2. RowAfterCommit'
  BY DEF RowAfterCommit
<1>3. PendingAlone'
  BY DEF PendingAlone, Primaries, Live
<1>4. OnePrimary'
  BY DEF OnePrimary, Primaries, Live
<1>5. TouchesStarted'
  BY DEF TouchesStarted, Started, Live, Primaries
<1>6. DemotesForItself'
  BY DEF DemotesForItself
<1>7. OthersCounted'
  BY DEF OthersCounted, Started, Live
<1>8. FirstStays'
  BY DEF FirstStays, Started, Primaries, Live
<1>9. CountedDemoted'
  BY DEF CountedDemoted, Started, Primaries, Live
<1>10. ConflictExplained'
  BY DEF ConflictExplained, SameHost
<1> QED
  BY <1>1, <1>2, <1>3, <1>4, <1>5, <1>6, <1>7, <1>8, <1>9, <1>10 DEF IInv

(* The second index lets a call through only when nobody else is past it.  *)
LEMMA InsertPrimaryKeeps ==
  ASSUME IInv, NEW c \in Creates, InsertPrimary(c)
  PROVE  IInv'
<1> USE CallsAssumption DEF IInv, TypeOK, Calls, Running, InsertPrimary,
       Passes, Conflict, Rollback, Ends
<1>1. TypeOK'
  BY DEF Primaries, Live
<1>2. RowAfterCommit'
  BY DEF RowAfterCommit
<1>3. PendingAlone'
  <2>1. ASSUME NEW e \in Creates \ {c} PROVE ~(at[e] = "commit" /\ primary[e])
    BY DEF WaitsFor
  <2>2. CASE Primaries \ touched[c] = {}
    <3>1. at' = [at EXCEPT ![c] = "commit"] /\ UNCHANGED <<row, primary, touched>>
      BY <2>2
    <3> QED
      BY <2>1, <2>2, <3>1 DEF PendingAlone, Primaries, Live
  <2>3. CASE Primaries \ touched[c] # {}
    BY <2>1, <2>3 DEF PendingAlone, Primaries, Live
  <2> QED
    BY <2>2, <2>3
<1>4. OnePrimary'
  BY DEF OnePrimary, Primaries, Live
<1>5. TouchesStarted'
  BY DEF TouchesStarted, Started, Live, Primaries
<1>6. DemotesForItself'
  BY DEF DemotesForItself
<1>7. OthersCounted'
  BY DEF OthersCounted, Started, Live
<1>8. FirstStays'
  BY DEF FirstStays, Started, Primaries, Live
<1>9. CountedDemoted'
  BY DEF CountedDemoted, Started, Primaries, Live
<1>10. ConflictExplained'
  <2>1. CASE Primaries \ touched[c] = {}
    BY <2>1 DEF ConflictExplained
  <2>2. CASE Primaries \ touched[c] # {}
    <3>1. at' = [at EXCEPT ![c] = "conflict"]
          /\ blame' = [blame EXCEPT ![c] = Primaries \ touched[c]]
          /\ UNCHANGED <<host, before>>
      BY <2>2
    <3>2. PICK r \in Primaries : r \notin touched[c]
      BY <2>2
    <3>3. at[c] = "index" /\ r \in Creates /\ row[r] = "live" /\ primary[r]
      BY <3>2 DEF Primaries, Live
    <3>4. primary[c]
      BY <3>3 DEF DemotesForItself
    <3>5. r \notin before[c] \/ host[r] = host[c]
      BY <3>2, <3>3, <3>4 DEF CountedDemoted, Primaries, Live
    <3>6. r \in blame'[c] /\ primary'[c] /\ host' = host /\ before' = before
      BY <3>1, <3>2, <3>4
    <3>7. ASSUME NEW e \in Creates, at'[e] = "conflict"
          PROVE  \/ \E q \in blame'[e] : host'[q] = host'[e]
                 \/ primary'[e] /\ \E q \in blame'[e] : q \notin before'[e]
      <4>1. CASE e = c
        BY <3>5, <3>6, <4>1
      <4>2. CASE e # c
        BY <3>1, <3>7, <4>2 DEF ConflictExplained
      <4> QED
        BY <4>1, <4>2
    <3> QED
      BY <3>7 DEF ConflictExplained
  <2> QED
    BY <2>1, <2>2
<1> QED
  BY <1>1, <1>2, <1>3, <1>4, <1>5, <1>6, <1>7, <1>8, <1>9, <1>10 DEF IInv

(* The COMMIT of a Create: its row appears, the demoted rows change.       *)
LEMMA CommitCreateKeeps ==
  ASSUME IInv, NEW c \in Creates, CommitCreate(c)
  PROVE  IInv'
<1> USE CallsAssumption DEF IInv, TypeOK, Calls, Running, CommitCreate, Ends
<1>1. TypeOK'
  OBVIOUS
<1>2. RowAfterCommit'
  BY DEF RowAfterCommit
<1>3. PendingAlone'
  BY DEF PendingAlone, Primaries, Live
<1>4. OnePrimary'
  <2>1. Primaries' \subseteq (Primaries \ touched[c]) \cup {c}
    BY DEF Primaries, Live
  <2>2. c \in Primaries' => primary[c]
    BY DEF Primaries, Live
  <2>3. CASE primary[c]
    BY <2>1, <2>3 DEF PendingAlone, OnePrimary
  <2>4. CASE ~primary[c]
    BY <2>1, <2>2, <2>4 DEF OnePrimary
  <2> QED
    BY <2>3, <2>4
<1>5. TouchesStarted'
  BY DEF TouchesStarted, Started, Live, Primaries
<1>6. DemotesForItself'
  BY DEF DemotesForItself, TouchesStarted, Started, RowAfterCommit
<1>7. OthersCounted'
  BY DEF OthersCounted, Started, Live
<1>8. FirstStays'
  <2>1. CASE primary[c]
    <3>1. c \notin touched[c]
      BY DEF TouchesStarted, Started, RowAfterCommit
    <3>2. c \in Primaries'
      BY <2>1, <3>1 DEF Primaries, Live
    <3> QED
      BY <3>2 DEF FirstStays
  <2>2. CASE ~primary[c]
    <3>1. \E r \in Creates : Started(r)
      BY <2>2 DEF OthersCounted
    <3>2. touched[c] = {}
      BY <2>2 DEF DemotesForItself
    <3>3. Primaries \subseteq Primaries'
      BY <3>2 DEF Primaries, Live
    <3> QED
      BY <3>1, <3>3 DEF FirstStays
  <2> QED
    BY <2>1, <2>2
<1>9. CountedDemoted'
  <2>1. Primaries' \subseteq Primaries \cup {c}
    BY DEF Primaries, Live
  <2>2. ASSUME NEW e \in Creates PROVE c \notin before[e]
    BY <2>2 DEF CountedDemoted, Started, RowAfterCommit
  <2>3. \A r \in Creates : Started(r) => Started(r)'
    BY DEF Started
  <2>4. \A e \in Creates : primary'[e] => primary[e]
    OBVIOUS
  <2> QED
    BY <2>1, <2>2, <2>3, <2>4 DEF CountedDemoted
<1>10. ConflictExplained'
  <2> SUFFICES ASSUME NEW e \in Creates, at'[e] = "conflict"
               PROVE  \/ \E q \in blame[e] : host[q] = host[e]
                      \/ primary'[e] /\ \E q \in blame[e] : q \notin before[e]
    BY DEF ConflictExplained
  <2>1. at[e] = "conflict"
    OBVIOUS
  <2>2. e \notin touched[c]
    BY <2>1 DEF TouchesStarted, Started, RowAfterCommit
  <2> QED
    BY <2>1, <2>2 DEF ConflictExplained
<1> QED
  BY <1>1, <1>2, <1>3, <1>4, <1>5, <1>6, <1>7, <1>8, <1>9, <1>10 DEF IInv

(* A Delete begins with the id of a row that is or was there.              *)
LEMMA BeginDeleteKeeps ==
  ASSUME IInv, NEW d \in Deletes, NEW r \in Creates, BeginDelete(d, r)
  PROVE  IInv'
<1> USE CallsAssumption DEF IInv, TypeOK, Calls, Running, BeginDelete
<1>1. TypeOK'
  OBVIOUS
<1>2. RowAfterCommit'
  BY DEF RowAfterCommit
<1>3. PendingAlone'
  BY DEF PendingAlone, Primaries, Live
<1>4. OnePrimary'
  BY DEF OnePrimary, Primaries, Live
<1>5. TouchesStarted'
  BY DEF TouchesStarted, Started, Live, Primaries
<1>6. DemotesForItself'
  BY DEF DemotesForItself
<1>7. OthersCounted'
  BY DEF OthersCounted, Started, Live
<1>8. FirstStays'
  BY DEF FirstStays, Started, Primaries, Live
<1>9. CountedDemoted'
  BY DEF CountedDemoted, Started, Primaries, Live
<1>10. ConflictExplained'
  BY DEF ConflictExplained
<1> QED
  BY <1>1, <1>2, <1>3, <1>4, <1>5, <1>6, <1>7, <1>8, <1>9, <1>10 DEF IInv

(* The DELETE takes its row or finds none.                                 *)
LEMMA DeleteRowKeeps ==
  ASSUME IInv, NEW d \in Deletes, DeleteRow(d)
  PROVE  IInv'
<1> USE CallsAssumption DEF IInv, TypeOK, Calls, Running, DeleteRow, Rollback, Ends
<1>1. TypeOK'
  OBVIOUS
<1>2. RowAfterCommit'
  BY DEF RowAfterCommit
<1>3. PendingAlone'
  BY DEF PendingAlone, Primaries, Live
<1>4. OnePrimary'
  BY DEF OnePrimary, Primaries, Live
<1>5. TouchesStarted'
  BY DEF TouchesStarted, Started, Live, Primaries
<1>6. DemotesForItself'
  BY DEF DemotesForItself
<1>7. OthersCounted'
  BY DEF OthersCounted, Started, Live
<1>8. FirstStays'
  BY DEF FirstStays, Started, Primaries, Live
<1>9. CountedDemoted'
  BY DEF CountedDemoted, Started, Primaries, Live
<1>10. ConflictExplained'
  BY DEF ConflictExplained
<1> QED
  BY <1>1, <1>2, <1>3, <1>4, <1>5, <1>6, <1>7, <1>8, <1>9, <1>10 DEF IInv

(* The COMMIT of a Delete: its row goes, and a primary one is noted.       *)
LEMMA CommitDeleteKeeps ==
  ASSUME IInv, NEW d \in Deletes, CommitDelete(d)
  PROVE  IInv'
<1> USE CallsAssumption DEF IInv, TypeOK, Calls, Running, CommitDelete, Ends
<1>1. TypeOK'
  OBVIOUS
<1>2. RowAfterCommit'
  BY DEF RowAfterCommit, TouchesStarted, Started
<1>3. PendingAlone'
  BY DEF PendingAlone, Primaries, Live
<1>4. OnePrimary'
  BY DEF OnePrimary, Primaries, Live
<1>5. TouchesStarted'
  BY DEF TouchesStarted, Started, Live, Primaries
<1>6. DemotesForItself'
  BY DEF DemotesForItself
<1>7. OthersCounted'
  BY DEF OthersCounted, Started, Live
<1>8. FirstStays'
  <2>1. CASE \E r \in touched[d] : primary[r]
    BY <2>1 DEF FirstStays
  <2>2. CASE ~\E r \in touched[d] : primary[r]
    <3>1. Primaries' = Primaries
      BY <2>2 DEF Primaries, Live
    <3>2. \A r \in Creates : Started(r)' => Started(r)
      BY DEF TouchesStarted, Started
    <3> QED
      BY <3>1, <3>2 DEF FirstStays
  <2> QED
    BY <2>1, <2>2
<1>9. CountedDemoted'
  BY DEF CountedDemoted, Started, Primaries, Live
<1>10. ConflictExplained'
  BY DEF ConflictExplained
<1> QED
  BY <1>1, <1>2, <1>3, <1>4, <1>5, <1>6, <1>7, <1>8, <1>9, <1>10 DEF IInv

(* A call that fails leaves the committed rows alone.                      *)
LEMMA FailKeeps ==
  ASSUME IInv, NEW t \in Calls, Fail(t)
  PROVE  IInv'
<1> USE CallsAssumption DEF IInv, TypeOK, Calls, Running, Fail, Rollback, Ends
<1>1. TypeOK'
  OBVIOUS
<1>2. RowAfterCommit'
  BY DEF RowAfterCommit
<1>3. PendingAlone'
  BY DEF PendingAlone, Primaries, Live
<1>4. OnePrimary'
  BY DEF OnePrimary, Primaries, Live
<1>5. TouchesStarted'
  BY DEF TouchesStarted, Started, Live, Primaries
<1>6. DemotesForItself'
  BY DEF DemotesForItself
<1>7. OthersCounted'
  BY DEF OthersCounted, Started, Live
<1>8. FirstStays'
  BY DEF FirstStays, Started, Primaries, Live
<1>9. CountedDemoted'
  BY DEF CountedDemoted, Started, Primaries, Live
<1>10. ConflictExplained'
  BY DEF ConflictExplained
<1> QED
  BY <1>1, <1>2, <1>3, <1>4, <1>5, <1>6, <1>7, <1>8, <1>9, <1>10 DEF IInv

----------------------------------------------------------------------------
(* The invariant and the theorems *)

LEMMA InvInit == Init => IInv
<1> SUFFICES ASSUME Init PROVE IInv
  OBVIOUS
<1>1. TypeOK
  BY DEF Init, TypeOK, Calls
<1>2. /\ RowAfterCommit
      /\ PendingAlone
      /\ DemotesForItself
      /\ OthersCounted
      /\ TouchesStarted
  BY CallsAssumption DEF Init, RowAfterCommit, PendingAlone, DemotesForItself, OthersCounted,
     TouchesStarted, Calls, Running
<1>3. /\ Live = {}
      /\ \A r \in Creates : ~Started(r)
  BY DEF Init, Live, Started
<1>4. OnePrimary /\ FirstStays
  BY <1>3 DEF OnePrimary, FirstStays, Primaries
<1>5. CountedDemoted /\ ConflictExplained
  BY DEF Init, CountedDemoted, ConflictExplained, Calls
<1> QED
  BY <1>1, <1>2, <1>4, <1>5 DEF IInv

LEMMA InvStep == IInv /\ [Next]_vars => IInv'
<1> SUFFICES ASSUME IInv, [Next]_vars PROVE IInv'
  OBVIOUS
<1>1. ASSUME NEW c \in Creates, BeginCreate(c) \/ CreateStep(c) PROVE IInv'
  BY <1>1, BeginCreateKeeps, CountKeeps, DemoteFindKeeps, DemoteKeeps,
     InsertHostnameKeeps, InsertPrimaryKeeps, CommitCreateKeeps DEF CreateStep
<1>2. ASSUME NEW d \in Deletes, (\E r \in Creates : BeginDelete(d, r)) \/ DeleteStep(d)
      PROVE  IInv'
  BY <1>2, BeginDeleteKeeps, DeleteRowKeeps, CommitDeleteKeeps DEF DeleteStep
<1>3. ASSUME NEW t \in Calls, Fail(t) \/ BreakDeadlock(t) PROVE IInv'
  BY <1>3, FailKeeps DEF BreakDeadlock
<1>4. CASE UNCHANGED vars
  BY <1>4 DEF IInv, TypeOK, RowAfterCommit, PendingAlone, OnePrimary, TouchesStarted,
     DemotesForItself, OthersCounted, FirstStays, CountedDemoted, ConflictExplained,
     Started, Primaries, Live, vars
<1> QED
  BY <1>1, <1>2, <1>3, <1>4 DEF Next, Calls

LEMMA Invariant == Spec => []IInv
BY InvInit, InvStep, PTL DEF Spec

(* Every variable keeps its type, and a call that has answered holds no row. *)
THEOREM TypeCorrect == Spec => []TypeOK
<1>1. IInv => TypeOK
  BY DEF IInv
<1> QED
  BY <1>1, Invariant, PTL

(* However many Creates and Deletes overlap, a site never has two primaries  *)
(* (0001_init.up.sql:79): whoever is past the index demotes whatever is      *)
(* primary, and is the only one there.                                       *)
THEOREM AtMostOnePrimary == Spec => []OnePrimary
<1>1. IInv => OnePrimary
  BY DEF IInv
<1> QED
  BY <1>1, Invariant, PTL

(* A site with domains has a primary one until the primary itself is deleted:*)
(* a Create that demotes puts its own domain in the place, in the same       *)
(* COMMIT or not at all.                                                     *)
THEOREM PrimaryStays == Spec => []PrimaryRemains
<1>1. IInv => PrimaryRemains
  BY DEF IInv, FirstStays, PrimaryRemains, Live, Started
<1> QED
  BY <1>1, Invariant, PTL

(* Create answers ErrConflict only for a hostname that is taken or, when it   *)
(* is for the primary, because of a domain committed after it counted.       *)
THEOREM ConflictHasCause == Spec => []ConflictExplained
<1>1. IInv => ConflictExplained
  BY DEF IInv
<1> QED
  BY <1>1, Invariant, PTL

----------------------------------------------------------------------------
(* Migrate *)

(* A version is recorded although its file was never run, and not because the *)
(* database is of an older release.                                          *)
Bad == \E f \in recorded : f \notin schema \cup assumed

(* How far a run has come, and what an empty schema_migrations leaves open.   *)
Progress ==
  /\ step = "look" => file = 1
  /\ step = "backfill" => 1 \in schema /\ recorded = 1 .. (file - 1)
  /\ step \in {"check", "apply", "record"} => 1 .. (file - 1) \subseteq recorded
  /\ step \in {"check", "apply"} /\ recorded = {} => 1 \notin schema
  /\ step = "apply" => file \notin recorded
  /\ step = "record" => file \in schema
  /\ step = "passwords" => 1 .. disk \subseteq recorded
  /\ step = "done" => 1 \in recorded
  /\ 1 .. api \subseteq recorded
  /\ 1 \notin assumed
  /\ recorded = {} \/ step = "backfill" =>
       1 .. disk \subseteq schema \cup assumed \/ (assumed = {} /\ schema \in {{}, {1}})

(* The roles come with their file, and the server only with the roles.        *)
RolesInv ==
  /\ RoleFile \in schema => roles
  /\ roles /\ ~infra => RoleFile \in schema
  /\ api > 0 => roles

(* Until a run meets a torn database, a file is applied when it is recorded,  *)
(* but for the one that the script is at and those of an old database.       *)
CleanInv ==
  ~torn =>
    /\ step = "look" => Clean
    /\ step = "backfill" => schema = 1 .. disk
    /\ step \in {"check", "apply", "passwords"} => recorded = schema
    /\ step = "record" => schema = recorded \cup {file} /\ file \notin recorded

(* Versions recorded in vain, which is after a backfill of a database with    *)
(* its first file alone: one of them is in the way of the roles.             *)
BadInv ==
  Bad =>
    /\ torn
    /\ ~infra => ~roles /\ \E f \in recorded \ schema : f <= RoleFile

MInv == MigrateTypeOK /\ Progress /\ RolesInv /\ CleanInv /\ BadInv /\ AgainOnlyTorn

LEMMA MigrateStart == MigrateInit => MInv
<1> SUFFICES ASSUME MigrateInit PROVE MInv
  OBVIOUS
<1> USE FileAssumption DEF MigrateInit, Stopped, AllFiles
<1>1. MigrateTypeOK
  <2>1. infra \in BOOLEAN /\ roles \in BOOLEAN /\ torn \in BOOLEAN
    OBVIOUS
  <2>2. disk \in RoleFile .. FileCount /\ file \in 1 .. disk /\ api \in 0 .. disk /\ runs \in Nat
    OBVIOUS
  <2>3. schema \subseteq AllFiles /\ recorded \subseteq AllFiles
    OBVIOUS
  <2>4. QED
    BY <2>1, <2>2, <2>3 DEF MigrateTypeOK
<1>2. Progress
  BY DEF Progress
<1>3. RolesInv
  <2>1. roles <=> infra \/ RoleFile \in schema
    BY Zenon
  <2>2. api = 0
    OBVIOUS
  <2>3. QED
    BY <2>1, <2>2 DEF RolesInv
<1>4. CleanInv
  BY DEF CleanInv, Clean
<1>5. BadInv
  BY DEF BadInv, Bad
<1>6. AgainOnlyTorn
  BY DEF AgainOnlyTorn
<1> QED
  BY <1>1, <1>2, <1>3, <1>4, <1>5, <1>6 DEF MInv

LEMMA UpKeeps == MInv /\ Up => MInv'
<1> SUFFICES ASSUME MInv, Up PROVE MInv'
  OBVIOUS
<1> USE FileAssumption DEF Up, MInv, MigrateTypeOK, Stopped, AllFiles
<1>1. MigrateTypeOK'
  BY DEF Progress
<1>2. Progress'
  BY DEF Progress, CleanInv
<1>3. RolesInv'
  BY DEF RolesInv
<1>4. CleanInv'
  BY DEF CleanInv, Clean, Progress
<1>5. BadInv'
  BY DEF BadInv, Bad, Progress, CleanInv, Clean, RolesInv
<1>6. AgainOnlyTorn'
  BY DEF AgainOnlyTorn, CleanInv, Progress, RolesInv
<1> QED
  BY <1>1, <1>2, <1>3, <1>4, <1>5, <1>6

LEMMA LookKeeps == MInv /\ Look => MInv'
<1> SUFFICES ASSUME MInv, Look PROVE MInv'
  OBVIOUS
<1> USE FileAssumption DEF Look, MInv, MigrateTypeOK, Stopped, AllFiles
<1>1. MigrateTypeOK'
  BY DEF Progress
<1>2. Progress'
  BY DEF Progress, CleanInv
<1>3. RolesInv'
  BY DEF RolesInv
<1>4. CleanInv'
  BY DEF CleanInv, Clean, Progress
<1>5. BadInv'
  BY DEF BadInv, Bad, Progress, CleanInv, Clean, RolesInv
<1>6. AgainOnlyTorn'
  BY DEF AgainOnlyTorn, CleanInv, Progress, RolesInv
<1> QED
  BY <1>1, <1>2, <1>3, <1>4, <1>5, <1>6

LEMMA BackfillKeeps == MInv /\ Backfill => MInv'
<1> SUFFICES ASSUME MInv, Backfill PROVE MInv'
  OBVIOUS
<1> USE FileAssumption DEF Backfill, MInv, MigrateTypeOK, Stopped, AllFiles
<1>1. MigrateTypeOK'
  BY DEF Progress
<1>2. Progress'
  BY DEF Progress, CleanInv
<1>3. RolesInv'
  BY DEF RolesInv
<1>4. CleanInv'
  BY DEF CleanInv, Clean, Progress
<1>5. BadInv'
  BY DEF BadInv, Bad, Progress, CleanInv, Clean, RolesInv
<1>6. AgainOnlyTorn'
  BY DEF AgainOnlyTorn, CleanInv, Progress, RolesInv
<1> QED
  BY <1>1, <1>2, <1>3, <1>4, <1>5, <1>6

LEMMA CheckKeeps == MInv /\ Check => MInv'
<1> SUFFICES ASSUME MInv, Check PROVE MInv'
  OBVIOUS
<1> USE FileAssumption DEF Check, NextFile, MInv, MigrateTypeOK, Stopped, AllFiles
<1>1. MigrateTypeOK'
  BY DEF Progress
<1>2. Progress'
  BY DEF Progress, CleanInv
<1>3. RolesInv'
  BY DEF RolesInv
<1>4. CleanInv'
  BY DEF CleanInv, Clean, Progress
<1>5. BadInv'
  BY DEF BadInv, Bad, Progress, CleanInv, Clean, RolesInv
<1>6. AgainOnlyTorn'
  BY DEF AgainOnlyTorn, CleanInv, Progress, RolesInv
<1> QED
  BY <1>1, <1>2, <1>3, <1>4, <1>5, <1>6

LEMMA ApplyKeeps == MInv /\ Apply => MInv'
<1> SUFFICES ASSUME MInv, Apply PROVE MInv'
  OBVIOUS
<1> USE FileAssumption DEF Apply, Runnable, MInv, MigrateTypeOK, Stopped, AllFiles
<1>1. MigrateTypeOK'
  BY DEF Progress
<1>2. Progress'
  <2>1. ASSUME recorded = {} PROVE schema' = {1}
    <3>1. file = 1
      BY <2>1 DEF Progress
    <3>2. schema = {}
      BY <2>1 DEF Progress
    <3>3. QED
      BY <3>1, <3>2
  <2>2. QED
    BY <2>1 DEF Progress
<1>3. RolesInv'
  BY DEF RolesInv
<1>4. CleanInv'
  BY DEF CleanInv, Clean, Progress
<1>5. BadInv'
  <2>1. SUFFICES ASSUME Bad'
                 PROVE  torn /\ (~infra => ~roles' /\ \E f \in recorded \ schema' : f <= RoleFile)
    BY DEF BadInv
  <2>2. Bad
    BY <2>1 DEF Bad
  <2>3. ASSUME ~infra PROVE ~roles' /\ \E f \in recorded \ schema' : f <= RoleFile
    <3>1. PICK f \in recorded \ schema : f <= RoleFile
      BY <2>2, <2>3 DEF BadInv
    <3>2. file \notin recorded
      BY DEF Progress
    <3>3. file # RoleFile
      BY <3>1, <3>2, RoleAssumption
    <3>4. QED
      BY <2>2, <2>3, <3>1, <3>2, <3>3 DEF BadInv
  <2>4. QED
    BY <2>2, <2>3 DEF BadInv
<1>6. AgainOnlyTorn'
  BY DEF AgainOnlyTorn, CleanInv, Progress, RolesInv
<1> QED
  BY <1>1, <1>2, <1>3, <1>4, <1>5, <1>6

LEMMA ApplyFailsKeeps == MInv /\ ApplyFails => MInv'
<1> SUFFICES ASSUME MInv, ApplyFails PROVE MInv'
  OBVIOUS
<1> USE FileAssumption DEF ApplyFails, Runnable, MInv, MigrateTypeOK, Stopped, AllFiles
<1>1. MigrateTypeOK'
  BY DEF Progress
<1>2. Progress'
  BY DEF Progress, CleanInv
<1>3. RolesInv'
  BY DEF RolesInv
<1>4. CleanInv'
  BY DEF CleanInv, Clean, Progress
<1>5. BadInv'
  BY DEF BadInv, Bad, Progress, CleanInv, Clean, RolesInv
<1>6. AgainOnlyTorn'
  BY DEF AgainOnlyTorn, CleanInv, Progress, RolesInv
<1> QED
  BY <1>1, <1>2, <1>3, <1>4, <1>5, <1>6

LEMMA RecordKeeps == MInv /\ Record => MInv'
<1> SUFFICES ASSUME MInv, Record PROVE MInv'
  OBVIOUS
<1> USE FileAssumption DEF Record, NextFile, MInv, MigrateTypeOK, Stopped, AllFiles
<1>1. MigrateTypeOK'
  BY DEF Progress
<1>2. Progress'
  BY DEF Progress, CleanInv
<1>3. RolesInv'
  BY DEF RolesInv
<1>4. CleanInv'
  BY DEF CleanInv, Clean, Progress
<1>5. BadInv'
  BY DEF BadInv, Bad, Progress, CleanInv, Clean, RolesInv
<1>6. AgainOnlyTorn'
  BY DEF AgainOnlyTorn, CleanInv, Progress, RolesInv
<1> QED
  BY <1>1, <1>2, <1>3, <1>4, <1>5, <1>6

LEMMA PasswordsKeeps == MInv /\ Passwords => MInv'
<1> SUFFICES ASSUME MInv, Passwords PROVE MInv'
  OBVIOUS
<1> USE FileAssumption DEF Passwords, MInv, MigrateTypeOK, Stopped, AllFiles
<1>1. MigrateTypeOK'
  BY DEF Progress
<1>2. Progress'
  BY DEF Progress, CleanInv
<1>3. RolesInv'
  BY DEF RolesInv
<1>4. CleanInv'
  BY DEF CleanInv, Clean, Progress
<1>5. BadInv'
  BY DEF BadInv, Bad, Progress, CleanInv, Clean, RolesInv
<1>6. AgainOnlyTorn'
  BY DEF AgainOnlyTorn, CleanInv, Progress, RolesInv
<1> QED
  BY <1>1, <1>2, <1>3, <1>4, <1>5, <1>6

LEMMA InterruptKeeps == MInv /\ Interrupt => MInv'
<1> SUFFICES ASSUME MInv, Interrupt PROVE MInv'
  OBVIOUS
<1> USE FileAssumption DEF Interrupt, MInv, MigrateTypeOK, Stopped, AllFiles
<1>1. MigrateTypeOK'
  BY DEF Progress
<1>2. Progress'
  BY DEF Progress, CleanInv
<1>3. RolesInv'
  BY DEF RolesInv
<1>4. CleanInv'
  BY DEF CleanInv, Clean, Progress
<1>5. BadInv'
  BY DEF BadInv, Bad, Progress, CleanInv, Clean, RolesInv
<1>6. AgainOnlyTorn'
  BY DEF AgainOnlyTorn, CleanInv, Progress, RolesInv
<1> QED
  BY <1>1, <1>2, <1>3, <1>4, <1>5, <1>6

LEMMA DownKeeps == MInv /\ Down => MInv'
<1> SUFFICES ASSUME MInv, Down PROVE MInv'
  OBVIOUS
<1> USE FileAssumption DEF Down, MInv, MigrateTypeOK, Stopped, AllFiles
<1>1. MigrateTypeOK'
  BY DEF Progress
<1>2. Progress'
  BY DEF Progress, CleanInv
<1>3. RolesInv'
  BY DEF RolesInv
<1>4. CleanInv'
  BY DEF CleanInv, Clean, Progress
<1>5. BadInv'
  BY DEF BadInv, Bad, Progress, CleanInv, Clean, RolesInv
<1>6. AgainOnlyTorn'
  BY DEF AgainOnlyTorn, CleanInv, Progress, RolesInv
<1> QED
  BY <1>1, <1>2, <1>3, <1>4, <1>5, <1>6

LEMMA UpgradeKeeps == MInv /\ Upgrade => MInv'
<1> SUFFICES ASSUME MInv, Upgrade PROVE MInv'
  OBVIOUS
<1> USE FileAssumption DEF Upgrade, MInv, MigrateTypeOK, Stopped, AllFiles
<1>1. MigrateTypeOK'
  BY DEF Progress
<1>2. Progress'
  BY DEF Progress, CleanInv
<1>3. RolesInv'
  BY DEF RolesInv
<1>4. CleanInv'
  BY DEF CleanInv, Clean, Progress
<1>5. BadInv'
  BY DEF BadInv, Bad, Progress, CleanInv, Clean, RolesInv
<1>6. AgainOnlyTorn'
  BY DEF AgainOnlyTorn, CleanInv, Progress, RolesInv
<1> QED
  BY <1>1, <1>2, <1>3, <1>4, <1>5, <1>6

LEMMA MigrateStep == MInv /\ [MigrateNext]_migrateVars => MInv'
<1>1. ASSUME MInv, MigrateNext PROVE MInv'
  BY <1>1, UpKeeps, LookKeeps, BackfillKeeps, CheckKeeps, ApplyKeeps, ApplyFailsKeeps,
     RecordKeeps, PasswordsKeeps, InterruptKeeps, DownKeeps, UpgradeKeeps DEF MigrateNext
<1>2. ASSUME MInv, UNCHANGED migrateVars PROVE MInv'
  BY <1>2 DEF migrateVars, MInv, MigrateTypeOK, Progress, RolesInv, CleanInv, Clean, BadInv, Bad,
     AgainOnlyTorn
<1>3. QED
  BY <1>1, <1>2

----------------------------------------------------------------------------
(* The control plane *)

LEMMA PlaneStep == [PlaneNext]_planeVars => [Next]_vars /\ [MigrateNext]_migrateVars
BY DEF PlaneNext, Deploy, Serve, planeVars

LEMMA PlaneInvariant == PlaneSpec => [](IInv /\ MInv)
<1>1. PlaneInit => IInv /\ MInv
  BY InvInit, MigrateStart DEF PlaneInit
<1>2. (IInv /\ MInv) /\ [PlaneNext]_planeVars => (IInv /\ MInv)'
  BY InvStep, MigrateStep, PlaneStep
<1>3. QED
  BY <1>1, <1>2, PTL DEF PlaneSpec

(* Wherever the script is stopped, and however often it is run again, the     *)
(* server that starts finds all the files of its release applied, unless the *)
(* roles had been provisioned before and a run was torn, or but for those    *)
(* that an untracked database of an older release had not been given.        *)
THEOREM StartsWholeCorrect == PlaneSpec => []StartsWhole
<1>1. MInv => StartsWhole
  <2> SUFFICES ASSUME MInv, ~(infra /\ torn) PROVE 1 .. api \subseteq schema \cup assumed
    BY DEF StartsWhole
  <2>1. CASE Bad
    <3>1. ~roles
      BY <2>1 DEF MInv, BadInv
    <3>2. api = 0
      BY <3>1 DEF MInv, RolesInv, MigrateTypeOK
    <3>3. QED
      BY <3>2
  <2>2. CASE ~Bad
    BY <2>2 DEF Bad, MInv, Progress
  <2>3. QED
    BY <2>1, <2>2
<1>2. QED
  BY <1>1, PlaneInvariant, PTL

(* No file is run again and no run fails, but after a torn one or on an       *)
(* untracked database of an older release.                                   *)
THEOREM AgainCorrect == PlaneSpec => []AgainOnlyTorn
<1>1. MInv => AgainOnlyTorn
  BY DEF MInv
<1>2. QED
  BY <1>1, PlaneInvariant, PTL

(* What is proved of Domains holds of the deployed server: the composition    *)
(* takes no step that Domains does not.                                      *)
THEOREM PlaneKeepsDomains ==
  PlaneSpec => [](OnePrimary /\ PrimaryRemains /\ ConflictExplained)
<1>1. IInv => OnePrimary /\ PrimaryRemains /\ ConflictExplained
  BY DEF IInv, FirstStays, PrimaryRemains, Live, Started
<1>2. QED
  BY <1>1, PlaneInvariant, PTL
----------------------------------------------------------------------------
(* The locks and the index of the hostnames *)

(* A row that a call has changed is its own, and there.                      *)
Exclusive == \A t, u \in Calls : t # u => touched[t] \cap touched[u] = {}

HeldLive == \A t \in Calls : touched[t] \subseteq Live

(* No two domains, nor a domain and a call past the index, share a hostname. *)
HostAlone ==
  /\ \A r, s \in Live : host[r] = host[s] => r = s
  /\ \A c \in Creates : at[c] \in {"index", "commit"} =>
       \A r \in SameHost(c) : r \notin Live /\ at[r] \notin {"index", "commit"}

(* A Delete is about one row, the one it was asked for.                      *)
DeletesOne ==
  \A d \in Deletes :
    /\ at[d] = "idle" => target[d] = {}
    /\ at[d] \in {"delete", "commit"} => \E r \in Creates : target[d] = {r}
    /\ at[d] = "commit" => touched[d] = target[d]

LockInv ==
  /\ Exclusive
  /\ HeldLive
  /\ HostAlone
  /\ DeletesOne

LEMMA LocksInit == Init => LockInv
<1> SUFFICES ASSUME Init PROVE LockInv OBVIOUS
<1>1. /\ Live = {} /\ (\A d \in Deletes : target[d] = {})
      /\ \A t \in Calls : touched[t] = {} /\ at[t] = "idle"
  BY DEF Init, Live
<1>2. QED BY <1>1 DEF LockInv, Exclusive, HeldLive, HostAlone, DeletesOne, Calls

LEMMA BeginCreateLocks ==
  ASSUME IInv, LockInv, NEW c \in Creates, BeginCreate(c)
  PROVE  LockInv'
<1> USE CallsAssumption DEF IInv, TypeOK, Calls, LockInv, BeginCreate
<1>1. Exclusive' BY DEF Exclusive
<1>2. HeldLive' BY DEF HeldLive, Live
<1>3. HostAlone' BY DEF HostAlone, SameHost, Live
<1>4. DeletesOne' BY DEF DeletesOne
<1>5. QED BY <1>1, <1>2, <1>3, <1>4

LEMMA CountLocks ==
  ASSUME IInv, LockInv, NEW c \in Creates, Count(c)
  PROVE  LockInv'
<1> USE CallsAssumption DEF IInv, TypeOK, Calls, LockInv, Count
<1>1. Exclusive' BY DEF Exclusive
<1>2. HeldLive' BY DEF HeldLive, Live
<1>3. HostAlone' BY DEF HostAlone, SameHost, Live
<1>4. DeletesOne' BY DEF DeletesOne
<1>5. QED BY <1>1, <1>2, <1>3, <1>4

LEMMA DemoteFindLocks ==
  ASSUME IInv, LockInv, NEW c \in Creates, DemoteFind(c)
  PROVE  LockInv'
<1> USE CallsAssumption DEF IInv, TypeOK, Calls, LockInv, DemoteFind
<1>1. Exclusive' BY DEF Exclusive
<1>2. HeldLive' BY DEF HeldLive, Live
<1>3. HostAlone' BY DEF HostAlone, SameHost, Live
<1>4. DeletesOne' BY DEF DeletesOne
<1>5. QED BY <1>1, <1>2, <1>3, <1>4

LEMMA DemoteLocks ==
  ASSUME IInv, LockInv, NEW c \in Creates, Demote(c)
  PROVE  LockInv'
<1> USE CallsAssumption DEF IInv, TypeOK, Calls, LockInv, Demote
<1>1. Exclusive'
  <2>1. \A u \in Calls \ {c} : touched[u] \cap seen[c] = {} BY DEF WaitsFor, Holders
  <2>2. touched'[c] \subseteq seen[c] /\ \A u \in Calls \ {c} : touched'[u] = touched[u]
    OBVIOUS
  <2>3. QED BY <2>1, <2>2 DEF Exclusive
<1>2. HeldLive' BY DEF HeldLive, Live, Primaries
<1>3. HostAlone' BY DEF HostAlone, SameHost, Live
<1>4. DeletesOne' BY DEF DeletesOne
<1>5. QED BY <1>1, <1>2, <1>3, <1>4

LEMMA InsertHostnameLocks ==
  ASSUME IInv, LockInv, NEW c \in Creates, InsertHostname(c)
  PROVE  LockInv'
<1> USE CallsAssumption DEF IInv, TypeOK, Calls, LockInv, InsertHostname, Passes, Conflict,
        Rollback, Ends
<1>1. Exclusive' BY DEF Exclusive
<1>2. HeldLive' BY DEF HeldLive, Live
<1>3. HostAlone'
  <2>1. \A u \in SameHost(c) : at[u] \notin {"index", "commit"} BY DEF WaitsFor, SameHost
  <2>2. CASE SameHost(c) \cap Live = {} BY <2>1, <2>2 DEF HostAlone, SameHost, Live
  <2>3. CASE SameHost(c) \cap Live # {} BY <2>3 DEF HostAlone, SameHost, Live
  <2>4. QED BY <2>2, <2>3
<1>4. DeletesOne' BY DEF DeletesOne
<1>5. QED BY <1>1, <1>2, <1>3, <1>4

LEMMA InsertPrimaryLocks ==
  ASSUME IInv, LockInv, NEW c \in Creates, InsertPrimary(c)
  PROVE  LockInv'
<1> USE CallsAssumption DEF IInv, TypeOK, Calls, LockInv, InsertPrimary, Passes, Conflict,
        Rollback, Ends
<1>1. Exclusive' BY DEF Exclusive
<1>2. HeldLive' BY DEF HeldLive, Live
<1>3. HostAlone' BY DEF HostAlone, SameHost, Live
<1>4. DeletesOne' BY DEF DeletesOne
<1>5. QED BY <1>1, <1>2, <1>3, <1>4

LEMMA CommitCreateLocks ==
  ASSUME IInv, LockInv, NEW c \in Creates, CommitCreate(c)
  PROVE  LockInv'
<1> USE CallsAssumption DEF IInv, TypeOK, Calls, LockInv, CommitCreate, Ends
<1>1. Exclusive' BY DEF Exclusive
<1>2. Live' = Live \cup {c} BY DEF Live
<1>3. HeldLive' BY <1>2 DEF HeldLive
<1>4. HostAlone'
  <2>1. \A r \in SameHost(c) : r \notin Live /\ at[r] \notin {"index", "commit"}
    BY DEF HostAlone
  <2>2. \A r, s \in Live' : host'[r] = host'[s] => r = s
    BY <1>2, <2>1 DEF HostAlone, SameHost, Live
  <2>3. ASSUME NEW e \in Creates, at'[e] \in {"index", "commit"}, NEW r \in SameHost(e)'
        PROVE  r \notin Live' /\ at'[r] \notin {"index", "commit"}
    <3>1. e # c /\ at[e] \in {"index", "commit"} /\ r \in SameHost(e) BY <2>3 DEF SameHost
    <3>2. r \notin Live /\ at[r] \notin {"index", "commit"} BY <3>1 DEF HostAlone
    <3>3. r # c BY <3>2
    <3>4. QED BY <1>2, <3>2, <3>3
  <2>4. QED BY <2>2, <2>3 DEF HostAlone
<1>5. DeletesOne' BY DEF DeletesOne
<1>6. QED BY <1>1, <1>3, <1>4, <1>5

LEMMA BeginDeleteLocks ==
  ASSUME IInv, LockInv, NEW d \in Deletes, NEW r \in Creates, BeginDelete(d, r)
  PROVE  LockInv'
<1> USE CallsAssumption DEF IInv, TypeOK, Calls, LockInv, BeginDelete
<1>1. Exclusive' BY DEF Exclusive
<1>2. HeldLive' BY DEF HeldLive, Live
<1>3. HostAlone' BY DEF HostAlone, SameHost, Live
<1>4. DeletesOne' BY DEF DeletesOne
<1>5. QED BY <1>1, <1>2, <1>3, <1>4

LEMMA DeleteRowLocks ==
  ASSUME IInv, LockInv, NEW d \in Deletes, DeleteRow(d)
  PROVE  LockInv'
<1> USE CallsAssumption DEF IInv, TypeOK, Calls, LockInv, DeleteRow, Rollback, Ends
<1>1. CASE /\ target[d] \subseteq Live
           /\ at' = [at EXCEPT ![d] = "commit"]
           /\ touched' = [touched EXCEPT ![d] = target[d]]
  <2>1. \A u \in Calls \ {d} : touched[u] \cap target[d] = {} BY DEF WaitsFor, Holders
  <2>2. Exclusive' BY <1>1, <2>1 DEF Exclusive
  <2>3. HeldLive' BY <1>1 DEF HeldLive, Live
  <2>4. HostAlone' BY <1>1 DEF HostAlone, SameHost, Live
  <2>5. DeletesOne' BY <1>1 DEF DeletesOne
  <2>6. QED BY <2>2, <2>3, <2>4, <2>5
<1>2. CASE ~(target[d] \subseteq Live) /\ Rollback(d, "notFound")
  <2>1. Exclusive' BY <1>2 DEF Exclusive
  <2>2. HeldLive' BY <1>2 DEF HeldLive, Live
  <2>3. HostAlone' BY <1>2 DEF HostAlone, SameHost, Live
  <2>4. DeletesOne' BY <1>2 DEF DeletesOne
  <2>5. QED BY <2>1, <2>2, <2>3, <2>4
<1>3. QED BY <1>1, <1>2

LEMMA CommitDeleteLocks ==
  ASSUME IInv, LockInv, NEW d \in Deletes, CommitDelete(d)
  PROVE  LockInv'
<1> USE CallsAssumption DEF IInv, TypeOK, Calls, LockInv, CommitDelete, Ends
<1>1. Exclusive' BY DEF Exclusive
<1>2. Live' = Live \ touched[d] BY DEF Live
<1>3. HeldLive'
  <2>1. ASSUME NEW t \in Calls PROVE touched'[t] \subseteq Live'
    <3>1. CASE t = d BY <3>1
    <3>2. CASE t # d BY <1>2, <3>2 DEF Exclusive, HeldLive
    <3>3. QED BY <3>1, <3>2
  <2>2. QED BY <2>1 DEF HeldLive
<1>4. HostAlone' BY <1>2 DEF HostAlone, SameHost
<1>5. DeletesOne' BY DEF DeletesOne
<1>6. QED BY <1>1, <1>3, <1>4, <1>5

LEMMA FailLocks ==
  ASSUME IInv, LockInv, NEW t \in Calls, Fail(t)
  PROVE  LockInv'
<1> USE CallsAssumption DEF IInv, TypeOK, Calls, LockInv, Fail, Rollback, Ends
<1>1. Exclusive' BY DEF Exclusive
<1>2. HeldLive' BY DEF HeldLive, Live
<1>3. HostAlone' BY DEF HostAlone, SameHost, Live
<1>4. DeletesOne' BY DEF DeletesOne
<1>5. QED BY <1>1, <1>2, <1>3, <1>4

LEMMA LocksStep == IInv /\ LockInv /\ [Next]_vars => LockInv'
<1> SUFFICES ASSUME IInv, LockInv, [Next]_vars PROVE LockInv' OBVIOUS
<1>1. ASSUME NEW c \in Creates, BeginCreate(c) \/ CreateStep(c) PROVE LockInv'
  BY <1>1, BeginCreateLocks, CountLocks, DemoteFindLocks, DemoteLocks,
     InsertHostnameLocks, InsertPrimaryLocks, CommitCreateLocks DEF CreateStep
<1>2. ASSUME NEW d \in Deletes, (\E r \in Creates : BeginDelete(d, r)) \/ DeleteStep(d)
      PROVE  LockInv'
  BY <1>2, BeginDeleteLocks, DeleteRowLocks, CommitDeleteLocks DEF DeleteStep
<1>3. ASSUME NEW t \in Calls, Fail(t) \/ BreakDeadlock(t) PROVE LockInv'
  BY <1>3, FailLocks DEF BreakDeadlock
<1>4. CASE UNCHANGED vars
  BY <1>4 DEF LockInv, Exclusive, HeldLive, HostAlone, DeletesOne, SameHost, Live, vars
<1>5. QED BY <1>1, <1>2, <1>3, <1>4 DEF Next, Calls

----------------------------------------------------------------------------
(* DomainsContract: every call takes effect in one step *)

(* A step of a call that goes on.                                            *)
LEMMA GoesOn ==
  ASSUME TypeOK, NEW t \in Calls, NEW place \in Running,
         at[t] \in Running \cup {"idle"}, at' = [at EXCEPT ![t] = place]
  PROVE  answerOf' = answerOf
BY DEF TypeOK, answerOf

(* A step with which a call ends.                                            *)
LEMMA Told ==
  ASSUME TypeOK, NEW t \in Calls, NEW a, a \notin Running \cup {"idle"},
         at[t] \in Running, at' = [at EXCEPT ![t] = a]
  PROVE  answerOf[t] = "none" /\ answerOf' = [answerOf EXCEPT ![t] = a]
<1>1. answerOf[t] = "none" BY DEF answerOf
<1>2. \A u \in Calls : at'[u] = IF u = t THEN a ELSE at[u] BY DEF TypeOK
<1>3. answerOf' = [u \in Calls |-> IF u = t THEN a ELSE answerOf[u]] BY <1>2 DEF answerOf
<1>4. answerOf = [u \in Calls |-> answerOf[u]] BY DEF answerOf
<1>5. QED BY <1>1, <1>3, <1>4

LEMMA ContractStart == Init => Contract!Init
<1> SUFFICES ASSUME Init PROVE Contract!Init OBVIOUS
<1>1. Live = {} /\ Primaries = {} BY DEF Init, Live, Primaries
<1>2. answerOf = [t \in Creates \cup Deletes |-> "none"] BY DEF Init, answerOf, Calls
<1>3. QED BY <1>1, <1>2 DEF Init, Contract!Init

(* The steps before the COMMIT show nothing to anyone.                       *)
LEMMA CreateHidden ==
  ASSUME IInv, NEW c \in Creates,
         BeginCreate(c) \/ Count(c) \/ DemoteFind(c) \/ Demote(c)
  PROVE  UNCHANGED Contract!domainVars
<1> USE DEF IInv, TypeOK, Calls
<1>1. Live' = Live /\ UNCHANGED <<host, target, orphaned>>
  BY DEF BeginCreate, Count, DemoteFind, Demote, Live
<1>2. Primaries' = Primaries
  <2>1. CASE Count(c)
    <3>1. c \notin Live BY <2>1 DEF Count, RowAfterCommit, Running, Live
    <3>2. \A r \in Creates \ {c} : primary'[r] = primary[r] BY <2>1 DEF Count
    <3>3. QED BY <1>1, <3>1, <3>2 DEF Primaries, Live
  <2>2. CASE BeginCreate(c) \/ DemoteFind(c) \/ Demote(c)
    BY <1>1, <2>2 DEF Primaries, BeginCreate, DemoteFind, Demote
  <2>3. QED BY <2>1, <2>2
<1>3. answerOf' = answerOf
  <2>1. PICK place \in Running :
          at[c] \in Running \cup {"idle"} /\ at' = [at EXCEPT ![c] = place]
    BY DEF BeginCreate, Count, DemoteFind, Demote, Running
  <2>2. QED BY <2>1, GoesOn
<1>4. QED BY <1>1, <1>2, <1>3 DEF Contract!domainVars

LEMMA InsertRefines ==
  ASSUME IInv, NEW c \in Creates, InsertHostname(c) \/ InsertPrimary(c)
  PROVE  Contract!Conflict(c) \/ UNCHANGED Contract!domainVars
<1> USE DEF IInv, TypeOK, Calls
<1>1. /\ Live' = Live /\ Primaries' = Primaries /\ UNCHANGED <<host, target, orphaned>>
      /\ at[c] \in Running
  BY DEF InsertHostname, InsertPrimary, Passes, Conflict, Live, Primaries, Running
<1>2. ASSUME NEW place \in Running, Passes(c, place) PROVE UNCHANGED Contract!domainVars
  <2>1. answerOf' = answerOf BY <1>1, <1>2, GoesOn DEF Passes
  <2>2. QED BY <1>1, <2>1 DEF Contract!domainVars
<1>3. ASSUME NEW rows, Conflict(c, rows), \E r \in Live : host[r] = host[c] \/ r \in Primaries
      PROVE  Contract!Conflict(c)
  <2>1. answerOf[c] = "none" /\ answerOf' = [answerOf EXCEPT ![c] = "conflict"]
    BY <1>1, <1>3, Told DEF Conflict, Rollback, Ends, Running
  <2>2. QED BY <1>1, <1>3, <2>1 DEF Contract!Conflict, Contract!Answers
<1>4. CASE InsertHostname(c)
  <2>1. CASE SameHost(c) \cap Live = {}
    <3>1. PICK place \in {"index", "commit"} : Passes(c, place) BY <1>4, <2>1 DEF InsertHostname
    <3>2. QED BY <1>2, <3>1 DEF Running
  <2>2. CASE SameHost(c) \cap Live # {}
    <3>1. Conflict(c, SameHost(c) \cap Live) BY <1>4, <2>2 DEF InsertHostname
    <3>2. \E r \in Live : host[r] = host[c] BY <2>2 DEF SameHost
    <3>3. QED BY <1>3, <3>1, <3>2
  <2>3. QED BY <2>1, <2>2
<1>5. CASE InsertPrimary(c)
  <2>1. CASE Primaries \ touched[c] = {}
    <3>1. Passes(c, "commit") BY <1>5, <2>1 DEF InsertPrimary
    <3>2. QED BY <1>2, <3>1 DEF Running
  <2>2. CASE Primaries \ touched[c] # {}
    <3>1. Conflict(c, Primaries \ touched[c]) BY <1>5, <2>2 DEF InsertPrimary
    <3>2. \E r \in Live : r \in Primaries BY <2>2 DEF Primaries
    <3>3. QED BY <1>3, <3>1, <3>2
  <2>3. QED BY <2>1, <2>2
<1>6. QED BY <1>4, <1>5

(* The COMMIT of a Create adds its domain, alone of its hostname; one that is *)
(* primary has demoted all there are, and one that is not demotes none.      *)
LEMMA CommitCreateRefines ==
  ASSUME IInv, LockInv, NEW c \in Creates, CommitCreate(c)
  PROVE  Contract!Add(c, primary[c])
<1> USE DEF IInv, TypeOK, Calls
<1>1. Live' = Live \cup {c} BY DEF CommitCreate, Live
<1>2. at[c] = "commit" /\ c \notin Live BY DEF CommitCreate, RowAfterCommit, Running, Live
<1>3. \A r \in Creates : primary'[r] = (primary[r] /\ r \notin touched[c])
  BY DEF CommitCreate
<1>4. c \notin touched[c] BY <1>2 DEF LockInv, HeldLive
<1>5. Primaries' = IF primary[c] THEN {c} ELSE Primaries
  <2>1. CASE primary[c]
    <3>1. Primaries \subseteq touched[c] BY <1>2, <2>1 DEF PendingAlone
    <3>2. QED BY <1>1, <1>3, <1>4, <2>1, <3>1 DEF Primaries, Live
  <2>2. CASE ~primary[c]
    <3>1. touched[c] = {} BY <2>2 DEF DemotesForItself
    <3>2. QED BY <1>1, <1>3, <2>2, <3>1 DEF Primaries, Live
  <2>3. QED BY <2>1, <2>2
<1>6. primary[c] \/ Primaries # {} \/ orphaned
  BY <1>2 DEF OthersCounted, FirstStays
<1>7. \A r \in Live : host[r] # host[c]
  BY <1>2 DEF LockInv, HostAlone, SameHost, Live
<1>8. \E a \in {"created", "failed"} :
        answerOf[c] = "none" /\ answerOf' = [answerOf EXCEPT ![c] = a]
  <2>1. PICK a \in {"created", "failed"} : at' = [at EXCEPT ![c] = a]
    BY DEF CommitCreate, Ends
  <2>2. a \notin Running \cup {"idle"} /\ at[c] \in Running BY <1>2 DEF Running
  <2>3. QED BY <2>1, <2>2, Told
<1>9. UNCHANGED <<host, target, orphaned>> BY DEF CommitCreate
<1>10. QED BY <1>1, <1>5, <1>6, <1>7, <1>8, <1>9 DEF Contract!Add, Contract!Answers

LEMMA BeginDeleteRefines ==
  ASSUME IInv, LockInv, NEW d \in Deletes, NEW r \in Creates, BeginDelete(d, r)
  PROVE  Contract!Ask(d, r)
<1> USE DEF IInv, TypeOK, Calls
<1>1. target[d] = {} BY DEF BeginDelete, LockInv, DeletesOne
<1>2. Live' = Live /\ Primaries' = Primaries /\ UNCHANGED <<host, orphaned>>
  BY DEF BeginDelete, Live, Primaries
<1>3. answerOf' = answerOf BY GoesOn DEF BeginDelete, Running
<1>4. QED BY <1>1, <1>2, <1>3 DEF BeginDelete, Contract!Ask

LEMMA DeleteRowRefines ==
  ASSUME IInv, LockInv, NEW d \in Deletes, DeleteRow(d)
  PROVE  Contract!NotFound(d) \/ UNCHANGED Contract!domainVars
<1> USE CallsAssumption DEF IInv, TypeOK, Calls
<1>1. /\ Live' = Live /\ Primaries' = Primaries /\ UNCHANGED <<host, target, orphaned>>
      /\ at[d] = "delete" /\ at[d] \in Running
  BY DEF DeleteRow, Live, Primaries, Running
<1>2. CASE at' = [at EXCEPT ![d] = "commit"]
  <2>1. answerOf' = answerOf BY <1>1, <1>2, GoesOn DEF Running
  <2>2. QED BY <1>1, <2>1 DEF Contract!domainVars
<1>3. CASE ~(target[d] \subseteq Live) /\ Rollback(d, "notFound")
  <2>1. answerOf[d] = "none" /\ answerOf' = [answerOf EXCEPT ![d] = "notFound"]
    BY <1>1, <1>3, Told DEF Rollback, Ends, Running
  <2>2. \E r \in Creates : target[d] = {r} /\ r \notin Live
    BY <1>1, <1>3 DEF LockInv, DeletesOne
  <2>3. QED BY <1>1, <2>1, <2>2 DEF Contract!NotFound, Contract!Answers
<1>4. QED BY <1>2, <1>3 DEF DeleteRow

(* The COMMIT of a Delete removes one domain, which no other call has         *)
(* touched since.                                                            *)
LEMMA CommitDeleteRefines ==
  ASSUME IInv, LockInv, NEW d \in Deletes, CommitDelete(d)
  PROVE  \E r \in Creates : Contract!Remove(d, r)
<1> USE CallsAssumption DEF IInv, TypeOK, Calls
<1>1. PICK r \in Creates : touched[d] = {r} /\ target[d] = {r}
  BY DEF CommitDelete, LockInv, DeletesOne
<1>2. r \in Live BY <1>1 DEF LockInv, HeldLive
<1>3. Live' = Live \ {r} BY <1>1 DEF CommitDelete, Live
<1>4. Primaries' = Primaries \ {r} BY <1>3 DEF CommitDelete, Primaries
<1>5. orphaned' = (orphaned \/ r \in Primaries)
  BY <1>1, <1>2 DEF CommitDelete, Primaries
<1>6. \E a \in {"deleted", "failed"} :
        answerOf[d] = "none" /\ answerOf' = [answerOf EXCEPT ![d] = a]
  <2>1. PICK a \in {"deleted", "failed"} : at' = [at EXCEPT ![d] = a]
    BY DEF CommitDelete, Ends
  <2>2. a \notin Running \cup {"idle"} /\ at[d] \in Running BY DEF CommitDelete, Running
  <2>3. QED BY <2>1, <2>2, Told
<1>7. UNCHANGED <<host, target>> BY DEF CommitDelete
<1>8. QED BY <1>1, <1>2, <1>3, <1>4, <1>5, <1>6, <1>7 DEF Contract!Remove, Contract!Answers

LEMMA FailRefines ==
  ASSUME IInv, NEW t \in Calls, Fail(t)
  PROVE  Contract!Fail(t)
<1> USE DEF IInv, TypeOK
<1>1. Live' = Live /\ Primaries' = Primaries /\ UNCHANGED <<host, target, orphaned>>
  BY DEF Fail, Live, Primaries
<1>2. answerOf[t] = "none" /\ answerOf' = [answerOf EXCEPT ![t] = "failed"]
  BY Told DEF Fail, Rollback, Ends, Running
<1>3. QED BY <1>1, <1>2 DEF Contract!Fail, Contract!Answers

LEMMA ContractStep ==
  IInv /\ LockInv /\ [Next]_vars => [Contract!Next]_(Contract!domainVars)
<1> SUFFICES ASSUME IInv, LockInv, [Next]_vars
             PROVE  Contract!Next \/ UNCHANGED Contract!domainVars
  OBVIOUS
<1>1. ASSUME NEW c \in Creates, BeginCreate(c) \/ CreateStep(c)
      PROVE  Contract!Next \/ UNCHANGED Contract!domainVars
  <2>1. CASE BeginCreate(c) \/ Count(c) \/ DemoteFind(c) \/ Demote(c) BY <2>1, CreateHidden
  <2>2. CASE InsertHostname(c) \/ InsertPrimary(c) BY <2>2, InsertRefines DEF Contract!Next
  <2>3. CASE CommitCreate(c)
    <3>1. Contract!Add(c, primary[c]) BY <2>3, CommitCreateRefines
    <3>2. primary[c] \in BOOLEAN BY DEF IInv, TypeOK
    <3>3. QED BY <3>1, <3>2 DEF Contract!Next
  <2>4. QED BY <1>1, <2>1, <2>2, <2>3 DEF CreateStep
<1>2. ASSUME NEW d \in Deletes, (\E r \in Creates : BeginDelete(d, r)) \/ DeleteStep(d)
      PROVE  Contract!Next \/ UNCHANGED Contract!domainVars
  BY <1>2, BeginDeleteRefines, DeleteRowRefines, CommitDeleteRefines DEF DeleteStep, Contract!Next
<1>3. ASSUME NEW t \in Calls, Fail(t) \/ BreakDeadlock(t)
      PROVE  Contract!Next
  BY <1>3, FailRefines DEF BreakDeadlock, Contract!Next, Calls
<1>4. CASE UNCHANGED vars
  BY <1>4 DEF vars, Contract!domainVars, Live, Primaries, answerOf
<1>5. QED BY <1>1, <1>2, <1>3, <1>4 DEF Next, Calls

LEMMA LocksHold == Spec => [](IInv /\ LockInv)
<1>1. Init => IInv /\ LockInv BY InvInit, LocksInit
<1>2. (IInv /\ LockInv) /\ [Next]_vars => (IInv /\ LockInv)' BY InvStep, LocksStep
<1>3. QED BY <1>1, <1>2, PTL DEF Spec

(* Under READ COMMITTED, with a transaction of up to six statements for each  *)
(* call and any number of calls at once, the domains of a site change as if  *)
(* every call were one step (domains.go, 0001_init.up.sql).                   *)
THEOREM Refinement == Spec => AtomicCalls
<1>1. QED BY ContractStart, ContractStep, LocksHold, PTL DEF Spec, AtomicCalls, Contract!Spec

(* No two domains of a site have the same hostname, whether or not the calls  *)
(* that create them see each other's rows (domains.go:51).                    *)
THEOREM HostnamesUnique == Spec => [](\A r, s \in Live : host[r] = host[s] => r = s)
<1>1. LockInv => \A r, s \in Live : host[r] = host[s] => r = s BY DEF LockInv, HostAlone
<1>2. QED BY <1>1, LocksHold, PTL

(* The deployed server keeps the contract too.                               *)
THEOREM PlaneRefinement == PlaneSpec => AtomicCalls
<1>1. PlaneInit => Contract!Init /\ LockInv BY ContractStart, LocksInit DEF PlaneInit
<1>2. IInv /\ LockInv /\ [PlaneNext]_planeVars => LockInv' BY LocksStep, PlaneStep
<1>3. IInv /\ LockInv /\ [PlaneNext]_planeVars => [Contract!Next]_(Contract!domainVars)
  BY ContractStep, PlaneStep
<1>4. QED BY <1>1, <1>2, <1>3, PlaneInvariant, PTL DEF PlaneSpec, AtomicCalls, Contract!Spec
=============================================================================
