-------------------------- MODULE LifecycleProofs --------------------------
(***************************************************************************)
(* Theorems about BatchWriter for every set of events, every set of        *)
(* callers of Close and every positive batch size, and about the process   *)
(* that runs it (Lifecycle).                                               *)
(***************************************************************************)
EXTENDS Lifecycle, FiniteSetTheorems, TLAPS

(* What ties the loop's place to the buffer and the batch, and the callers   *)
(* of Close to the flag: without it Accounted and DrainedOnClose are not     *)
(* inductive.                                                                *)
LoopInv ==
  /\ batch # {} => loop = "insert"
  /\ loop = "done" => closed /\ buf = {}

CloseInv ==
  \A c \in Closers :
    /\ close[c] \in {"signal", "wait", "drained", "expired"} => closed
    /\ close[c] = "drained" => loop = "done"

(* The empty buffer is not full, because the batch size is positive.         *)
LEMMA EmptyNotFull == ~IsFull({})
BY FS_EmptySet, MaxRowsAssumption DEF IsFull

(* Type correctness: the state of the batcher keeps its shape.               *)
LEMMA TypeInit == Init => TypeOK
<1> SUFFICES ASSUME Init PROVE TypeOK
  OBVIOUS
<1>1. submit \in [Events -> SubmitPlaces] /\ close \in [Closers -> ClosePlaces]
  BY DEF Init, SubmitPlaces, ClosePlaces
<1>2. rows \in [Events -> Nat]
  BY DEF Init
<1> QED
  BY <1>1, <1>2 DEF Init, TypeOK, LoopPlaces

LEMMA TypeStep == TypeOK /\ [Next]_vars => TypeOK'
<1> SUFFICES ASSUME TypeOK, [Next]_vars PROVE TypeOK'
  OBVIOUS
<1> USE DEF TypeOK, LoopPlaces, SubmitPlaces, ClosePlaces
<1>1. ASSUME NEW e \in Events, SubmitStep(e) PROVE TypeOK'
  BY <1>1 DEF SubmitStep, SubmitAppend, SubmitIgnored, SubmitSignal
<1>2. ASSUME NEW c \in Closers, CloseStep(c) PROVE TypeOK'
  BY <1>2 DEF CloseStep, CloseBegin, CloseSignal, CloseDrained, CloseExpired
<1>3. CASE Tick
  BY <1>3 DEF Tick
<1>4. CASE LoopStep
  <2>1. CASE LoopTick \/ LoopTrigger \/ FlushEmpty \/ FlushSwap \/ LoopCheck
    BY <2>1 DEF LoopTick, LoopTrigger, FlushEmpty, FlushSwap, LoopCheck
  <2>2. CASE InsertOk
    BY <2>2 DEF InsertOk, Stored
  <2>3. ASSUME NEW kept \in SUBSET batch, InsertError(kept) PROVE TypeOK'
    BY <2>3 DEF InsertError, Stored
  <2> QED
    BY <1>4, <2>1, <2>2, <2>3 DEF LoopStep
<1>5. CASE UNCHANGED vars
  BY <1>5 DEF vars
<1> QED
  BY <1>1, <1>2, <1>3, <1>4, <1>5 DEF Next

THEOREM TypeCorrect == Spec => []TypeOK
BY TypeInit, TypeStep, PTL DEF Spec

----------------------------------------------------------------------------
(* Where events are: Accounted, AtMostOnce and LoopInv go together.          *)

Places == TypeOK /\ Accounted /\ AtMostOnce /\ LoopInv

LEMMA PlacesInit == Init => Places
<1> SUFFICES ASSUME Init PROVE Places
  OBVIOUS
<1>1. TypeOK
  BY TypeInit
<1>2. Accounted /\ AtMostOnce /\ LoopInv
  BY DEF Init, Accounted, AtMostOnce, LoopInv, Accepted, Settled
<1> QED
  BY <1>1, <1>2 DEF Places

LEMMA PlacesStep == Places /\ [Next]_vars => Places'
<1> SUFFICES ASSUME Places, [Next]_vars PROVE (Accounted /\ AtMostOnce /\ LoopInv)'
  BY TypeStep DEF Places
<1> USE DEF Places, TypeOK, Accounted, AtMostOnce, LoopInv, Accepted, Settled
<1>1. ASSUME NEW e \in Events, SubmitStep(e)
      PROVE  (Accounted /\ AtMostOnce /\ LoopInv)'
  <2>1. CASE SubmitAppend(e)
    BY <2>1 DEF SubmitAppend
  <2>2. CASE SubmitIgnored(e)
    BY <2>2 DEF SubmitIgnored
  <2>3. CASE SubmitSignal(e)
    BY <2>3 DEF SubmitSignal
  <2> QED
    BY <1>1, <2>1, <2>2, <2>3 DEF SubmitStep
<1>2. ASSUME NEW c \in Closers, CloseStep(c)
      PROVE  (Accounted /\ AtMostOnce /\ LoopInv)'
  BY <1>2 DEF CloseStep, CloseBegin, CloseSignal, CloseDrained, CloseExpired
<1>3. CASE Tick
  BY <1>3 DEF Tick
<1>4. CASE LoopTick \/ LoopTrigger \/ FlushEmpty
  BY <1>4 DEF LoopTick, LoopTrigger, FlushEmpty
<1>5. CASE FlushSwap
  BY <1>5 DEF FlushSwap
<1>6. CASE InsertOk
  BY <1>6 DEF InsertOk, Stored
<1>7. ASSUME NEW kept \in SUBSET batch, InsertError(kept)
      PROVE  (Accounted /\ AtMostOnce /\ LoopInv)'
  BY <1>7 DEF InsertError, Stored
<1>8. CASE LoopCheck
  BY <1>8 DEF LoopCheck
<1>9. CASE UNCHANGED vars
  BY <1>9 DEF vars
<1> QED
  BY <1>1, <1>2, <1>3, <1>4, <1>5, <1>6, <1>7, <1>8, <1>9 DEF Next, LoopStep

(* Every accepted event is in exactly one place.                             *)
THEOREM AccountedCorrect == Spec => []Accounted
<1>1. Places => Accounted
  BY DEF Places
<1> QED
  BY PlacesInit, PlacesStep, <1>1, PTL DEF Spec

(* No event is stored twice.                                                 *)
THEOREM AtMostOnceCorrect == Spec => []AtMostOnce
<1>1. Places => AtMostOnce
  BY DEF Places
<1> QED
  BY PlacesInit, PlacesStep, <1>1, PTL DEF Spec

----------------------------------------------------------------------------
(* Wake-ups and Close                                                        *)

IInv == Places /\ FullWakes /\ CloseWakes /\ CloseInv

LEMMA IInvInit == Init => IInv
<1> SUFFICES ASSUME Init PROVE IInv
  OBVIOUS
<1>1. Places
  BY PlacesInit
<1>2. FullWakes /\ CloseWakes /\ CloseInv
  BY EmptyNotFull DEF Init, FullWakes, CloseWakes, CloseInv
<1> QED
  BY <1>1, <1>2 DEF IInv

LEMMA IInvStep == IInv /\ [Next]_vars => IInv'
<1> SUFFICES ASSUME IInv, [Next]_vars PROVE FullWakes' /\ CloseWakes' /\ CloseInv'
  BY PlacesStep DEF IInv
<1> USE DEF IInv, Places, TypeOK, LoopPlaces, SubmitPlaces, ClosePlaces, LoopInv
<1>1. ASSUME NEW e \in Events, SubmitStep(e)
      PROVE  FullWakes' /\ CloseWakes' /\ CloseInv'
  <2>1. CASE SubmitAppend(e)
    <3>1. FullWakes'
      <4>1. CASE IsFull(buf')
        BY <2>1, <4>1 DEF SubmitAppend, FullWakes
      <4>2. CASE ~IsFull(buf')
        BY <4>2 DEF FullWakes, IsFull
      <4> QED
        BY <4>1, <4>2
    <3>2. CloseWakes' /\ CloseInv'
      BY <2>1 DEF SubmitAppend, CloseWakes, CloseInv
    <3> QED
      BY <3>1, <3>2
  <2>2. CASE SubmitIgnored(e)
    BY <2>2 DEF SubmitIgnored, FullWakes, CloseWakes, CloseInv, IsFull
  <2>3. CASE SubmitSignal(e)
    BY <2>3 DEF SubmitSignal, FullWakes, CloseWakes, CloseInv, IsFull
  <2> QED
    BY <1>1, <2>1, <2>2, <2>3 DEF SubmitStep
<1>2. ASSUME NEW c \in Closers, CloseStep(c)
      PROVE  FullWakes' /\ CloseWakes' /\ CloseInv'
  <2>1. FullWakes'
    BY <1>2 DEF CloseStep, CloseBegin, CloseSignal, CloseDrained, CloseExpired,
                FullWakes, IsFull
  <2>2. CloseWakes'
    BY <1>2 DEF CloseStep, CloseBegin, CloseSignal, CloseDrained, CloseExpired, CloseWakes
  <2>3. CloseInv'
    BY <1>2 DEF CloseStep, CloseBegin, CloseSignal, CloseDrained, CloseExpired, CloseInv
  <2> QED
    BY <2>1, <2>2, <2>3
<1>3. CASE Tick
  BY <1>3 DEF Tick, FullWakes, CloseWakes, CloseInv, IsFull
<1>4. CASE LoopTick \/ LoopTrigger \/ FlushEmpty
  <2>1. FullWakes'
    BY <1>4, EmptyNotFull DEF LoopTick, LoopTrigger, FlushEmpty, FullWakes
  <2>2. CloseWakes' /\ CloseInv'
    BY <1>4 DEF LoopTick, LoopTrigger, FlushEmpty, CloseWakes, CloseInv
  <2> QED
    BY <2>1, <2>2
<1>5. CASE FlushSwap
  BY <1>5, EmptyNotFull DEF FlushSwap, FullWakes, CloseWakes, CloseInv
<1>6. CASE InsertOk
  BY <1>6 DEF InsertOk, FullWakes, CloseWakes, CloseInv, IsFull
<1>7. ASSUME NEW kept \in SUBSET batch, InsertError(kept)
      PROVE  FullWakes' /\ CloseWakes' /\ CloseInv'
  BY <1>7 DEF InsertError, FullWakes, CloseWakes, CloseInv, IsFull
<1>8. CASE LoopCheck
  BY <1>8 DEF LoopCheck, FullWakes, CloseWakes, CloseInv, IsFull
<1>9. CASE UNCHANGED vars
  BY <1>9 DEF vars, FullWakes, CloseWakes, CloseInv, IsFull
<1> QED
  BY <1>1, <1>2, <1>3, <1>4, <1>5, <1>6, <1>7, <1>8, <1>9 DEF Next, LoopStep

LEMMA Invariance == Spec => []IInv
BY IInvInit, IInvStep, PTL DEF Spec

(* A full buffer is always about to be flushed, and a closed writer always    *)
(* about to end its loop.                                                    *)
THEOREM NoLostWakeupCorrect == Spec => []NoLostWakeup
<1>1. IInv => NoLostWakeup
  BY DEF IInv, NoLostWakeup
<1> QED
  BY Invariance, <1>1, PTL

(* A Close that returns nil has left no accepted event unsettled.            *)
THEOREM DrainedCorrect == Spec => []DrainedOnClose
<1>1. IInv => DrainedOnClose
  BY DEF IInv, Places, LoopInv, CloseInv, Accounted, DrainedOnClose
<1> QED
  BY Invariance, <1>1, PTL
----------------------------------------------------------------------------
(* The writer keeps DeliveryContract                                         *)

LEMMA ContractInit == Init => Contract!Init
BY DEF Init, Contract!Init, fateOf

LEMMA ContractStep ==
  IInv /\ [Next]_vars => [Contract!Next]_(Contract!contractVars)
<1> SUFFICES ASSUME IInv, [Next]_vars
             PROVE  Contract!Next \/ UNCHANGED Contract!contractVars
  OBVIOUS
<1> USE DEF IInv, Places, TypeOK, SubmitPlaces
<1>1. ASSUME NEW e \in Events, SubmitAppend(e) \/ SubmitIgnored(e)
      PROVE  Contract!Offer(e)
  BY <1>1 DEF SubmitAppend, SubmitIgnored, Contract!Offer, fateOf, LoopInv
<1>2. ASSUME NEW e \in Events, SubmitSignal(e)
      PROVE  UNCHANGED Contract!contractVars
  BY <1>2 DEF SubmitSignal, Contract!contractVars, fateOf
<1>3. ASSUME NEW c \in Closers, CloseBegin(c)
      PROVE  Contract!Shut \/ UNCHANGED Contract!contractVars
  BY <1>3 DEF CloseBegin, Contract!Shut, Contract!contractVars, fateOf
<1>4. ASSUME NEW c \in Closers, CloseSignal(c) \/ CloseDrained(c) \/ CloseExpired(c)
      PROVE  UNCHANGED Contract!contractVars
  BY <1>4 DEF CloseSignal, CloseDrained, CloseExpired, Contract!contractVars, fateOf
<1>5. CASE Tick
  BY <1>5 DEF Tick, Contract!contractVars, fateOf
<1>6. CASE LoopTick \/ LoopTrigger \/ FlushEmpty
  BY <1>6 DEF LoopTick, LoopTrigger, FlushEmpty, Contract!contractVars, fateOf
<1>7. CASE FlushSwap
  <2>1. buf' \cup batch' = buf \cup batch
    BY <1>7 DEF FlushSwap, LoopInv
  <2> QED
    BY <1>7, <2>1 DEF FlushSwap, Contract!contractVars, fateOf
<1>8. ASSUME NEW kept \in SUBSET batch, (InsertOk /\ kept = batch) \/ InsertError(kept)
      PROVE  Contract!Settle(batch, kept)
  <2>1. \A e \in batch : e \notin buf /\ rows[e] = 0 /\ Accepted(e)
    BY DEF Accounted, Settled
  <2>2. \A e \in batch : fateOf[e] = "taken"
    BY <2>1 DEF fateOf, Accepted
  <2>3. fateOf' = [e \in Events |->
                     IF e \notin batch THEN fateOf[e]
                     ELSE IF e \in kept THEN "stored" ELSE "lost"]
    <3>1. buf' = buf /\ batch' = {} /\ submit' = submit /\ rows' = Stored(kept)
      BY <1>8 DEF InsertOk, InsertError
    <3> QED
      BY <2>1, <3>1 DEF fateOf, Stored, Accepted
  <2> QED
    BY <1>8, <2>2, <2>3 DEF InsertOk, InsertError, Contract!Settle
<1>9. CASE LoopCheck
  <2>1. CASE closed /\ buf = {}
    <3>1. \A e \in Events : fateOf[e] # "taken"
      BY <1>9, <2>1 DEF LoopCheck, LoopInv, fateOf
    <3> QED
      BY <1>9, <2>1, <3>1 DEF LoopCheck, fateOf, Contract!Finish, Contract!Next
  <2>2. CASE ~(closed /\ buf = {})
    BY <1>9, <2>2 DEF LoopCheck, fateOf, Contract!contractVars
  <2> QED
    BY <2>1, <2>2
<1>10. CASE UNCHANGED vars
  BY <1>10 DEF vars, Contract!contractVars, fateOf
<1>11. ASSUME NEW kept \in SUBSET batch, Contract!Settle(batch, kept)
       PROVE  Contract!Next
  BY <1>11 DEF Contract!Next
<1> QED
  BY <1>1, <1>2, <1>3, <1>4, <1>5, <1>6, <1>7, <1>8, <1>9, <1>10, <1>11
     DEF Next, SubmitStep, CloseStep, LoopStep, Contract!Next

(* The batcher is an implementation of the contract: taken while open, and   *)
(* settled once.                                                             *)
THEOREM Refinement == Spec => ContractSpec
BY ContractInit, ContractStep, Invariance, PTL DEF Spec, ContractSpec, Contract!Spec

----------------------------------------------------------------------------
(* The process                                                               *)

(* To the writer, a step of the process is one of its own or none: all that  *)
(* was proved of the writer holds in the process too.                        *)
LEMMA ProcessStep == [LifeNext]_lifeVars => [Next]_vars
<1> SUFFICES ASSUME [LifeNext]_lifeVars PROVE [Next]_vars
  OBVIOUS
<1>1. ASSUME NEW r \in Requests, Arrive(r) \/ Query(r) \/ QueryEnds(r) \/ Answer(r)
      PROVE  [Next]_vars
  BY <1>1 DEF Arrive, Query, QueryEnds, Answer
<1>2. CASE Signal \/ ListenFails \/ RunStep
  BY <1>2 DEF Signal, ListenFails, RunStep, BeginShutdown, ShutdownDrained, ShutdownTimesOut
<1>3. CASE MainStep
  BY <1>3, MainAssumption DEF MainStep, SelectRunErr, SelectSignal, CloseBatcher, Return,
                              AppPoolClosed, IngestPoolClosed, Next
<1>4. CASE BatcherRuns
  BY <1>4 DEF BatcherRuns, Next
<1>5. CASE UNCHANGED lifeVars
  BY <1>5 DEF lifeVars
<1>6. ASSUME NEW e \in Events, SubmitFrom(e) PROVE [Next]_vars
  BY <1>6 DEF SubmitFrom, Next
<1> QED
  BY <1>1, <1>2, <1>3, <1>4, <1>5, <1>6 DEF LifeNext

LEMMA ProcessWriter == LifeSpec => []IInv
<1>1. LifeInit => IInv
  BY IInvInit DEF LifeInit
<1> QED
  BY <1>1, ProcessStep, IInvStep, PTL DEF LifeSpec

(* The writer implements DeliveryContract in the process as well, however the *)
(* process comes to its end (main.go 177-196).                               *)
THEOREM ProcessRefinement == LifeSpec => ContractSpec
<1>1. LifeInit => Contract!Init
  BY ContractInit DEF LifeInit
<1> QED
  BY <1>1, ProcessStep, ContractStep, ProcessWriter, PTL DEF LifeSpec, ContractSpec, Contract!Spec

----------------------------------------------------------------------------

(* The places of run(), server.Run and the requests, and what each implies.  *)
PlaceInv ==
  /\ request \in [Requests -> {"none", "open", "app", "ingest", "answered"}]
  /\ srv \in {"listening", "shutdown"} \cup SrvReturned
  /\ main \in {"select", "close", "closeApp", "closeIngest", "exited"}
  /\ via \in {"none", "runErr", "signal"}
  /\ main = "select" => via = "none"
  /\ via = "runErr" => srv \in SrvReturned

(* A drained server has no request in hand, and gets no other.               *)
NoneInHand == srv = "drained" => \A r \in Requests : ~InHand(r)

(* The writer is open until run() leaves its select, and turns nothing away.  *)
OpenUntilClose ==
  /\ main = "select" => ~closed
  /\ ~closed => \A e \in Events : submit[e] # "ignored"

(* run() is past its select's branch when Close has returned.                *)
ExitAfterClose ==
  main \in {"closeApp", "closeIngest", "exited"} => close[Main] \in {"drained", "expired"}

LifeInv ==
  /\ PlaceInv /\ NoneInHand /\ OpenUntilClose
  /\ DrainedServerLosesNothing /\ ExitAfterClose

LEMMA LifeStart == LifeInit => LifeInv
BY DEF LifeInit, Init, LifeInv, PlaceInv, NoneInHand, OpenUntilClose,
       DrainedServerLosesNothing, ExitAfterClose, InHand, Holding, SrvReturned

(* What the writer's own steps leave of its flag and of its Submit calls.     *)
LEMMA WriterSteps ==
  ASSUME IInv
  PROVE  /\ Tick \/ LoopStep => UNCHANGED <<closed, submit, close>>
         /\ CloseStep(Main) => submit' = submit
         /\ CloseStep(Main) /\ closed => closed'
         /\ \A e \in Events : SubmitStep(e) =>
              /\ UNCHANGED <<closed, close>>
              /\ \A f \in Events : f # e => submit'[f] = submit[f]
              /\ submit'[e] = "ignored" => closed
<1> USE DEF IInv, Places, TypeOK, ClosePlaces, SubmitPlaces
<1>1. Tick \/ LoopStep => UNCHANGED <<closed, submit, close>>
  BY DEF Tick, LoopStep, LoopTick, LoopTrigger, FlushEmpty, FlushSwap, InsertOk, InsertError,
         LoopCheck
<1>2. CloseStep(Main) => submit' = submit /\ (closed => closed')
  BY DEF CloseStep, CloseBegin, CloseSignal, CloseDrained, CloseExpired
<1>3. ASSUME NEW e \in Events, SubmitStep(e)
      PROVE  /\ UNCHANGED <<closed, close>>
             /\ \A f \in Events : f # e => submit'[f] = submit[f]
             /\ submit'[e] = "ignored" => closed
  BY <1>3 DEF SubmitStep, SubmitAppend, SubmitIgnored, SubmitSignal
<1> QED
  BY <1>1, <1>2, <1>3

LEMMA LifeStep == IInv /\ LifeInv /\ [LifeNext]_lifeVars => LifeInv'
<1> SUFFICES ASSUME IInv, LifeInv, [LifeNext]_lifeVars PROVE LifeInv'
  OBVIOUS
<1> USE DEF LifeInv, PlaceInv, NoneInHand, OpenUntilClose, DrainedServerLosesNothing,
            ExitAfterClose, SrvReturned, InHand, Holding, Alive, Requests
<1>1. ASSUME NEW r \in Requests, Arrive(r) \/ Query(r) \/ QueryEnds(r) \/ Answer(r)
      PROVE  LifeInv'
  <2>1. UNCHANGED <<vars, signalled, srv, main, via>>
    BY <1>1 DEF Arrive, Query, QueryEnds, Answer
  <2>2. PlaceInv'
    BY <1>1, <2>1 DEF Arrive, Query, QueryEnds, Answer
  <2>3. NoneInHand'
    BY <1>1, <2>1 DEF Arrive, Query, QueryEnds, Answer
  <2>4. OpenUntilClose' /\ DrainedServerLosesNothing' /\ ExitAfterClose'
    BY <2>1 DEF vars
  <2> QED
    BY <2>2, <2>3, <2>4
<1>2. ASSUME NEW e \in Events, SubmitFrom(e) PROVE LifeInv'
  <2>1. /\ UNCHANGED <<closed, close>>
        /\ \A f \in Events : f # e => submit'[f] = submit[f]
        /\ submit'[e] = "ignored" => closed
    BY <1>2, WriterSteps DEF SubmitFrom
  <2>2. UNCHANGED serverVars /\ request[e] = "open" /\ main # "exited"
    BY <1>2 DEF SubmitFrom
  <2>3. PlaceInv' /\ NoneInHand' /\ ExitAfterClose'
    BY <2>1, <2>2 DEF serverVars
  <2>4. OpenUntilClose'
    BY <2>1, <2>2 DEF serverVars
  <2>5. DrainedServerLosesNothing'
    BY <2>2 DEF serverVars
  <2> QED
    BY <2>3, <2>4, <2>5
<1>3. CASE Signal \/ ListenFails \/ BeginShutdown \/ ShutdownTimesOut
  BY <1>3 DEF Signal, ListenFails, BeginShutdown, ShutdownTimesOut, vars
<1>4. CASE ShutdownDrained
  BY <1>4 DEF ShutdownDrained, vars
<1>5. CASE SelectRunErr \/ SelectSignal
  BY <1>5 DEF SelectRunErr, SelectSignal, vars
<1>6. CASE CloseBatcher
  <2>1. UNCHANGED serverVars /\ main = "close"
    BY <1>6 DEF CloseBatcher
  <2>2. submit' = submit /\ (closed => closed')
    BY <1>6, WriterSteps DEF CloseBatcher
  <2> QED
    BY <2>1, <2>2 DEF serverVars
<1>7. CASE Return
  BY <1>7 DEF Return, vars
<1>8. CASE AppPoolClosed \/ IngestPoolClosed
  BY <1>8 DEF AppPoolClosed, IngestPoolClosed, vars
<1>9. CASE BatcherRuns
  <2>1. UNCHANGED serverVars /\ UNCHANGED <<closed, submit, close>>
    BY <1>9, WriterSteps DEF BatcherRuns
  <2> QED
    BY <2>1 DEF serverVars
<1>10. CASE UNCHANGED lifeVars
  BY <1>10 DEF lifeVars, vars, serverVars
<1> QED
  BY <1>1, <1>2, <1>3, <1>4, <1>5, <1>6, <1>7, <1>8, <1>9, <1>10 DEF LifeNext, RunStep, MainStep

LEMMA LifeInvariant == LifeSpec => [](IInv /\ LifeInv)
BY LifeStart, LifeStep, ProcessWriter, PTL DEF LifeSpec

(* The branch of a drained server turns no event away.                       *)
THEOREM DrainedServerCorrect == LifeSpec => []DrainedServerLosesNothing
<1>1. LifeInv => DrainedServerLosesNothing
  BY DEF LifeInv
<1> QED
  BY LifeInvariant, <1>1, PTL

(* Unless Close ran out of time, the process exits with nothing in memory.    *)
THEOREM ExitSettlesCorrect == LifeSpec => []ExitSettles
<1>1. IInv /\ LifeInv => ExitSettles
  <2> SUFFICES ASSUME IInv, LifeInv, main = "exited", close[Main] # "expired"
               PROVE  \A e \in Events : Accepted(e) => Settled(e)
    BY DEF ExitSettles
  <2>1. close[Main] = "drained"
    BY DEF LifeInv, ExitAfterClose
  <2>2. DrainedOnClose
    BY DEF IInv, Places, LoopInv, CloseInv, Accounted, DrainedOnClose
  <2> QED
    BY <2>1, <2>2, MainAssumption DEF DrainedOnClose
<1> QED
  BY LifeInvariant, <1>1, PTL
=============================================================================
