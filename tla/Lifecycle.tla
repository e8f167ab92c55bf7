----------------------------- MODULE Lifecycle -----------------------------
(***************************************************************************)
(* The life of the server process: cmd/webalytics/main.go run() and        *)
(* internal/server/server.go Run(), composed with the requests in hand and *)
(* with the batcher (module BatchWriter).                                  *)
(*                                                                         *)
(* run() starts srv.Run in a goroutine and waits for it or for a signal.   *)
(* On a signal two goroutines react, each on its own: Run shuts the HTTP   *)
(* server down, which waits for the requests in hand, and run() closes the *)
(* batcher.  Each has cfg.HTTP.ShutdownTimeout.  The return of run() is    *)
(* held up by what it deferred: pools.Close() waits, without a timeout,    *)
(* for every Postgres connection that a request holds.  When run() is gone *)
(* the process is gone, and what was still in memory with it.              *)
(***************************************************************************)
EXTENDS BatchWriter

CONSTANTS
  Main,  \* the goroutine of run(), the only one that calls Close
  Calls  \* the requests to the API, which bring no event

ASSUME MainAssumption == Main \in Closers
ASSUME CallsAssumption == Calls \cap Events = {}

VARIABLES
  request,   \* request[r], how far request r is, or the pool it has a connection of
  signalled, \* the signal context of run() is done
  srv,       \* where server.Run stands, or how it has returned
  main,      \* where run() stands
  via        \* the branch of its select that run() has taken

serverVars == <<request, signalled, srv, main, via>>
lifeVars   == <<vars, serverVars>>

(* A /collect request goes by the name of the event it brings.               *)
Requests == Events \cup Calls

SrvReturned == {"drained", "timedout", "failed"}

(* The handler of r runs, and it holds a Postgres connection.                *)
Holding(r) == request[r] \in {"app", "ingest"}
InHand(r)  == request[r] = "open" \/ Holding(r)

LifeInit ==
  /\ Init
  /\ request = [r \in Requests |-> "none"]
  /\ signalled = FALSE
  /\ srv = "listening"
  /\ main = "select"
  /\ via = "none"

Alive == main # "exited"

----------------------------------------------------------------------------
(* Requests.  A handler that drops its request answers without a Submit; one  *)
(* that does not calls Submit once and answers when it has returned.  A       *)
(* listener that failed leaves the connections it accepted, which may bring   *)
(* more; Shutdown takes no further request on those it waits for.             *)

Arrive(r) ==
  /\ Alive
  /\ srv \in {"listening", "failed"}
  /\ request[r] = "none"
  /\ request' = [request EXCEPT ![r] = "open"]
  /\ UNCHANGED <<vars, signalled, srv, main, via>>

(* pools.Close() closes App and then Ingest: a pool that closes gives out no  *)
(* connection, and the handler that asks for one has its error at once.       *)
AppOpen    == main \in {"select", "close"}
IngestOpen == AppOpen \/ main = "closeApp"

(* /collect looks its site up before it submits; an API call queries as it    *)
(* likes.  A query may hang, and its request with it.                         *)
Query(r) ==
  /\ request[r] = "open"
  /\ \/ /\ AppOpen
        /\ r \in Calls
        /\ request' = [request EXCEPT ![r] = "app"]
     \/ /\ IngestOpen
        /\ r \in Events => submit[r] = "idle"
        /\ request' = [request EXCEPT ![r] = "ingest"]
  /\ UNCHANGED <<vars, signalled, srv, main, via>>

QueryEnds(r) ==
  /\ Alive
  /\ Holding(r)
  /\ request' = [request EXCEPT ![r] = "open"]
  /\ UNCHANGED <<vars, signalled, srv, main, via>>

SubmitFrom(e) ==
  /\ Alive
  /\ request[e] = "open"
  /\ SubmitStep(e)
  /\ UNCHANGED serverVars

Answer(r) ==
  /\ Alive
  /\ request[r] = "open"
  /\ r \in Events => submit[r] # "signal"
  /\ request' = [request EXCEPT ![r] = "answered"]
  /\ UNCHANGED <<vars, signalled, srv, main, via>>

----------------------------------------------------------------------------
(* server.Run *)

Signal ==
  /\ Alive
  /\ ~signalled
  /\ signalled' = TRUE
  /\ UNCHANGED <<vars, request, srv, main, via>>

(* ListenAndServe fails: Run returns at once, whatever requests are in hand.  *)
ListenFails ==
  /\ Alive
  /\ srv = "listening"
  /\ srv' = "failed"
  /\ UNCHANGED <<vars, request, signalled, main, via>>

BeginShutdown ==
  /\ Alive
  /\ srv = "listening"
  /\ signalled
  /\ srv' = "shutdown"
  /\ UNCHANGED <<vars, request, signalled, main, via>>

ShutdownAbrupt ==  \* mutant: http.Server.Close for Shutdown
  /\ Alive
  /\ srv = "shutdown"
  /\ srv' = "drained"
  /\ UNCHANGED <<vars, request, signalled, main, via>>

(* http.Server.Shutdown returns nil when no request is left.                  *)
ShutdownDrained ==
  /\ Alive
  /\ srv = "shutdown"
  /\ \A r \in Requests : ~InHand(r)
  /\ srv' = "drained"
  /\ UNCHANGED <<vars, request, signalled, main, via>>

ShutdownUnbounded ==  \* mutant: Shutdown(context.Background())
  FALSE /\ UNCHANGED lifeVars

ShutdownTimesOut ==
  /\ Alive
  /\ srv = "shutdown"
  /\ srv' = "timedout"
  /\ UNCHANGED <<vars, request, signalled, main, via>>

----------------------------------------------------------------------------
(* run() *)

SelectRunErr ==
  /\ Alive
  /\ main = "select"
  /\ srv \in SrvReturned
  /\ main' = "close"
  /\ via' = "runErr"
  /\ UNCHANGED <<vars, request, signalled, srv>>

SelectSignal ==
  /\ Alive
  /\ main = "select"
  /\ signalled
  /\ main' = "close"
  /\ via' = "signal"
  /\ UNCHANGED <<vars, request, signalled, srv>>

CloseBatcher ==
  /\ Alive
  /\ main = "close"
  /\ CloseStep(Main)
  /\ UNCHANGED serverVars

ReturnUnwaited ==  \* mutant: Close is started and not waited for
  /\ Alive
  /\ main = "close"
  /\ close[Main] # "idle"
  /\ via = "signal" => srv \in SrvReturned
  /\ main' = "closeApp"
  /\ UNCHANGED <<vars, request, signalled, srv, via>>

(* Close's error is ignored.  After a signal run() also waits for Run.  Of    *)
(* the deferred calls, last first, those for the context, the GeoIP file and  *)
(* ClickHouse wait for nobody; pools.Close() is the next.                     *)
Return ==
  /\ Alive
  /\ main = "close"
  /\ close[Main] \in {"drained", "expired"}
  /\ via = "signal" => srv \in SrvReturned
  /\ main' = "closeApp"
  /\ UNCHANGED <<vars, request, signalled, srv, via>>

(* App.Close() returns when no request holds one of its connections.         *)
AppPoolClosed ==
  /\ main = "closeApp"
  /\ \A r \in Requests : request[r] # "app"
  /\ main' = "closeIngest"
  /\ UNCHANGED <<vars, request, signalled, srv, via>>

(* Ingest.Close() as well; stop() is all that is left, and run() returns.     *)
IngestPoolClosed ==
  /\ main = "closeIngest"
  /\ \A r \in Requests : request[r] # "ingest"
  /\ main' = "exited"
  /\ UNCHANGED <<vars, request, signalled, srv, via>>

BatcherRuns ==
  /\ Alive
  /\ Tick \/ LoopStep
  /\ UNCHANGED serverVars

----------------------------------------------------------------------------

RunStep == BeginShutdown \/ ShutdownDrained \/ ShutdownTimesOut

MainStep ==
  SelectRunErr \/ SelectSignal \/ CloseBatcher \/ Return \/ AppPoolClosed \/ IngestPoolClosed

LifeNext ==
  \/ \E r \in Requests : Arrive(r) \/ Query(r) \/ QueryEnds(r) \/ Answer(r)
  \/ \E e \in Events : SubmitFrom(e)
  \/ Signal
  \/ ListenFails
  \/ RunStep
  \/ MainStep
  \/ BatcherRuns

(* Both goroutines of the shutdown run, and both their contexts end.  Nothing *)
(* is asked of the handlers, of their queries, of ClickHouse or of the loop.   *)
LifeFairness ==
  /\ WF_lifeVars(RunStep)
  /\ WF_lifeVars(MainStep)

LifeSpec == LifeInit /\ [][LifeNext]_lifeVars /\ LifeFairness

----------------------------------------------------------------------------
(* Properties *)

(* When run() closes the batcher because a drained server came back, no event *)
(* is turned away: events are lost to a closed batcher only on the signal     *)
(* branch, which does not wait for Run, or when Run gave up on its requests.  *)
DrainedServerLosesNothing ==
  via = "runErr" /\ srv = "drained" => \A e \in Events : submit[e] # "ignored"

(* What is gone when the process is gone: unless Close ran out of time, no    *)
(* event that Submit took is still in memory when run() returns, on either    *)
(* branch and whatever the requests in hand go on doing meanwhile.            *)
ExitSettles ==
  main = "exited" /\ close[Main] # "expired" =>
    \A e \in Events : Accepted(e) => Settled(e)

(* When the Postgres queries come back, a signal ends the process, whatever   *)
(* else hangs in a handler, in ClickHouse or in the loop: Run, Close and the  *)
(* two pools, each waiting for another, never wait in a circle.  Without the  *)
(* premise it is not so, although server.go 37-38 shuts down "within the      *)
(* configured shutdown timeout": a query that hangs has no deadline, and      *)
(* pools.Close() (main.go 56) waits for its connection for ever.              *)
QueriesReturn == \A r \in Requests : []<>~Holding(r)

SignalEnds == QueriesReturn => (signalled ~> (main = "exited"))
=============================================================================
