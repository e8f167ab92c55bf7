---------------------------- MODULE BatchWriter ----------------------------
(***************************************************************************)
(* internal/ingest/batcher.go: the in-memory buffer between the /collect   *)
(* handlers and ClickHouse.  Any number of goroutines call Submit, one     *)
(* goroutine runs loop, and Close may be called more than once.            *)
(*                                                                         *)
(* The mutex makes each locked region one action.  What the code does      *)
(* after it unlocks is another action, so everything can happen between    *)
(* the append of Submit and its send on the trigger channel, between       *)
(* `closed = true` and Close's send, and during InsertEvents.              *)
(*                                                                         *)
(* An event is the identity of the Submit call that brings it, so the      *)
(* buffer and the batch are sets: the order of rows inside one ClickHouse  *)
(* block is of no consequence to the table, which sorts them.              *)
(***************************************************************************)
EXTENDS Naturals, FiniteSets

CONSTANTS
  Events,   \* one event for each call of Submit
  Closers,  \* the goroutines that may call Close
  MaxRows   \* b.maxRows, which NewBatchWriter makes positive

ASSUME MaxRowsAssumption == MaxRows \in Nat \ {0}

VARIABLES
  buf,      \* b.buf
  closed,   \* b.closed
  trigger,  \* whether the one slot of b.trigger is taken
  tick,     \* whether the one slot of the ticker's channel is taken
  loop,     \* where the loop goroutine stands; "done" is also close(b.done)
  batch,    \* the batch flush has taken out of the buffer
  submit,   \* submit[e], how far the Submit call of e has come
  close,    \* close[c], how far the Close call of c has come
  rows,     \* rows[e], the rows of the events table that hold e
  failed    \* the events of batches whose insert was reported as failed

vars == <<buf, closed, trigger, tick, loop, batch, submit, close, rows, failed>>

LoopPlaces   == {"select", "flush", "insert", "check", "done"}
SubmitPlaces == {"idle", "signal", "kept", "ignored"}
ClosePlaces  == {"idle", "signal", "wait", "drained", "expired", "already"}

(* NewBatchWriter: an empty buffer, empty channels, the loop started. *)
Init ==
  /\ buf = {}
  /\ closed = FALSE
  /\ trigger = FALSE
  /\ tick = FALSE
  /\ loop = "select"
  /\ batch = {}
  /\ submit = [e \in Events |-> "idle"]
  /\ close = [c \in Closers |-> "idle"]
  /\ rows = [e \in Events |-> 0]
  /\ failed = {}

IsFull(b) == Cardinality(b) >= MaxRows

----------------------------------------------------------------------------
(* Submit *)

SubmitAppendLateFull(e) ==  \* mutant: the buffer's length is read before the append
  /\ submit[e] = "idle"
  /\ ~closed
  /\ buf' = buf \cup {e}
  /\ submit' = [submit EXCEPT ![e] = IF IsFull(buf) THEN "signal" ELSE "kept"]
  /\ UNCHANGED <<closed, trigger, tick, loop, batch, close, rows, failed>>

SubmitAppend(e) ==
  /\ submit[e] = "idle"
  /\ ~closed
  /\ buf' = buf \cup {e}
  /\ submit' = [submit EXCEPT ![e] = IF IsFull(buf') THEN "signal" ELSE "kept"]
  /\ UNCHANGED <<closed, trigger, tick, loop, batch, close, rows, failed>>

(* After Close the event is dropped without a word to the caller. *)
SubmitIgnored(e) ==
  /\ submit[e] = "idle"
  /\ closed
  /\ submit' = [submit EXCEPT ![e] = "ignored"]
  /\ UNCHANGED <<buf, closed, trigger, tick, loop, batch, close, rows, failed>>

(* The send has a default case: a token that is already there stands for it. *)
SubmitSignal(e) ==
  /\ submit[e] = "signal"
  /\ trigger' = TRUE
  /\ submit' = [submit EXCEPT ![e] = "kept"]
  /\ UNCHANGED <<buf, closed, tick, loop, batch, close, rows, failed>>

----------------------------------------------------------------------------
(* Close *)

CloseBeginUnsignalled(c) ==  \* mutant: Close relies on the ticker to wake the loop
  /\ close[c] = "idle"
  /\ close' = [close EXCEPT ![c] = IF closed THEN "already" ELSE "wait"]
  /\ closed' = TRUE
  /\ UNCHANGED <<buf, trigger, tick, loop, batch, submit, rows, failed>>

(* Every call but the first returns nil at once, drained or not. *)
CloseBegin(c) ==
  /\ close[c] = "idle"
  /\ close' = [close EXCEPT ![c] = IF closed THEN "already" ELSE "signal"]
  /\ closed' = TRUE
  /\ UNCHANGED <<buf, trigger, tick, loop, batch, submit, rows, failed>>

CloseSignal(c) ==
  /\ close[c] = "signal"
  /\ trigger' = TRUE
  /\ close' = [close EXCEPT ![c] = "wait"]
  /\ UNCHANGED <<buf, closed, tick, loop, batch, submit, rows, failed>>

CloseDrained(c) ==
  /\ close[c] = "wait"
  /\ loop = "done"
  /\ close' = [close EXCEPT ![c] = "drained"]
  /\ UNCHANGED <<buf, closed, trigger, tick, loop, batch, submit, rows, failed>>

(* The caller's context ends first: Close returns its error. *)
CloseExpired(c) ==
  /\ close[c] = "wait"
  /\ close' = [close EXCEPT ![c] = "expired"]
  /\ UNCHANGED <<buf, closed, trigger, tick, loop, batch, submit, rows, failed>>

----------------------------------------------------------------------------
(* The loop goroutine and its ticker *)

(* The ticker drops a tick the loop has not yet read. *)
Tick ==
  /\ loop # "done"
  /\ ~tick
  /\ tick' = TRUE
  /\ UNCHANGED <<buf, closed, trigger, loop, batch, submit, close, rows, failed>>

LoopTick ==
  /\ loop = "select"
  /\ tick
  /\ tick' = FALSE
  /\ loop' = "flush"
  /\ UNCHANGED <<buf, closed, trigger, batch, submit, close, rows, failed>>

LoopTrigger ==
  /\ loop = "select"
  /\ trigger
  /\ trigger' = FALSE
  /\ loop' = "flush"
  /\ UNCHANGED <<buf, closed, tick, batch, submit, close, rows, failed>>

FlushEmpty ==
  /\ loop = "flush"
  /\ buf = {}
  /\ loop' = "check"
  /\ UNCHANGED <<buf, closed, trigger, tick, batch, submit, close, rows, failed>>

FlushSwap ==
  /\ loop = "flush"
  /\ buf # {}
  /\ batch' = buf
  /\ buf' = {}
  /\ loop' = "insert"
  /\ UNCHANGED <<closed, trigger, tick, submit, close, rows, failed>>

Stored(kept) == [e \in Events |-> IF e \in kept THEN rows[e] + 1 ELSE rows[e]]

InsertOkClearing ==  \* mutant: the buffer is emptied when the insert is done
  /\ loop = "insert"
  /\ rows' = Stored(batch)
  /\ batch' = {}
  /\ buf' = {}
  /\ loop' = "check"
  /\ UNCHANGED <<closed, trigger, tick, submit, close, failed>>

InsertOk ==
  /\ loop = "insert"
  /\ rows' = Stored(batch)
  /\ batch' = {}
  /\ loop' = "check"
  /\ UNCHANGED <<buf, closed, trigger, tick, submit, close, failed>>

(* An error, among them the end of the ten-second context, does not tell    *)
(* which rows ClickHouse has kept.  The batch is logged and let go.         *)
InsertError(kept) ==
  /\ loop = "insert"
  /\ kept \subseteq batch
  /\ rows' = Stored(kept)
  /\ failed' = failed \cup batch
  /\ batch' = {}
  /\ loop' = "check"
  /\ UNCHANGED <<buf, closed, trigger, tick, submit, close>>

LoopCheckClosed ==  \* mutant: the loop does not look at what remains
  /\ loop = "check"
  /\ loop' = IF closed THEN "done" ELSE "select"
  /\ UNCHANGED <<buf, closed, trigger, tick, batch, submit, close, rows, failed>>

LoopCheckEither ==  \* mutant: || for && in the exit condition
  /\ loop = "check"
  /\ loop' = IF closed \/ buf = {} THEN "done" ELSE "select"
  /\ UNCHANGED <<buf, closed, trigger, tick, batch, submit, close, rows, failed>>

LoopCheck ==
  /\ loop = "check"
  /\ loop' = IF closed /\ buf = {} THEN "done" ELSE "select"
  /\ UNCHANGED <<buf, closed, trigger, tick, batch, submit, close, rows, failed>>

----------------------------------------------------------------------------

SubmitStep(e) == SubmitAppend(e) \/ SubmitIgnored(e) \/ SubmitSignal(e)

CloseStep(c) ==
  CloseBegin(c) \/ CloseSignal(c) \/ CloseDrained(c) \/ CloseExpired(c)

LoopStep ==
  \/ LoopTick
  \/ LoopTrigger
  \/ FlushEmpty
  \/ FlushSwap
  \/ InsertOk
  \/ \E kept \in SUBSET batch : InsertError(kept)
  \/ LoopCheck

Next ==
  \/ \E e \in Events : SubmitStep(e)
  \/ \E c \in Closers : CloseStep(c)
  \/ Tick
  \/ LoopStep

(* The Go scheduler runs every goroutine that is ready, and InsertEvents     *)
(* returns because its context ends.  Nobody has to call Submit or Close,    *)
(* and flushEvery may be so long that the ticker does not matter.            *)
Fairness ==
  /\ WF_vars(LoopStep)
  /\ \A e \in Events : WF_vars(SubmitSignal(e))
  /\ \A c \in Closers : WF_vars(CloseSignal(c))

Spec == Init /\ [][Next]_vars /\ Fairness

----------------------------------------------------------------------------
(* Properties *)

TypeOK ==
  /\ buf \subseteq Events
  /\ closed \in BOOLEAN
  /\ trigger \in BOOLEAN
  /\ tick \in BOOLEAN
  /\ loop \in LoopPlaces
  /\ batch \subseteq Events
  /\ submit \in [Events -> SubmitPlaces]
  /\ close \in [Closers -> ClosePlaces]
  /\ rows \in [Events -> Nat]
  /\ failed \subseteq Events

Accepted(e) == submit[e] \in {"signal", "kept"}

Settled(e) == rows[e] > 0 \/ e \in failed

(* An event is stored at most once, although a failed insert may have        *)
(* stored it: a failed batch is never offered again.                         *)
AtMostOnce == \A e \in Events : rows[e] <= 1

(* Each accepted event is in exactly one place, the buffer, the batch on its *)
(* way or the settled events, while Submit calls run against the swap in     *)
(* flush and against the insert; and no other event is anywhere.             *)
Accounted ==
  \A e \in Events :
    /\ Accepted(e) <=> e \in buf \/ e \in batch \/ Settled(e)
    /\ ~(e \in buf /\ e \in batch)
    /\ e \in buf \cup batch => ~Settled(e)

(* A full buffer never waits for the ticker: a token is in the channel, or a *)
(* Submit call is about to send it, or the loop is about to flush.           *)
FullWakes ==
  IsFull(buf) =>
    \/ trigger
    \/ loop = "flush"
    \/ \E e \in Events : submit[e] = "signal"

(* Nor does a closed writer: the loop has ended, or something will still     *)
(* take it past its select with nothing left to flush.                       *)
CloseWakes ==
  closed =>
    \/ loop \in {"flush", "done"}
    \/ trigger
    \/ \E c \in Closers : close[c] = "signal"
    \/ loop \in {"insert", "check"} /\ buf = {}

(* No wake-up is lost: neither a full buffer nor a closed writer is left to   *)
(* the ticker, whatever became of the token its caller dropped (batcher.go   *)
(* 68-75, 88-93).                                                            *)
NoLostWakeup == FullWakes /\ CloseWakes

(* When the Close call that did the closing returns nil, every event ever    *)
(* accepted has been settled.                                                *)
DrainedOnClose ==
  (\E c \in Closers : close[c] = "drained") =>
    \A e \in Events : Accepted(e) => Settled(e)

(* Close ends the loop without any help from the ticker (the comment of      *)
(* TestBatcher_CloseDrains: a ticker of an hour).                            *)
CloseTerminates == closed ~> (loop = "done")

(* With a ticker that keeps ticking no accepted event waits for ever, however *)
(* few the others are.                                                       *)
TickDelivers ==
  WF_vars(Tick) => \A e \in Events : Accepted(e) ~> Settled(e)

(* The writer implements DeliveryContract.                                   *)
fateOf ==
  [e \in Events |->
    IF submit[e] = "idle" THEN "new"
    ELSE IF submit[e] = "ignored" THEN "refused"
    ELSE IF e \in buf \cup batch THEN "taken"
    ELSE IF rows[e] > 0 THEN "stored" ELSE "lost"]

Contract == INSTANCE DeliveryContract
              WITH open <- ~closed, fate <- fateOf, finished <- (loop = "done")

ContractSpec == Contract!Spec
=============================================================================
