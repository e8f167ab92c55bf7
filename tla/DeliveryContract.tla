-------------------------- MODULE DeliveryContract --------------------------
(***************************************************************************)
(* What the write path of /collect promises about one event, with the      *)
(* buffer, the goroutines and the channels left out: an event offered      *)
(* while the writer is open is taken, and a taken event is settled once,   *)
(* as stored or as lost; after the writer is shut nothing is taken, and it *)
(* has finished only when nothing taken is unsettled.                      *)
(***************************************************************************)

CONSTANT Events  \* the events that callers may offer

VARIABLES
  open,      \* whether offers are still taken
  fate,      \* fate[e], what has become of event e
  finished   \* whether the writer has stopped for good

contractVars == <<open, fate, finished>>

Fates == {"new", "taken", "refused", "stored", "lost"}

Init ==
  /\ open = TRUE
  /\ fate = [e \in Events |-> "new"]
  /\ finished = FALSE

(* An offered event is taken or refused on the spot. *)
Offer(e) ==
  /\ fate[e] = "new"
  /\ fate' = [fate EXCEPT ![e] = IF open THEN "taken" ELSE "refused"]
  /\ UNCHANGED <<open, finished>>

(* Some taken events are settled together; those in `kept` reach the store. *)
Settle(batch, kept) ==
  /\ ~finished
  /\ \A e \in batch : fate[e] = "taken"
  /\ fate' = [e \in Events |->
                IF e \notin batch THEN fate[e]
                ELSE IF e \in kept THEN "stored" ELSE "lost"]
  /\ UNCHANGED <<open, finished>>

Shut ==
  /\ open
  /\ open' = FALSE
  /\ UNCHANGED <<fate, finished>>

Finish ==
  /\ ~open
  /\ \A e \in Events : fate[e] # "taken"
  /\ finished' = TRUE
  /\ UNCHANGED <<open, fate>>

Next ==
  \/ \E e \in Events : Offer(e)
  \/ \E batch \in SUBSET Events : \E kept \in SUBSET batch : Settle(batch, kept)
  \/ Shut
  \/ Finish

Spec == Init /\ [][Next]_contractVars
=============================================================================
