----------------------------- MODULE MCTracker -----------------------------
(* One path that is tracked and one that excludePaths matches, two visits   *)
(* and one custom event, the second of all: a vital or a pageview may be    *)
(* before it in its batch, and others come after it.                        *)
EXTENDS Tracker
=============================================================================
