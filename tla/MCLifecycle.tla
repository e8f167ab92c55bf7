---------------------------- MODULE MCLifecycle ----------------------------
(* Two /collect requests, one of which can be buffered or in an insert while *)
(* the other is still in its handler, and a call of the API, which may hold a *)
(* connection of either pool while a lookup holds one of Ingest.             *)
EXTENDS Lifecycle
=============================================================================
