--------------------------- MODULE MCControlPlane ---------------------------
(* Three Create calls, enough for a first domain and two that overlap as    *)
(* its successors, over two hostnames, and one Delete.  The four files of   *)
(* migrations/postgres: 0001 creates the tables, 0002 the roles, policies   *)
(* and current_org_id(), 0003 replaces functions and may be run again, 0004 *)
(* uses what 0001 and 0002 create.                                          *)
EXTENDS ControlPlane

MCNeeds == <<{}, {1}, {1}, {1, 2}>>
=============================================================================
