---------------------------- MODULE MCSiteCache ----------------------------
(* Two lookups that overlap each other and an admin request, a positive     *)
(* lifetime longer than a negative one, and room for three writes.          *)
EXTENDS SiteCache, TLC

Symmetry == Permutations(Lookups) \cup Permutations(Admins)
=============================================================================
