----------------------------- MODULE MCCollect -----------------------------
(* Two requests to a site that changes twice, over three days.              *)
EXTENDS Collect, TLC

Symmetry == Permutations(Requests) \cup Permutations(Visitors) \cup Permutations(Hosts)
=============================================================================
