---------------------------- MODULE MCReporting ----------------------------
(* Two events of two sessions on two paths, at three times in two months,   *)
(* inserted together or one by one, and a report over one of two windows.   *)
EXTENDS Reporting, TLC

MCWindows == {[from |-> 1, to |-> 2], [from |-> 1, to |-> 3]}

Symmetry == Permutations(Events) \cup Permutations(Sessions) \cup Permutations(Paths)
=============================================================================
