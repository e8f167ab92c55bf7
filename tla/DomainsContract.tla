-------------------------- MODULE DomainsContract --------------------------
(***************************************************************************)
(* What the callers of internal/storage/postgres/domains.go may rely on,   *)
(* with transactions, statements and locks left out: each call takes       *)
(* effect in one indivisible step, or not at all.  A call whose connection *)
(* fails does not know which.                                              *)
(***************************************************************************)
CONSTANTS
  Creates,  \* calls of Create, and the domains they add
  Deletes,  \* calls of Delete
  Hosts     \* hostnames

VARIABLES
  host,       \* host[c], the hostname Create call c is given
  target,     \* target[d], the domain Delete call d is about, once it has begun
  live,       \* the domains of the site
  primaries,  \* those that are primary
  orphaned,   \* a domain has been deleted while it was primary
  answer      \* answer[t], what call t was told, or none yet

domainVars == <<host, target, live, primaries, orphaned, answer>>

Init ==
  /\ host \in [Creates -> Hosts]
  /\ target = [d \in Deletes |-> {}]
  /\ live = {}
  /\ primaries = {}
  /\ orphaned = FALSE
  /\ answer = [t \in Creates \cup Deletes |-> "none"]

Answers(t, outcomes) ==
  /\ answer[t] = "none"
  /\ \E a \in outcomes : answer' = [answer EXCEPT ![t] = a]

(* A domain of a new hostname is added.  It takes the place of the primary    *)
(* one, or there is one, or there was one and it was deleted.                *)
Add(c, first) ==
  /\ \A r \in live : host[r] # host[c]
  /\ first \/ primaries # {} \/ orphaned
  /\ live' = live \cup {c}
  /\ primaries' = IF first THEN {c} ELSE primaries
  /\ Answers(c, {"created", "failed"})
  /\ UNCHANGED <<host, target, orphaned>>

Ask(d, r) ==
  /\ target[d] = {}
  /\ target' = [target EXCEPT ![d] = {r}]
  /\ UNCHANGED <<host, live, primaries, orphaned, answer>>

(* The domain that was asked for goes, and no other becomes primary. *)
Remove(d, r) ==
  /\ target[d] = {r}
  /\ r \in live
  /\ live' = live \ {r}
  /\ primaries' = primaries \ {r}
  /\ orphaned' = (orphaned \/ r \in primaries)
  /\ Answers(d, {"deleted", "failed"})
  /\ UNCHANGED <<host, target>>

(* A call that changes nothing says why. *)
Conflict(c) ==
  /\ \E r \in live : host[r] = host[c] \/ r \in primaries
  /\ Answers(c, {"conflict"})
  /\ UNCHANGED <<host, target, live, primaries, orphaned>>

NotFound(d) ==
  /\ \E r \in Creates : target[d] = {r} /\ r \notin live
  /\ Answers(d, {"notFound"})
  /\ UNCHANGED <<host, target, live, primaries, orphaned>>

Fail(t) ==
  /\ Answers(t, {"failed"})
  /\ UNCHANGED <<host, target, live, primaries, orphaned>>

Next ==
  \/ \E c \in Creates : (\E first \in BOOLEAN : Add(c, first)) \/ Conflict(c)
  \/ \E d \in Deletes : (\E r \in Creates : Ask(d, r) \/ Remove(d, r)) \/ NotFound(d)
  \/ \E t \in Creates \cup Deletes : Fail(t)

Spec == Init /\ [][Next]_domainVars
=============================================================================
