---------------------------- MODULE RateLimiter ----------------------------
(***************************************************************************)
(* internal/ingest/ratelimit.go: the fixed-window counters in Redis that   *)
(* every /collect request passes, one for its client address and one for   *)
(* its site, from any number of request goroutines at once.                *)
(*                                                                         *)
(* Allow reads the clock once, at its start, and names both counters after *)
(* that second; it reaches Redis later, and Redis may have dropped the     *)
(* counter of a second by then.  The clock counts ticks, TicksPerSec to    *)
(* the second, and a second is named by its first tick.  INCR and EXPIRE   *)
(* go out in one MULTI/EXEC and are one step.                              *)
(*                                                                         *)
(* A nil limiter or a nil Redis client behaves like two limits of 0: no    *)
(* counter is touched and every request passes.                            *)
(***************************************************************************)
EXTENDS Naturals, FiniteSets

CONSTANTS
  Requests,    \* one call of Allow for each
  Ips,         \* client addresses
  NoIp,        \* the empty address
  Sites,       \* site ids; the validator lets no empty one through
  PerIP,       \* r.perIPLimit, 0 when disabled
  PerSite,     \* r.perSiteLim, 0 when disabled
  TicksPerSec, \* ticks to the second
  MaxTime      \* bound on the clock

ASSUME LimiterAssumption ==
  /\ IsFiniteSet(Requests)
  /\ NoIp \notin Ips
  /\ Sites # {}
  /\ PerIP \in Nat
  /\ PerSite \in Nat
  /\ TicksPerSec \in Nat \ {0}
  /\ MaxTime \in Nat

VARIABLES
  now,     \* the clock
  counter, \* counter[k], the value of key k and when Redis drops it
  call,    \* call[r], how far that call of Allow has come
  incrAt   \* history: incrAt[<<r, check>>], when that INCR of r reached Redis

vars == <<now, counter, call, incrAt>>

Seconds == 0 .. MaxTime

Keys == ({"ip"} \X Ips \X Seconds) \cup ({"site"} \X Sites \X Seconds)

NoCounter == [n |-> 0, expiresAt |-> 0]

Checks == {"ip", "site"}  \* waiting for Redis to answer this check

Init ==
  /\ now = 0
  /\ counter = [k \in Keys |-> NoCounter]
  /\ call = [r \in Requests |->
               [at |-> "idle", ip |-> NoIp, site |-> CHOOSE s \in Sites : TRUE,
                readAt |-> 0, counted |-> {}, passed |-> {}]]
  /\ incrAt = [p \in Requests \X Checks |-> 0]

(* time.Now().Unix() *)
Second(t) == t - (t % TicksPerSec)

KeyOf(r, check) ==
  <<check, IF check = "ip" THEN call[r].ip ELSE call[r].site, Second(call[r].readAt)>>

Limit(check) == IF check = "ip" THEN PerIP ELSE PerSite

(* The first check that is still to be made, or the answer. *)
FirstFromSite(ip) ==  \* mutant: the site is checked first and the address never
  IF PerSite > 0 THEN "site" ELSE "allowed"

First(ip) ==
  IF PerIP > 0 /\ ip # NoIp THEN "ip" ELSE IF PerSite > 0 THEN "site" ELSE "allowed"

AfterPassing(check) == IF check = "ip" /\ PerSite > 0 THEN "site" ELSE "allowed"

(* What INCR returns: it starts at 1 again where the key has expired.        *)
Bumped(k) == (IF now < counter[k].expiresAt THEN counter[k].n ELSE 0) + 1

KeyLifeOneSecond == TicksPerSec  \* mutant: EXPIRE 1

KeyLife == 2 * TicksPerSec

Incr(r, check) ==
  LET k == KeyOf(r, check) IN
  /\ counter' = [counter EXCEPT ![k] = [n |-> Bumped(k), expiresAt |-> now + KeyLife]]
  /\ incrAt' = [incrAt EXCEPT ![<<r, check>>] = now]

WithinLimit(n, check) == n <= Limit(check)

----------------------------------------------------------------------------
(* Allow *)

Begin(r, ip, site) ==
  /\ call[r].at = "idle"
  /\ call' = [call EXCEPT ![r] =
                [at |-> First(ip), ip |-> ip, site |-> site,
                 readAt |-> now, counted |-> {}, passed |-> {}]]
  /\ UNCHANGED <<now, counter, incrAt>>

IncrPasses(r) ==
  LET check == call[r].at IN
  /\ check \in Checks
  /\ WithinLimit(Bumped(KeyOf(r, check)), check)
  /\ Incr(r, check)
  /\ call' = [call EXCEPT ![r].at = AfterPassing(check),
                          ![r].counted = @ \cup {check},
                          ![r].passed = @ \cup {check}]
  /\ UNCHANGED now

IncrRejects(r) ==
  LET check == call[r].at IN
  /\ check \in Checks
  /\ ~WithinLimit(Bumped(KeyOf(r, check)), check)
  /\ Incr(r, check)
  /\ call' = [call EXCEPT ![r].at = "rejected", ![r].counted = @ \cup {check}]
  /\ UNCHANGED now

IncrFailsClosed(r) ==  \* mutant: a request that Redis did not answer is refused
  LET check == call[r].at IN
  /\ check \in Checks
  /\ call' = [call EXCEPT ![r].at = "rejected"]
  /\ UNCHANGED <<now, counter, incrAt>>

(* An error fails open and skips the check still to come.  The INCR may have *)
(* gone through nevertheless.                                                *)
IncrFails(r) ==
  LET check == call[r].at IN
  /\ check \in Checks
  /\ \/ /\ Incr(r, check)
        /\ call' = [call EXCEPT ![r].at = "failedOpen", ![r].counted = @ \cup {check}]
     \/ /\ call' = [call EXCEPT ![r].at = "failedOpen"]
        /\ UNCHANGED <<counter, incrAt>>
  /\ UNCHANGED now

(* Time passes: nothing in Allow limits how long a call waits for Redis.     *)
Advance ==
  /\ now < MaxTime
  /\ now' = now + 1
  /\ UNCHANGED <<counter, call, incrAt>>

Next ==
  \/ \E r \in Requests :
       \/ \E ip \in Ips \cup {NoIp}, site \in Sites : Begin(r, ip, site)
       \/ IncrPasses(r)
       \/ IncrRejects(r)
       \/ IncrFails(r)
  \/ Advance

Spec == Init /\ [][Next]_vars

----------------------------------------------------------------------------
(* Properties *)

TypeOK ==
  /\ now \in Seconds
  /\ counter \in [Keys -> [n : Nat, expiresAt : Nat]]
  /\ call \in [Requests ->
                 [at : Checks \cup {"idle", "allowed", "rejected", "failedOpen"},
                  ip : Ips \cup {NoIp}, site : Sites, readAt : Seconds,
                  counted : SUBSET Checks, passed : SUBSET Checks]]
  /\ incrAt \in [Requests \X Checks -> Seconds]

CountedIn(k) == {r \in Requests : k[1] \in call[r].counted /\ KeyOf(r, k[1]) = k}

PassedIn(k) == {r \in Requests : k[1] \in call[r].passed /\ KeyOf(r, k[1]) = k}

(* Whether the INCR of r for that check reached Redis in the two seconds from *)
(* t on.                                                                     *)
ReachedIn(r, check, t) == incrAt[<<r, check>>] \in t .. t + 2 * TicksPerSec - 1

(* ratelimit.go:61 "The key lives for 2s so the window can overlap safely":  *)
(* however late requests reach Redis, and however often a counter expires and *)
(* starts again at 1, no more than the limit pass the counter of one second   *)
(* in any two seconds.  From the second's own beginning on (t = k[3]) these   *)
(* are all the requests of that second that come no more than a second late.  *)
CapHolds ==
  \A k \in Keys, t \in Seconds :
    Cardinality({r \in PassedIn(k) : ReachedIn(r, k[1], t)}) <= Limit(k[1])

(* A request is refused only if as many others as the limit allows were      *)
(* counted for its own address, or its own site, in its own second.          *)
RejectedForCause ==
  \A r \in Requests :
    call[r].at = "rejected" =>
      \E check \in call[r].counted \ call[r].passed :
        Cardinality(CountedIn(KeyOf(r, check)) \ {r}) >= Limit(check)

(* One address cannot use up a site's budget: of the requests counted in a    *)
(* site's second, those of one address whose own check came in any two        *)
(* seconds are no more than the address' limit, refused and unanswered ones   *)
(* among them.                                                               *)
OneAddressLeavesSite ==
  PerIP > 0 =>
    \A ip \in Ips, site \in Sites, s \in Seconds, t \in Seconds :
      Cardinality({r \in CountedIn(<<"site", site, s>>) :
                     call[r].ip = ip /\ ReachedIn(r, "ip", t)}) <= PerIP
=============================================================================
