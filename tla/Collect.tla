------------------------------ MODULE Collect ------------------------------
(***************************************************************************)
(* POST /collect (internal/ingest/handler.go, enricher.go): what becomes   *)
(* of a request, from its body to the batch writer, while the site it      *)
(* names is being changed and midnight passes.                             *)
(*                                                                         *)
(* A request waits where it reads its body, asks the limiter, asks the     *)
(* site cache; between two readings of the clock it can be preempted.      *)
(* Limiter, cache and writer are modules of their own; here the limiter    *)
(* says yes or no and the cache answers with any version of the site.      *)
(***************************************************************************)
EXTENDS Integers

CONSTANTS
  Requests,  \* requests that name one site
  Visitors,  \* pairs of an address and a user agent
  Hosts,     \* hostnames
  MaxDay,    \* the clock runs through the UTC days 0..MaxDay
  MaxSite    \* most versions of the site

ASSUME CollectAssumption ==
  /\ MaxDay \in Nat
  /\ MaxSite \in Nat \ {0}

VARIABLES
  day,     \* the UTC day of the clock
  site,    \* versions of the site, the last one current
  current, \* number of the current version
  place,   \* how far each request is
  input,   \* what it brings
  ts,      \* the day on which its event is dated
  salted,  \* the day whose salt is in its session id, -1 before that
  reason   \* X-Webalytics-Debug

request == <<place, input, ts, salted, reason>>
vars == <<day, site, current, request>>

Places == {"new", "allow", "lookup", "dated", "built", "answered"}

Reasons == {"ok", "schema", "site_unknown", "domain_mismatch", "rate_limited",
            "dnt_honored", "bot_filtered"}

(* A site that is not created yet or deleted is not known.  hostnames are    *)
(* those that its domains match.                                             *)
SiteRows == [known : BOOLEAN, hostnames : SUBSET Hosts, allow_dnt : BOOLEAN]

(* host is "" without Origin and Referer.                                    *)
Inputs == [dnt : BOOLEAN, host : Hosts \cup {""}, visitor : Visitors]

Init ==
  /\ day = 0
  /\ site \in [1..1 -> SiteRows]
  /\ current = 1
  /\ place = [r \in Requests |-> "new"]
  /\ input \in [Requests -> Inputs]
  /\ ts = [r \in Requests |-> 0]
  /\ salted = [r \in Requests |-> -1]
  /\ reason = [r \in Requests |-> "none"]

----------------------------------------------------------------------------
(* The environment *)

(* Bound on delays: the two readings of the clock are less than a day apart. *)
Midnight ==
  /\ day < MaxDay
  /\ \A r \in Requests : place[r] = "dated" => ts[r] = day
  /\ day' = day + 1
  /\ UNCHANGED <<site, current, request>>

(* Nothing follows the deletion of a site.                                   *)
WriteSite ==
  /\ current < MaxSite
  /\ site[current].known \/ current = 1
  /\ current' = current + 1
  /\ \E row \in SiteRows :
       site' = [v \in 1..(current + 1) |-> IF v <= current THEN site[v] ELSE row]
  /\ UNCHANGED <<day, request>>

----------------------------------------------------------------------------
(* The handler *)

(* writeAccepted: 204 whatever the reason.                                   *)
Drop(r, why) ==
  /\ place' = [place EXCEPT ![r] = "answered"]
  /\ reason' = [reason EXCEPT ![r] = why]
  /\ UNCHANGED <<day, site, current, input, ts, salted>>

Advance(r, from, to) ==
  /\ place[r] = from
  /\ place' = [place EXCEPT ![r] = to]

(* Decode and Validate.                                                      *)
Receive(r) ==
  /\ Advance(r, "new", "allow")
  /\ UNCHANGED <<day, site, current, input, ts, salted, reason>>

ReceiveMalformed(r) == place[r] = "new" /\ Drop(r, "schema")

(* Limiter.Allow; an error of its backend lets the request pass.             *)
Pass(r) ==
  /\ Advance(r, "allow", "lookup")
  /\ UNCHANGED <<day, site, current, input, ts, salted, reason>>

Limited(r) == place[r] = "allow" /\ Drop(r, "rate_limited")

LookupFails(r) == place[r] = "lookup" /\ Drop(r, "site_unknown")

HonorsDNT(in, row) == in.dnt /\ ~row.allow_dnt

Screened(in, row) == row.known /\ ~HonorsDNT(in, row) /\ in.host \in row.hostnames

(* The checks that need the row, in their order.                             *)
ScreenOut(r) ==
  /\ place[r] = "lookup"
  /\ \E v \in 1..current :
       LET row == site[v] IN
       \/ ~row.known /\ Drop(r, "site_unknown")
       \/ row.known /\ HonorsDNT(input[r], row) /\ Drop(r, "dnt_honored")
       \/ row.known /\ ~HonorsDNT(input[r], row) /\ input[r].host \notin row.hostnames
            /\ Drop(r, "domain_mismatch")

(* isLikelyBotUA, after the checks that need the row.                        *)
FilterBot(r) ==
  /\ place[r] = "lookup"
  /\ \E v \in 1..current : Screened(input[r], site[v])
  /\ Drop(r, "bot_filtered")

(* Every check is passed: now() dates the event.                             *)
Date(r) ==
  /\ Advance(r, "lookup", "dated")
  /\ \E v \in 1..current : Screened(input[r], site[v])
  /\ ts' = [ts EXCEPT ![r] = day]
  /\ UNCHANGED <<day, site, current, input, salted, reason>>

BuildFails(r) == place[r] = "dated" /\ Drop(r, "schema")

BuildWithoutDay(r) ==  \* mutant: the salt of the day on which the process started
  /\ Advance(r, "dated", "built")
  /\ salted' = [salted EXCEPT ![r] = 0]
  /\ UNCHANGED <<day, site, current, input, ts, reason>>

(* Enricher.Build: the hasher reads a clock of its own.                      *)
Build(r) ==
  /\ Advance(r, "dated", "built")
  /\ salted' = [salted EXCEPT ![r] = day]
  /\ UNCHANGED <<day, site, current, input, ts, reason>>

SubmitAndAnswer(r) ==
  /\ Advance(r, "built", "answered")
  /\ reason' = [reason EXCEPT ![r] = "ok"]
  /\ UNCHANGED <<day, site, current, input, ts, salted>>

Handle(r) ==
  \/ Receive(r) \/ ReceiveMalformed(r)
  \/ Pass(r) \/ Limited(r)
  \/ LookupFails(r) \/ ScreenOut(r) \/ FilterBot(r) \/ Date(r)
  \/ Build(r) \/ BuildFails(r)
  \/ SubmitAndAnswer(r)

Next == Midnight \/ WriteSite \/ \E r \in Requests : Handle(r)

Spec == Init /\ [][Next]_vars

----------------------------------------------------------------------------
(* Properties *)

Submitted == {r \in Requests : reason[r] = "ok"}

TypeOK ==
  /\ day \in 0..MaxDay
  /\ current \in 1..MaxSite
  /\ site \in [1..current -> SiteRows]
  /\ place \in [Requests -> Places]
  /\ input \in [Requests -> Inputs]
  /\ ts \in [Requests -> 0..MaxDay]
  /\ salted \in [Requests -> -1..MaxDay]
  /\ reason \in [Requests -> Reasons \cup {"none"}]
  /\ \A r \in Submitted : salted[r] # -1

(* HMAC over the site, the address, the user agent and the date.             *)
SessionId(r) == <<input[r].visitor, salted[r]>>

(* The events of one session are dated on one UTC day or on two that follow  *)
(* one another: the hasher reads its clock after now() and less than a day   *)
(* later.  Reporting starts from this.                                       *)
SessionSpan ==
  \A p, q \in Submitted : SessionId(p) = SessionId(q) => ts[p] - ts[q] \in -1..1
=============================================================================
