----------------------------- MODULE SiteCache -----------------------------
(***************************************************************************)
(* internal/storage/postgres/sitecache.go: the in-memory cache through     *)
(* which /collect finds a site, beside the admin handlers that change the  *)
(* site (internal/api/v1/sites.go, domains.go) and call Invalidate.        *)
(*                                                                         *)
(* One public site id is modelled: entries of different ids do not touch   *)
(* each other.  The contents of the site's rows are a version number, the  *)
(* count of the writes so far; what a lookup has to know besides is        *)
(* whether ingest_site_lookup has a row for the id.  Lookup reads the      *)
(* cache, the database and the clock in separate steps and holds no lock   *)
(* between them, so everything can happen from one to the next.            *)
(***************************************************************************)
EXTENDS Naturals, Sequences

CONSTANTS
  Lookups,     \* calls of Lookup that can be under way at the same time
  Admins,      \* admin requests that can be under way at the same time
  TTL,         \* c.ttl
  NegativeTTL, \* c.neg
  MaxLatency,  \* longest time from the database's answer to the put; the code
               \* sets no limit of its own
  MaxTime,     \* bound on the clock
  MaxWrites    \* bound on the writes to the site

ASSUME CacheAssumption ==
  /\ TTL \in Nat
  /\ NegativeTTL \in Nat
  /\ MaxLatency \in Nat
  /\ MaxTime \in Nat
  /\ MaxWrites \in Nat

VARIABLES
  now,         \* the clock
  wrote,       \* wrote[v], when version v replaced version v - 1
  hasDomain,   \* the site has a row in domains
  deleted,     \* sites.deleted_at is set
  entry,       \* c.entries[id]
  lookup,      \* lookup[l], how far that call of Lookup has come
  admin,       \* admin[a], the version whose write still awaits its Invalidate
  invalidated  \* the latest version whose handler has called Invalidate

vars == <<now, wrote, hasDomain, deleted, entry, lookup, admin, invalidated>>

Version == Len(wrote)

(* LookupByPublicID: the view joins the site with its domains. *)
InView == hasDomain /\ ~deleted

NoEntry == [held |-> FALSE, found |-> FALSE, ver |-> 0, expiresAt |-> 0, raced |-> FALSE]

Idle == [at |-> "idle", found |-> FALSE, ver |-> 0, readAt |-> 0, raced |-> FALSE]

NoWrite == 0

Init ==
  /\ now = 0
  /\ wrote = <<>>
  /\ hasDomain \in BOOLEAN
  /\ deleted = FALSE
  /\ entry = NoEntry
  /\ lookup = [l \in Lookups |-> Idle]
  /\ admin = [a \in Admins |-> NoWrite]
  /\ invalidated = 0

(* get: an entry counts until the clock is past its expiry. *)

Usable == entry.held /\ now <= entry.expiresAt

----------------------------------------------------------------------------
(* Lookup.  A hit changes nothing; a miss goes to the database. *)

Miss(l) ==
  /\ lookup[l].at = "idle"
  /\ ~Usable
  /\ lookup' = [lookup EXCEPT ![l].at = "query"]
  /\ UNCHANGED <<now, wrote, hasDomain, deleted, entry, admin, invalidated>>

Answered(l) ==
  /\ lookup[l].at = "query"
  /\ lookup' = [lookup EXCEPT ![l] = [at |-> "put", found |-> InView, ver |-> Version,
                                      readAt |-> now, raced |-> FALSE]]
  /\ UNCHANGED <<now, wrote, hasDomain, deleted, entry, admin, invalidated>>

(* Any other error is returned and nothing is cached. *)
QueryFails(l) ==
  /\ lookup[l].at = "query"
  /\ lookup' = [lookup EXCEPT ![l] = Idle]
  /\ UNCHANGED <<now, wrote, hasDomain, deleted, entry, admin, invalidated>>

LifetimeSame(found) == TTL  \* mutant: a miss is cached as long as a site

Lifetime(found) == IF found THEN TTL ELSE NegativeTTL

(* put overwrites whatever is there, and counts from its own reading of the   *)
(* clock.                                                                     *)
Put(l) ==
  /\ lookup[l].at = "put"
  /\ entry' = [held |-> TRUE, found |-> lookup[l].found, ver |-> lookup[l].ver,
               expiresAt |-> now + Lifetime(lookup[l].found), raced |-> lookup[l].raced]
  /\ lookup' = [lookup EXCEPT ![l] = Idle]
  /\ UNCHANGED <<now, wrote, hasDomain, deleted, admin, invalidated>>

----------------------------------------------------------------------------
(* The admin handlers *)

CanWrite == ~deleted /\ Version < MaxWrites

(* createDomain and deleteDomain leave the cache alone, and so does a         *)
(* patchSite whose commit goes through but is answered with an error.         *)
WriteQuietly(domain) ==
  /\ CanWrite
  /\ wrote' = Append(wrote, now)
  /\ hasDomain' = domain
  /\ UNCHANGED <<now, deleted, entry, lookup, admin, invalidated>>

PatchSite(a) ==
  /\ CanWrite
  /\ admin[a] = NoWrite
  /\ wrote' = Append(wrote, now)
  /\ admin' = [admin EXCEPT ![a] = Version + 1]
  /\ UNCHANGED <<now, hasDomain, deleted, entry, lookup, invalidated>>

DeleteSite(a) ==
  /\ CanWrite
  /\ admin[a] = NoWrite
  /\ wrote' = Append(wrote, now)
  /\ deleted' = TRUE
  /\ admin' = [admin EXCEPT ![a] = Version + 1]
  /\ UNCHANGED <<now, hasDomain, entry, lookup, invalidated>>

Later(v, w) == IF v > w THEN v ELSE w

InvalidateUnfound(a) ==  \* mutant: Invalidate passes over a cached miss
  /\ admin[a] # NoWrite
  /\ entry' = IF entry.found THEN NoEntry ELSE entry
  /\ lookup' = [l \in Lookups |-> [lookup[l] EXCEPT !.raced = (lookup[l].at = "put")]]
  /\ invalidated' = Later(admin[a], invalidated)
  /\ admin' = [admin EXCEPT ![a] = NoWrite]
  /\ UNCHANGED <<now, wrote, hasDomain, deleted>>

(* Invalidate cannot reach a lookup that already holds its row: `raced` marks *)
(* those, for the property below.                                             *)
Invalidate(a) ==
  /\ admin[a] # NoWrite
  /\ entry' = NoEntry
  /\ lookup' = [l \in Lookups |-> [lookup[l] EXCEPT !.raced = (lookup[l].at = "put")]]
  /\ invalidated' = Later(admin[a], invalidated)
  /\ admin' = [admin EXCEPT ![a] = NoWrite]
  /\ UNCHANGED <<now, wrote, hasDomain, deleted>>

----------------------------------------------------------------------------

(* Time passes, but no lookup sits on its row longer than MaxLatency. *)
Advance ==
  /\ now < MaxTime
  /\ \A l \in Lookups : lookup[l].at = "put" => now < lookup[l].readAt + MaxLatency
  /\ now' = now + 1
  /\ UNCHANGED <<wrote, hasDomain, deleted, entry, lookup, admin, invalidated>>

Next ==
  \/ \E l \in Lookups : Miss(l) \/ Answered(l) \/ QueryFails(l) \/ Put(l)
  \/ \E domain \in BOOLEAN : WriteQuietly(domain)
  \/ \E a \in Admins : PatchSite(a) \/ DeleteSite(a) \/ Invalidate(a)
  \/ Advance

Spec == Init /\ [][Next]_vars

----------------------------------------------------------------------------
(* Properties *)

TypeOK ==
  /\ now \in Nat
  /\ wrote \in Seq(Nat)
  /\ hasDomain \in BOOLEAN
  /\ deleted \in BOOLEAN
  /\ entry \in [held : BOOLEAN, found : BOOLEAN, ver : Nat, expiresAt : Nat,
                raced : BOOLEAN]
  /\ lookup \in [Lookups -> [at : {"idle", "query", "put"}, found : BOOLEAN,
                             ver : Nat, readAt : Nat, raced : BOOLEAN]]
  /\ admin \in [Admins -> Nat]
  /\ invalidated \in Nat

(* What a hit returns was true of the database no longer ago than the TTL of  *)
(* its kind plus the time a lookup may take to store it, whatever the admin   *)
(* handlers and the other lookups do meanwhile.                               *)
BoundedStaleness ==
  Usable /\ entry.ver < Version =>
    wrote[entry.ver + 1]
      + (IF entry.found THEN TTL ELSE NegativeTTL) + MaxLatency >= now

(* A site that Invalidate was called for is served older than that write only *)
(* if a lookup had read the old row before the Invalidate and stored it after.*)
OlderOnlyByRace == Usable /\ entry.ver < invalidated => entry.raced
=============================================================================
