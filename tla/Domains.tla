------------------------------ MODULE Domains ------------------------------
(***************************************************************************)
(* internal/storage/postgres/domains.go: the domains of one site, changed  *)
(* by concurrent calls of Create and Delete, each a transaction of its own *)
(* (WithOrg, conn.go) at Postgres's default isolation, READ COMMITTED.     *)
(*                                                                         *)
(* Every statement is an action: it sees the rows committed when it starts *)
(* and waits while another transaction holds a row it wants to change, or  *)
(* may still commit or withdraw an index entry that is in its way.  The    *)
(* two unique indexes (0001_init.up.sql) are checked one after the other:  *)
(* (site_id, hostname) first, then the partial one on primaries.           *)
(*                                                                         *)
(* A row is named after the Create call that inserts it, which also stands *)
(* for its id; hostnames are what they are after trimming and lowering.    *)
(***************************************************************************)
CONSTANTS
  Creates,  \* calls of Create, and the rows they insert
  Deletes,  \* calls of Delete
  Hosts     \* hostnames

ASSUME CallsAssumption == Creates \cap Deletes = {}

VARIABLES
  row,      \* row[r], whether r is committed: not yet, live or deleted
  host,     \* host[r], its hostname, once its call has begun
  primary,  \* primary[r], isPrimary in its call, then is_primary of the row
  target,   \* target[d], the ids that Delete call d was given, one of them
  at,       \* at[t], how far call t has come, or what it answered
  touched,  \* touched[t], the rows t has updated or deleted, uncommitted
  seen,     \* seen[c], the rows its UPDATE found in its snapshot
  before,   \* before[c], the rows committed when it counted
  blame,    \* blame[c], the rows whose index entries made it answer ErrConflict
  orphaned  \* a row has been deleted while it was primary

vars == <<row, host, primary, target, at, touched, seen, before, blame, orphaned>>

Calls == Creates \cup Deletes

Running == {"count", "demote", "lock", "insert", "index", "delete", "commit"}

Init ==
  /\ row = [r \in Creates |-> "none"]
  /\ host \in [Creates -> Hosts]
  /\ primary \in [Creates -> BOOLEAN]
  /\ target = [d \in Deletes |-> {}]
  /\ at = [t \in Calls |-> "idle"]
  /\ touched = [t \in Calls |-> {}]
  /\ seen = [c \in Creates |-> {}]
  /\ before = [c \in Creates |-> {}]
  /\ blame = [c \in Creates |-> {}]
  /\ orphaned = FALSE

Live == {r \in Creates : row[r] = "live"}

Primaries == {r \in Live : primary[r]}

(* Rows the call changed are its own until it ends.                          *)
Holders(rows, t) == {u \in Calls \ {t} : touched[u] \cap rows # {}}

SameHost(c) == {r \in Creates \ {c} : host[r] = host[c]}

(* The calls t waits for: those that hold a row it wants to change, and those*)
(* whose uncommitted entry, or uncommitted removal of an entry, decides what *)
(* a unique index says to it.                                                *)
WaitsFor(t) ==
  CASE at[t] = "lock"   -> Holders(seen[t], t)
    [] at[t] = "delete" -> Holders(target[t], t)
    [] at[t] = "insert" -> Holders(SameHost(t) \cap Live, t)
                             \cup {u \in SameHost(t) : at[u] \in {"index", "commit"}}
    [] at[t] = "index"  -> Holders(Primaries, t)
                             \cup {u \in Creates \ {t} : at[u] = "commit" /\ primary[u]}
    [] OTHER -> {}

(* t waits for itself, through others: it is in every set that holds the     *)
(* calls it waits for and those that they wait for.                          *)
Deadlocked(t) ==
  \A S \in SUBSET Calls :
    WaitsFor(t) \subseteq S /\ (\A u \in S : WaitsFor(u) \subseteq S) => t \in S

Ends(t, answer) ==
  /\ at' = [at EXCEPT ![t] = answer]
  /\ touched' = [touched EXCEPT ![t] = {}]

RollbackForgotten(t, answer) ==  \* mutant: no deferred tx.Rollback
  /\ at' = [at EXCEPT ![t] = answer]
  /\ UNCHANGED touched

Rollback(t, answer) == Ends(t, answer)

----------------------------------------------------------------------------
(* Create *)

BeginCreate(c) ==
  /\ at[c] = "idle"
  /\ at' = [at EXCEPT ![c] = "count"]
  /\ UNCHANGED <<row, host, primary, target, touched, seen, before, blame, orphaned>>

(* The first domain is primary, whatever the caller wants.                   *)
Count(c) ==
  /\ at[c] = "count"
  /\ before' = [before EXCEPT ![c] = {r \in Creates : row[r] # "none"}]
  /\ primary' = [primary EXCEPT ![c] = @ \/ Live = {}]
  /\ at' = [at EXCEPT ![c] = IF Live # {} /\ primary[c] THEN "demote" ELSE "insert"]
  /\ UNCHANGED <<row, host, target, touched, seen, blame, orphaned>>

(* UPDATE ... WHERE is_primary = TRUE: the rows it finds.                    *)
DemoteFind(c) ==
  /\ at[c] = "demote"
  /\ seen' = [seen EXCEPT ![c] = Primaries]
  /\ at' = [at EXCEPT ![c] = "lock"]
  /\ UNCHANGED <<row, host, primary, target, touched, before, blame, orphaned>>

DemoteNothing(c) ==  \* mutant: the demotion is left to the caller
  /\ at[c] = "lock"
  /\ at' = [at EXCEPT ![c] = "insert"]
  /\ UNCHANGED <<row, host, primary, target, touched, seen, before, blame, orphaned>>

DemoteAtOnce(c) ==  \* mutant: the UPDATE goes to the pool and not to the transaction
  /\ at[c] = "lock"
  /\ WaitsFor(c) = {}
  /\ primary' = [r \in Creates |-> primary[r] /\ r \notin seen[c]]
  /\ at' = [at EXCEPT ![c] = "insert"]
  /\ UNCHANGED <<row, host, target, touched, seen, before, blame, orphaned>>

(* Having waited for a row, the UPDATE looks at it again, and at no other.   *)
Demote(c) ==
  /\ at[c] = "lock"
  /\ WaitsFor(c) = {}
  /\ touched' = [touched EXCEPT ![c] = seen[c] \cap Primaries]
  /\ at' = [at EXCEPT ![c] = "insert"]
  /\ UNCHANGED <<row, host, primary, target, seen, before, blame, orphaned>>

Conflict(c, rows) ==
  /\ Rollback(c, "conflict")
  /\ blame' = [blame EXCEPT ![c] = rows]
  /\ UNCHANGED <<row, host, primary, target, seen, before, orphaned>>

Passes(c, next) ==
  /\ at' = [at EXCEPT ![c] = next]
  /\ UNCHANGED <<row, host, primary, target, touched, seen, before, blame, orphaned>>

InsertUnlocked(c) ==  \* mutant: a query for the hostname in the place of its index
  LET taken == SameHost(c) \cap Live IN
  /\ at[c] = "insert"
  /\ \/ taken = {} /\ Passes(c, IF primary[c] THEN "index" ELSE "commit")
     \/ taken # {} /\ Conflict(c, taken)

(* UNIQUE (site_id, hostname)                                                *)
InsertHostname(c) ==
  LET taken == SameHost(c) \cap Live IN
  /\ at[c] = "insert"
  /\ WaitsFor(c) = {}
  /\ \/ taken = {} /\ Passes(c, IF primary[c] THEN "index" ELSE "commit")
     \/ taken # {} /\ Conflict(c, taken)

InsertUnchecked(c) ==  \* mutant: no unique index on the primaries
  at[c] = "index" /\ Passes(c, "commit")

(* UNIQUE (site_id) WHERE is_primary                                         *)
InsertPrimary(c) ==
  LET taken == Primaries \ touched[c] IN
  /\ at[c] = "index"
  /\ WaitsFor(c) = {}
  /\ \/ taken = {} /\ Passes(c, "commit")
     \/ taken # {} /\ Conflict(c, taken)

(* The answer to the COMMIT may be lost.                                     *)
CommitCreate(c) ==
  /\ at[c] = "commit"
  /\ row' = [row EXCEPT ![c] = "live"]
  /\ primary' = [r \in Creates |-> primary[r] /\ r \notin touched[c]]
  /\ \E answer \in {"created", "failed"} : Ends(c, answer)
  /\ UNCHANGED <<host, target, seen, before, blame, orphaned>>

----------------------------------------------------------------------------
(* Delete *)

(* The caller has the id from an earlier answer.                             *)
BeginDelete(d, r) ==
  /\ at[d] = "idle"
  /\ row[r] # "none"
  /\ target' = [target EXCEPT ![d] = {r}]
  /\ at' = [at EXCEPT ![d] = "delete"]
  /\ UNCHANGED <<row, host, primary, touched, seen, before, blame, orphaned>>

DeleteRow(d) ==
  /\ at[d] = "delete"
  /\ WaitsFor(d) = {}
  /\ \/ /\ target[d] \subseteq Live
        /\ at' = [at EXCEPT ![d] = "commit"]
        /\ touched' = [touched EXCEPT ![d] = target[d]]
     \/ /\ ~(target[d] \subseteq Live)
        /\ Rollback(d, "notFound")
  /\ UNCHANGED <<row, host, primary, target, seen, before, blame, orphaned>>

CommitDelete(d) ==
  /\ at[d] = "commit"
  /\ row' = [r \in Creates |-> IF r \in touched[d] THEN "gone" ELSE row[r]]
  /\ orphaned' = (orphaned \/ \E r \in touched[d] : primary[r])
  /\ \E answer \in {"deleted", "failed"} : Ends(d, answer)
  /\ UNCHANGED <<host, primary, target, seen, before, blame>>

----------------------------------------------------------------------------

(* A connection or a context ends.                                           *)
Fail(t) ==
  /\ at[t] \in Running
  /\ Rollback(t, "failed")
  /\ UNCHANGED <<row, host, primary, target, seen, before, blame, orphaned>>

(* Postgres ends one of the calls that wait for each other with an error     *)
(* that is not a unique violation.                                           *)
BreakDeadlock(t) == Deadlocked(t) /\ Fail(t)

CreateStep(c) ==
  \/ Count(c) \/ DemoteFind(c) \/ Demote(c)
  \/ InsertHostname(c) \/ InsertPrimary(c) \/ CommitCreate(c)

DeleteStep(d) == DeleteRow(d) \/ CommitDelete(d)

Next ==
  \/ \E c \in Creates : BeginCreate(c) \/ CreateStep(c) \/ Fail(c)
  \/ \E d \in Deletes : (\E r \in Creates : BeginDelete(d, r)) \/ DeleteStep(d) \/ Fail(d)
  \/ \E t \in Calls : BreakDeadlock(t)

(* A call that has begun goes on as long as it need not wait; none has to    *)
(* begin, and none has to fail unless it waits for itself.                   *)
Fairness ==
  /\ \A c \in Creates : WF_vars(CreateStep(c))
  /\ \A d \in Deletes : WF_vars(DeleteStep(d))
  /\ \A t \in Calls : WF_vars(BreakDeadlock(t))

Spec == Init /\ [][Next]_vars /\ Fairness

----------------------------------------------------------------------------
(* Properties *)

TypeOK ==
  /\ row \in [Creates -> {"none", "live", "gone"}]
  /\ host \in [Creates -> Hosts]
  /\ primary \in [Creates -> BOOLEAN]
  /\ target \in [Deletes -> SUBSET Creates]
  /\ at \in [Calls -> Running \cup {"idle", "created", "deleted", "conflict",
                                    "notFound", "failed"}]
  /\ touched \in [Calls -> SUBSET Creates]
  /\ seen \in [Creates -> SUBSET Creates]
  /\ before \in [Creates -> SUBSET Creates]
  /\ blame \in [Creates -> SUBSET Creates]
  /\ orphaned \in BOOLEAN
  /\ \A t \in Calls : touched[t] # {} => at[t] \in {"insert", "index", "commit"}

(* 0001_init.up.sql:79 "A site can have at most one primary domain", while   *)
(* calls that demote, insert and delete overlap.                             *)
OnePrimary == \A r, s \in Primaries : r = s

(* A site that has domains has a primary one, unless the primary was deleted:*)
(* Delete promotes no other, but nothing else leaves a site without one,     *)
(* neither a Create that fails after it has demoted nor two that overlap.    *)
PrimaryRemains == Live # {} /\ ~orphaned => Primaries # {}

(* domains.go:48 "Returns ErrConflict when the (site_id, hostname) pair       *)
(* already exists", which is also what the client is told (util.go:47).  It  *)
(* does not exist in one case, the only one: a domain to be primary lost to  *)
(* another that was committed as the primary after this call had counted.    *)
(* Calls that do not overlap never meet the partial index (domains.go:64).   *)
ConflictExplained ==
  \A c \in Creates :
    at[c] = "conflict" =>
      \/ \E r \in blame[c] : host[r] = host[c]
      \/ primary[c] /\ \E r \in blame[c] : r \notin before[c]

(* No call waits for ever: one that ends lets go of its rows whatever it     *)
(* answers, and two Creates that wait for each other, one for a hostname and *)
(* one for the place of the primary, are not left to themselves.             *)
CallsEnd == \A t \in Calls : at[t] \in Running ~> at[t] \notin Running

(* Whatever their statements see of each other, the calls implement           *)
(* DomainsContract: each takes effect in one step, its COMMIT, which adds a   *)
(* domain of a new hostname and, if it is to be primary, takes the place of   *)
(* whatever is primary at that moment, or removes the domain asked for; and a *)
(* call that answers ErrConflict or ErrNotFound has left nothing behind.      *)
answerOf == [t \in Calls |-> IF at[t] \in Running \cup {"idle"} THEN "none" ELSE at[t]]

Contract == INSTANCE DomainsContract
              WITH live <- Live, primaries <- Primaries, answer <- answerOf

AtomicCalls == Contract!Spec
=============================================================================
