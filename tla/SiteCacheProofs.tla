-------------------------- MODULE SiteCacheProofs --------------------------
(***************************************************************************)
(* Theorems about SiteCache for any number of lookups and admin requests   *)
(* and any lifetimes: how old a cached site may be.                        *)
(***************************************************************************)
EXTENDS SiteCache, SequenceTheorems, TLAPS

(* Type correctness: the cache, the calls and the clock keep their shapes.   *)
LEMMA TypeInit == Init => TypeOK
<1> SUFFICES ASSUME Init PROVE TypeOK
  OBVIOUS
<1>0. wrote \in Seq(Nat)
  BY EmptySeq DEF Init
<1>1. /\ now \in Nat
      /\ hasDomain \in BOOLEAN
      /\ deleted \in BOOLEAN
      /\ invalidated \in Nat
  BY DEF Init
<1>2. /\ entry \in [held : BOOLEAN, found : BOOLEAN, ver : Nat, expiresAt : Nat,
                    raced : BOOLEAN]
      /\ admin \in [Admins -> Nat]
  BY DEF Init, NoEntry, NoWrite
<1>3. lookup \in [Lookups -> [at : {"idle", "query", "put"}, found : BOOLEAN,
                             ver : Nat, readAt : Nat, raced : BOOLEAN]]
  BY DEF Init, Idle
<1> QED
  BY <1>0, <1>1, <1>2, <1>3 DEF TypeOK

LEMMA TypeStep == TypeOK /\ [Next]_vars => TypeOK'
<1> SUFFICES ASSUME TypeOK, [Next]_vars PROVE TypeOK'
  OBVIOUS
<1> USE CacheAssumption DEF TypeOK
<1>1. ASSUME NEW l \in Lookups, Miss(l) \/ Answered(l) \/ QueryFails(l) \/ Put(l)
      PROVE  TypeOK'
  <2>1. CASE Miss(l)
    BY <2>1 DEF Miss
  <2>2. CASE Answered(l)
    BY <2>2 DEF Answered, InView, Version
  <2>3. CASE QueryFails(l)
    BY <2>3 DEF QueryFails, Idle
  <2>4. CASE Put(l)
    BY <2>4 DEF Put, Lifetime, Idle
  <2> QED
    BY <1>1, <2>1, <2>2, <2>3, <2>4
<1>2. ASSUME NEW domain \in BOOLEAN, WriteQuietly(domain) PROVE TypeOK'
  BY <1>2 DEF WriteQuietly
<1>3. ASSUME NEW a \in Admins, PatchSite(a) \/ DeleteSite(a) PROVE TypeOK'
  <2>0. wrote' = Append(wrote, now)
    BY <1>3 DEF PatchSite, DeleteSite
  <2>1. Version + 1 \in Nat /\ wrote' \in Seq(Nat)
    BY <2>0 DEF Version
  <2>2. admin' \in [Admins -> Nat]
    BY <1>3, <2>1 DEF PatchSite, DeleteSite
  <2>3. deleted' \in BOOLEAN
    BY <1>3 DEF PatchSite, DeleteSite
  <2> QED
    BY <1>3, <2>1, <2>2, <2>3 DEF PatchSite, DeleteSite
<1>4. ASSUME NEW a \in Admins, Invalidate(a) PROVE TypeOK'
  BY <1>4 DEF Invalidate, NoEntry, NoWrite, Later
<1>5. CASE Advance
  BY <1>5 DEF Advance
<1>6. CASE UNCHANGED vars
  BY <1>6 DEF vars
<1> QED
  BY <1>1, <1>2, <1>3, <1>4, <1>5, <1>6 DEF Next

THEOREM TypeCorrect == Spec => []TypeOK
BY TypeInit, TypeStep, PTL DEF Spec

----------------------------------------------------------------------------
(* Version v was still the current one at time t.                            *)
CurrentAt(v, t) == v <= Len(wrote) /\ (v < Len(wrote) => wrote[v + 1] >= t)

(* A row in the hands of a lookup was current when it was read, at most      *)
(* MaxLatency ago.                                                           *)
LookupInv ==
  \A l \in Lookups : lookup[l].at = "put" =>
    /\ lookup[l].readAt <= now
    /\ now <= lookup[l].readAt + MaxLatency
    /\ CurrentAt(lookup[l].ver, lookup[l].readAt)

(* A cached row was current its lifetime plus MaxLatency before its expiry.  *)
EntryInv ==
  entry.held =>
    /\ entry.ver <= Len(wrote)
    /\ entry.expiresAt <= now + Lifetime(entry.found)
    /\ entry.ver < Len(wrote) =>
         wrote[entry.ver + 1] + Lifetime(entry.found) + MaxLatency >= entry.expiresAt

AgeInv == TypeOK /\ LookupInv /\ EntryInv

LEMMA AgeInit == Init => AgeInv
BY TypeInit DEF Init, AgeInv, LookupInv, EntryInv, Idle, NoEntry

(* A write does not make an earlier version older than now.                  *)
LEMMA WriteKeepsAges ==
  ASSUME AgeInv, wrote' = Append(wrote, now), UNCHANGED <<now, lookup, entry>>
  PROVE  LookupInv' /\ EntryInv'
<1> USE CacheAssumption DEF AgeInv, TypeOK
<1>1. /\ Len(wrote') = Len(wrote) + 1
      /\ \A i \in 1 .. Len(wrote) : wrote'[i] = wrote[i]
      /\ wrote'[Len(wrote) + 1] = now
  BY AppendProperties
<1>2. LookupInv'
  <2> SUFFICES ASSUME NEW l \in Lookups, lookup[l].at = "put"
               PROVE  /\ lookup[l].readAt <= now
                      /\ now <= lookup[l].readAt + MaxLatency
                      /\ CurrentAt(lookup[l].ver, lookup[l].readAt)'
    BY DEF LookupInv
  <2>1. /\ lookup[l].readAt <= now
        /\ now <= lookup[l].readAt + MaxLatency
        /\ lookup[l].ver <= Len(wrote)
        /\ lookup[l].ver < Len(wrote) => wrote[lookup[l].ver + 1] >= lookup[l].readAt
    BY DEF LookupInv, CurrentAt
  <2>2. lookup[l].ver \in Nat
    OBVIOUS
  <2>3. CurrentAt(lookup[l].ver, lookup[l].readAt)'
    BY <1>1, <2>1, <2>2 DEF CurrentAt
  <2> QED
    BY <2>1, <2>3
<1>3. EntryInv'
  <2> SUFFICES ASSUME entry.held
               PROVE  EntryInv'
    BY DEF EntryInv
  <2>1. /\ entry.ver <= Len(wrote)
        /\ entry.expiresAt <= now + Lifetime(entry.found)
        /\ entry.ver < Len(wrote) =>
             wrote[entry.ver + 1] + Lifetime(entry.found) + MaxLatency >= entry.expiresAt
    BY DEF EntryInv
  <2>2. entry.ver \in Nat /\ entry.expiresAt \in Nat /\ Lifetime(entry.found) \in Nat
    BY DEF Lifetime
  <2>3. wrote'[entry.ver + 1] + Lifetime(entry.found) + MaxLatency >= entry.expiresAt
    <3>1. CASE entry.ver < Len(wrote)
      BY <1>1, <2>1, <2>2, <3>1, SMTT(20)
    <3>2. CASE entry.ver = Len(wrote)
      BY <1>1, <2>1, <2>2, <3>2
    <3> QED
      BY <2>1, <2>2, <3>1, <3>2
  <2> QED
    BY <1>1, <2>1, <2>2, <2>3 DEF EntryInv, Lifetime
<1> QED
  BY <1>2, <1>3

LEMMA AgeStep == AgeInv /\ [Next]_vars => AgeInv'
<1> SUFFICES ASSUME AgeInv, [Next]_vars PROVE LookupInv' /\ EntryInv'
  BY TypeStep DEF AgeInv
<1> USE CacheAssumption DEF TypeOK, AgeInv
<1>1. ASSUME NEW l \in Lookups, Miss(l) \/ QueryFails(l)
      PROVE  LookupInv' /\ EntryInv'
  <2>1. EntryInv'
    BY <1>1 DEF Miss, QueryFails, EntryInv, Lifetime
  <2>2. lookup'[l].at # "put"
    BY <1>1 DEF Miss, QueryFails, Idle
  <2>3. \A m \in Lookups : m # l => lookup'[m] = lookup[m]
    BY <1>1 DEF Miss, QueryFails
  <2>4. now' = now /\ wrote' = wrote
    BY <1>1 DEF Miss, QueryFails
  <2>5. LookupInv'
    BY <2>2, <2>3, <2>4 DEF LookupInv, CurrentAt
  <2> QED
    BY <2>1, <2>5
<1>2. ASSUME NEW l \in Lookups, Answered(l)
      PROVE  LookupInv' /\ EntryInv'
  BY <1>2 DEF Answered, Version, LookupInv, EntryInv, CurrentAt, Lifetime
<1>3. ASSUME NEW l \in Lookups, Put(l)
      PROVE  LookupInv' /\ EntryInv'
  <2>1. LookupInv'
    BY <1>3 DEF Put, Idle, LookupInv, CurrentAt
  <2>2. /\ lookup[l].readAt \in Nat /\ now \in Nat /\ lookup[l].ver \in Nat
        /\ Lifetime(lookup[l].found) \in Nat
    BY DEF Lifetime
  <2>3. /\ now <= lookup[l].readAt + MaxLatency
        /\ lookup[l].ver <= Len(wrote)
        /\ lookup[l].ver < Len(wrote) => wrote[lookup[l].ver + 1] >= lookup[l].readAt
    BY <1>3 DEF Put, LookupInv, CurrentAt
  <2>4. /\ entry'.ver = lookup[l].ver
        /\ entry'.expiresAt = now + Lifetime(lookup[l].found)
        /\ Lifetime(entry.found)' = Lifetime(lookup[l].found)
        /\ now' = now /\ wrote' = wrote
    BY <1>3 DEF Put, Lifetime
  <2>5. lookup[l].ver < Len(wrote) => wrote[lookup[l].ver + 1] \in Nat
    BY <2>2
  <2>6. EntryInv'
    BY <2>2, <2>3, <2>4, <2>5, SMTT(20) DEF EntryInv
  <2> QED
    BY <2>1, <2>6
<1>4. ASSUME NEW domain \in BOOLEAN, WriteQuietly(domain)
      PROVE  LookupInv' /\ EntryInv'
  BY <1>4, WriteKeepsAges DEF WriteQuietly
<1>5. ASSUME NEW a \in Admins, PatchSite(a) \/ DeleteSite(a)
      PROVE  LookupInv' /\ EntryInv'
  BY <1>5, WriteKeepsAges DEF PatchSite, DeleteSite
<1>6. ASSUME NEW a \in Admins, Invalidate(a)
      PROVE  LookupInv' /\ EntryInv'
  <2>1. now' = now /\ wrote' = wrote BY <1>6 DEF Invalidate
  <2>2. \A l \in Lookups : /\ lookup'[l].at = lookup[l].at
                          /\ lookup'[l].ver = lookup[l].ver
                          /\ lookup'[l].readAt = lookup[l].readAt
    BY <1>6 DEF Invalidate
  <2>3. LookupInv' BY <2>1, <2>2 DEF LookupInv, CurrentAt
  <2>4. EntryInv' BY <1>6 DEF Invalidate, NoEntry, EntryInv
  <2> QED BY <2>3, <2>4
<1>7. CASE Advance
  <2>1. LookupInv'
    BY <1>7 DEF Advance, LookupInv, CurrentAt
  <2>2. EntryInv'
    BY <1>7 DEF Advance, EntryInv, Lifetime
  <2> QED
    BY <2>1, <2>2
<1>8. CASE UNCHANGED vars
  BY <1>8 DEF vars, LookupInv, EntryInv, CurrentAt, Lifetime
<1> QED
  BY <1>1, <1>2, <1>3, <1>4, <1>5, <1>6, <1>7, <1>8 DEF Next

(* No hit is older than its lifetime and one lookup together.                *)
THEOREM BoundedStalenessCorrect == Spec => []BoundedStaleness
<1>1. AgeInv => BoundedStaleness
  <2> SUFFICES ASSUME AgeInv, Usable, entry.ver < Version
               PROVE  wrote[entry.ver + 1] + Lifetime(entry.found) + MaxLatency >= now
    BY DEF BoundedStaleness, Lifetime
  <2>1. wrote[entry.ver + 1] \in Nat /\ Lifetime(entry.found) \in Nat
    BY CacheAssumption DEF AgeInv, TypeOK, Version, Lifetime
  <2> QED
    BY <2>1, CacheAssumption DEF AgeInv, EntryInv, TypeOK, Usable, Version
<1> QED
  BY AgeInit, AgeStep, <1>1, PTL DEF Spec

----------------------------------------------------------------------------
(* Invalidate and the lookups it cannot reach                                *)

RaceInv ==
  /\ TypeOK
  /\ invalidated <= Len(wrote)
  /\ \A a \in Admins : admin[a] <= Len(wrote)
  /\ \A l \in Lookups :
       lookup[l].at = "put" /\ lookup[l].ver < invalidated => lookup[l].raced
  /\ entry.held /\ entry.ver < invalidated => entry.raced

LEMMA RaceInit == Init => RaceInv
<1> SUFFICES ASSUME Init PROVE RaceInv
  OBVIOUS
<1>1. TypeOK
  BY TypeInit
<1> QED
  BY <1>1 DEF Init, RaceInv, Idle, NoEntry, NoWrite

LEMMA RaceStep == RaceInv /\ [Next]_vars => RaceInv'
<1> SUFFICES ASSUME RaceInv, [Next]_vars PROVE RaceInv'
  OBVIOUS
<1>0. TypeOK'
  BY TypeStep DEF RaceInv
<1> USE CacheAssumption, <1>0 DEF TypeOK, RaceInv
<1>1. ASSUME NEW l \in Lookups, Miss(l) \/ QueryFails(l) \/ Put(l)
      PROVE  RaceInv'
  <2>1. /\ lookup'[l].at # "put"
        /\ \A m \in Lookups : m # l => lookup'[m] = lookup[m]
        /\ wrote' = wrote /\ admin' = admin /\ invalidated' = invalidated
    <3>1. lookup'[l].at # "put"
      BY <1>1, SMTT(20) DEF Miss, QueryFails, Put, Idle
    <3>2. \A m \in Lookups : m # l => lookup'[m] = lookup[m]
      BY <1>1 DEF Miss, QueryFails, Put
    <3>3. wrote' = wrote /\ admin' = admin /\ invalidated' = invalidated
      BY <1>1 DEF Miss, QueryFails, Put
    <3> QED
      BY <3>1, <3>2, <3>3
  <2>2. entry'.held /\ entry'.ver < invalidated => entry'.raced
    <3>1. CASE Put(l)
      <4>1. entry'.ver = lookup[l].ver /\ entry'.raced = lookup[l].raced
        BY <3>1 DEF Put
      <4> QED
        BY <3>1, <4>1 DEF Put
    <3>2. CASE Miss(l) \/ QueryFails(l)
      <4>1. entry' = entry
        BY <3>2 DEF Miss, QueryFails
      <4> QED
        BY <4>1
    <3> QED
      BY <1>1, <3>1, <3>2
  <2>3. \A m \in Lookups :
          lookup'[m].at = "put" /\ lookup'[m].ver < invalidated => lookup'[m].raced
    BY <2>1
  <2> QED
    BY <2>1, <2>2, <2>3
<1>2. ASSUME NEW l \in Lookups, Answered(l)
      PROVE  RaceInv'
  BY <1>2 DEF Answered, Version
<1>3. ASSUME NEW domain \in BOOLEAN, WriteQuietly(domain)
      PROVE  RaceInv'
  BY <1>3, AppendProperties DEF WriteQuietly
<1>4. ASSUME NEW a \in Admins, PatchSite(a) \/ DeleteSite(a)
      PROVE  RaceInv'
  <2>1. /\ Len(wrote') = Len(wrote) + 1
        /\ UNCHANGED <<lookup, entry, invalidated>>
    BY <1>4, AppendProperties DEF PatchSite, DeleteSite
  <2>2. \A b \in Admins : admin'[b] <= Len(wrote')
    <3> SUFFICES ASSUME NEW b \in Admins PROVE admin'[b] <= Len(wrote')
      OBVIOUS
    <3>1. admin'[b] = admin[b] \/ admin'[b] = Len(wrote) + 1
      BY <1>4 DEF PatchSite, DeleteSite, Version
    <3> QED
      BY <2>1, <3>1
  <2>3. invalidated' <= Len(wrote')
    BY <2>1
  <2>4. /\ \A l \in Lookups :
             lookup'[l].at = "put" /\ lookup'[l].ver < invalidated' => lookup'[l].raced
        /\ entry'.held /\ entry'.ver < invalidated' => entry'.raced
    BY <2>1
  <2> QED
    BY <2>2, <2>3, <2>4
<1>5. ASSUME NEW a \in Admins, Invalidate(a)
      PROVE  RaceInv'
  <2>1. \A l \in Lookups : lookup'[l].at = "put" => lookup'[l].raced
    BY <1>5, SMTT(20) DEF Invalidate
  <2>2. ~entry'.held
    BY <1>5 DEF Invalidate, NoEntry
  <2>3. wrote' = wrote /\ invalidated' <= Len(wrote)
    BY <1>5 DEF Invalidate, Later
  <2>4. \A b \in Admins : admin'[b] <= Len(wrote)
    BY <1>5 DEF Invalidate, NoWrite
  <2> QED
    BY <2>1, <2>2, <2>3, <2>4
<1>6. CASE Advance
  BY <1>6 DEF Advance
<1>7. CASE UNCHANGED vars
  BY <1>7 DEF vars
<1> QED
  BY <1>1, <1>2, <1>3, <1>4, <1>5, <1>6, <1>7 DEF Next

(* A site older than its last Invalidate comes from a lookup that had read   *)
(* its row before.                                                           *)
THEOREM OlderOnlyByRaceCorrect == Spec => []OlderOnlyByRace
<1>1. RaceInv => OlderOnlyByRace
  BY DEF RaceInv, OlderOnlyByRace, Usable
<1> QED
  BY RaceInit, RaceStep, <1>1, PTL DEF Spec
=============================================================================
