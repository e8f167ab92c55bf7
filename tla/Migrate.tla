------------------------------ MODULE Migrate ------------------------------
(***************************************************************************)
(* deploy/migrate.sh: applies the files of migrations/postgres in order,   *)
(* each once, by the table schema_migrations, whenever `docker compose up` *)
(* runs it; the server starts when it has succeeded (docker-compose.yml).  *)
(*                                                                         *)
(* psql is told to run a file and the INSERT that records it in a single   *)
(* transaction.  Every file has a COMMIT of its own, which ends that       *)
(* transaction: the file is applied in one step and recorded in another.   *)
(* The script can be stopped anywhere, with the machine or alone.          *)
(***************************************************************************)
EXTENDS Naturals

CONSTANTS
  FileCount,   \* the files of the last release, numbered in their order
  RoleFile,    \* the file that creates the two roles unless they are there
  Repeatable,  \* the files that may be run again
  Needs,       \* for each file, those whose changes it builds on
  MaxRuns      \* bound on the runs of the script

AllFiles == 1 .. FileCount

ASSUME FileAssumption ==
  /\ FileCount \in Nat
  /\ RoleFile \in 2 .. FileCount
  /\ Needs \in [AllFiles -> SUBSET AllFiles]
  /\ \A f \in AllFiles : Needs[f] \subseteq 1 .. (f - 1)

(* The file of the roles also sets policies on every table before it.         *)
ASSUME RoleAssumption == Needs[RoleFile] = 1 .. (RoleFile - 1)

VARIABLES
  disk,      \* the files of the release that is checked out are 1 .. disk
  schema,    \* the files whose changes are committed
  recorded,  \* the versions in schema_migrations
  roles,     \* webalytics_app and webalytics_ingest exist
  infra,     \* they were there before the files
  step,      \* where the script stands, or how its last run ended
  file,      \* the file it is at
  api,       \* the number of files of the release that runs, 0 if none does
  runs,      \* the runs so far
  torn,      \* a run has met a database that is not Clean
  assumed    \* the files that an older, untracked database had not been given

migrateVars ==
  <<disk, schema, recorded, roles, infra, step, file, api, runs, torn, assumed>>

Stopped == {"off", "failed", "done"}

(* A new database, or one from before schema_migrations, of this release or   *)
(* of an older one.                                                          *)
MigrateInit ==
  /\ disk \in RoleFile .. FileCount
  /\ recorded = {}
  /\ \E k \in 0 .. disk :
       /\ schema = 1 .. k
       /\ assumed = IF k = 0 THEN {} ELSE (k + 1) .. disk
  /\ infra \in BOOLEAN
  /\ roles = (infra \/ RoleFile \in schema)
  /\ step = "off" /\ file = 1
  /\ api = 0 /\ runs = 0 /\ torn = FALSE

----------------------------------------------------------------------------

(* What a completed run leaves, and the untracked database that the script    *)
(* has in mind: "Assume all migration files on disk are already applied".    *)
Clean == recorded = schema \/ (recorded = {} /\ schema = 1 .. disk)

Up ==
  /\ step \in Stopped
  /\ runs < MaxRuns
  /\ runs' = runs + 1
  /\ step' = "look"
  /\ file' = 1
  /\ torn' = (torn \/ ~Clean)
  /\ UNCHANGED <<disk, schema, recorded, roles, infra, api, assumed>>

LookAway ==  \* mutant: the backfill is left out
  /\ step = "look"
  /\ step' = "check"
  /\ UNCHANGED <<disk, schema, recorded, roles, infra, file, api, runs, torn, assumed>>

(* No version is recorded, but the first file's organizations table is there. *)
Look ==
  /\ step = "look"
  /\ step' = IF recorded = {} /\ 1 \in schema THEN "backfill" ELSE "check"
  /\ UNCHANGED <<disk, schema, recorded, roles, infra, file, api, runs, torn, assumed>>

Backfill ==
  /\ step = "backfill"
  /\ recorded' = recorded \cup {file}
  /\ IF file < disk THEN file' = file + 1 /\ UNCHANGED step
                    ELSE file' = 1 /\ step' = "check"
  /\ UNCHANGED <<disk, schema, roles, infra, api, runs, torn, assumed>>

NextFile == IF file < disk THEN file' = file + 1 /\ step' = "check"
                           ELSE file' = file /\ step' = "passwords"

Check ==
  /\ step = "check"
  /\ IF file \in recorded THEN NextFile ELSE step' = "apply" /\ UNCHANGED file
  /\ UNCHANGED <<disk, schema, recorded, roles, infra, api, runs, torn, assumed>>

Runnable(f) == Needs[f] \subseteq schema /\ (f \in schema => f \in Repeatable)

(* The file's statements, up to its own COMMIT. *)
Apply ==
  /\ step = "apply"
  /\ Runnable(file)
  /\ schema' = schema \cup {file}
  /\ roles' = (roles \/ file = RoleFile)
  /\ step' = "record"
  /\ UNCHANGED <<disk, recorded, infra, file, api, runs, torn, assumed>>

(* ON_ERROR_STOP and set -e: psql leaves, which rolls the file back. *)
ApplyFails ==
  /\ step = "apply"
  /\ ~Runnable(file)
  /\ step' = "failed"
  /\ UNCHANGED <<disk, schema, recorded, roles, infra, file, api, runs, torn, assumed>>

RecordNothing ==  \* mutant: the INSERT is left out
  /\ step = "record"
  /\ NextFile
  /\ UNCHANGED <<disk, schema, recorded, roles, infra, api, runs, torn, assumed>>

Record ==
  /\ step = "record"
  /\ recorded' = recorded \cup {file}
  /\ NextFile
  /\ UNCHANGED <<disk, schema, roles, infra, api, runs, torn, assumed>>

(* ALTER ROLE fails without its role.  When it has gone through, compose      *)
(* starts the server of this release.                                        *)
Passwords ==
  /\ step = "passwords"
  /\ IF roles THEN step' = "done" /\ api' = disk ELSE step' = "failed" /\ UNCHANGED api
  /\ UNCHANGED <<disk, schema, recorded, roles, infra, file, runs, torn, assumed>>

----------------------------------------------------------------------------

(* The container is stopped, or loses its database. *)
Interrupt ==
  /\ step \notin Stopped
  /\ step' = "off"
  /\ UNCHANGED <<disk, schema, recorded, roles, infra, file, api, runs, torn, assumed>>

(* `docker compose down`, or the machine goes down. *)
Down ==
  /\ step \notin Stopped \/ api > 0
  /\ step' = "off"
  /\ api' = 0
  /\ UNCHANGED <<disk, schema, recorded, roles, infra, file, runs, torn, assumed>>

(* A release with another file is checked out beside the running server. *)
Upgrade ==
  /\ step = "done"
  /\ disk < FileCount
  /\ disk' = disk + 1
  /\ UNCHANGED <<schema, recorded, roles, infra, step, file, api, runs, torn, assumed>>

MigrateNext ==
  \/ Up \/ Look \/ Backfill \/ Check \/ Apply \/ ApplyFails \/ Record \/ Passwords
  \/ Interrupt \/ Down \/ Upgrade

----------------------------------------------------------------------------
(* Properties *)

(* docker-compose.yml:66 "so it won't start with a half-migrated schema":     *)
(* what the server needs is there, although a run that was stopped between a *)
(* file and its record makes the next one record files that were never run.  *)
(* Then it is the missing roles that keep the server from starting, unless   *)
(* they had been provisioned before (migrate.sh 22-33, 44-46, 50-53).  It    *)
(* does start half-migrated on an untracked database of an older release:    *)
(* the newer files of the release are recorded, and never run.               *)
StartsWhole == 1 .. api \subseteq schema \cup assumed \/ (infra /\ torn)

(* migrate.sh:2 "exactly once": a file is run a second time, or the script    *)
(* fails, only after a run was stopped with a file applied and not recorded, *)
(* or half-way through the backfill, or has met that older database.         *)
AgainOnlyTorn == step = "failed" \/ (step = "apply" /\ file \in schema) => torn

MigrateTypeOK ==
  /\ disk \in RoleFile .. FileCount
  /\ schema \subseteq AllFiles /\ recorded \subseteq AllFiles /\ assumed \subseteq AllFiles
  /\ roles \in BOOLEAN /\ infra \in BOOLEAN /\ torn \in BOOLEAN
  /\ step \in Stopped \cup {"look", "backfill", "check", "apply", "record", "passwords"}
  /\ file \in 1 .. disk
  /\ api \in 0 .. disk
  /\ runs \in Nat
=============================================================================
