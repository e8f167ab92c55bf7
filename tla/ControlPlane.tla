---------------------------- MODULE ControlPlane ----------------------------
(***************************************************************************)
(* The control plane's database from its first migration to the calls that *)
(* change the domains of a site: the server, and with it every call, is    *)
(* there once migrate.sh has succeeded (docker-compose.yml, depends_on).   *)
(***************************************************************************)
EXTENDS Domains, Migrate

planeVars == <<vars, migrateVars>>

PlaneInit == Init /\ MigrateInit

(* Two bounds: calls are followed after a first run on a clean database that  *)
(* was not stopped, and no release is deployed once they have begun.         *)
Serving == api = FileCount /\ schema = AllFiles /\ runs = 1 /\ ~infra /\ step = "done"

Deploying == \A t \in Calls : at[t] = "idle"

Deploy == Deploying /\ MigrateNext /\ UNCHANGED vars

Serve == Serving /\ Next /\ UNCHANGED migrateVars

PlaneNext == Deploy \/ Serve

(* What Domains assumes of its calls; nothing of the script. *)
PlaneFairness ==
  /\ \A c \in Creates : WF_planeVars(Serving /\ CreateStep(c) /\ UNCHANGED migrateVars)
  /\ \A d \in Deletes : WF_planeVars(Serving /\ DeleteStep(d) /\ UNCHANGED migrateVars)
  /\ \A t \in Calls : WF_planeVars(Serving /\ BreakDeadlock(t) /\ UNCHANGED migrateVars)

PlaneSpec == PlaneInit /\ [][PlaneNext]_planeVars /\ PlaneFairness
=============================================================================
