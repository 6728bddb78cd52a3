----------------------------- MODULE Deployment -----------------------------
(***************************************************************************)
(* Deployments (deploy/deploy-goexpenses.sh): the script installs a staged *)
(* binary, restarts the service and waits for it to become healthy; else   *)
(* it puts the previous binary back.  The service migrates the schema as   *)
(* it starts (Migrations), however long that takes.                        *)
(***************************************************************************)
EXTENDS Migrations

CONSTANT
    Old            \* the binary installed first

ASSUME OldAssumption == Old \in Binaries

VARIABLES
    broken,        \* binaries that are never healthy
    installed,     \* target_binary
    backup,        \* backup_binary
    proven,        \* it was healthy when it was replaced; only properties read it
    unit,          \* the session of the process the service runs
    script         \* where the script is

deployVars == <<broken, installed, backup, proven, unit, script>>
allVars == <<migrationVars, deployVars>>

Running == unit # None /\ ~ killed[unit]
Healthy == Running /\ at[unit] = "serving" /\ binary[unit] \notin broken

NewSession == CHOOSE s \in Sessions : at[s] = "none"

(* Backup, then an atomic mv.                                              *)
Install(b) ==
    /\ script = "idle"
    /\ b # installed
    /\ backup' = installed
    /\ proven' = (Healthy /\ binary[unit] = installed)
    /\ installed' = b
    /\ script' = "restart"
    /\ UNCHANGED <<migrationVars, broken, unit>>

(* systemctl restart stops the old process ...                             *)
Stop ==
    /\ script \in {"restart", "restartOld"}
    /\ Running
    /\ Kill(unit)
    /\ UNCHANGED deployVars

(* ... and starts what is installed.                                       *)
StartUnit ==
    /\ script \in {"restart", "restartOld"}
    /\ ~ Running
    /\ \E s \in Sessions : at[s] = "none"
    /\ Start(NewSession, installed)
    /\ unit' = NewSession
    /\ script' = IF script = "restart" THEN "wait" ELSE "waitOld"
    /\ UNCHANGED <<broken, installed, backup, proven>>

(* The staged binary does not run here: restart reports an error.          *)
StartFails ==
    /\ script = "restart"
    /\ ~ Running
    /\ installed \in broken
    /\ unit' = None
    /\ script' = "restore"
    /\ UNCHANGED <<migrationVars, broken, installed, backup, proven>>

(* wait_for_health.                                                        *)
HealthPassed ==
    /\ script \in {"wait", "waitOld"}
    /\ Healthy
    /\ script' = IF script = "wait" THEN "deployed" ELSE "restored"
    /\ UNCHANGED <<migrationVars, broken, installed, backup, proven, unit>>

HealthTimedOut ==
    /\ script \in {"wait", "waitOld"}
    /\ ~ Healthy
    /\ script' = IF script = "wait" THEN "restore" ELSE "down"
    /\ UNCHANGED <<migrationVars, broken, installed, backup, proven, unit>>

Forgotten == installed   \* a mutant: restarts without copying the backup
PutBack == backup

(* restore_previous_binary.                                                *)
Restore ==
    /\ script = "restore"
    /\ installed' = PutBack
    /\ script' = "restartOld"
    /\ UNCHANGED <<migrationVars, broken, backup, proven, unit>>

(* The connection the script runs in is cut; it leaves things as they are. *)
ScriptDies ==
    /\ script \in {"restart", "wait", "restore", "restartOld", "waitOld"}
    /\ script' = "idle"
    /\ UNCHANGED <<migrationVars, broken, installed, backup, proven, unit>>

Again ==
    /\ script \in {"deployed", "restored", "down"}
    /\ \E s \in Sessions : at[s] = "none"
    /\ script' = "idle"
    /\ UNCHANGED <<migrationVars, broken, installed, backup, proven, unit>>

InitDeployment ==
    /\ InitMigrations
    /\ broken \in SUBSET (Binaries \ {Old})
    /\ installed = Old
    /\ backup = Old
    /\ proven = FALSE
    /\ unit = None
    /\ script = "restart"

ScriptStep ==
    \/ Stop \/ StartUnit \/ StartFails
    \/ HealthPassed \/ HealthTimedOut \/ Restore

NextDeployment ==
    \/ \E s \in Sessions : (Progress(s) \/ Failure(s)) /\ UNCHANGED deployVars
    \/ \E b \in Binaries : Install(b)
    \/ ScriptStep
    \/ ScriptDies \/ Again

SpecDeployment == InitDeployment /\ [][NextDeployment]_allVars

(* Statements, and sessions without a process, end.                        *)
SessionStep(s) == Progress(s) /\ UNCHANGED deployVars

FairDeployment == SpecDeployment /\ \A s \in Sessions : WF_allVars(SessionStep(s))

-----------------------------------------------------------------------------
(* A binary that served before and is put back serves again, unless the    *)
(* failed release changed the schema, the database failed it or kept it    *)
(* waiting for the lock, or another deployment began (README.md, Versions).*)
RollbackWorks ==
    (script = "waitOld" /\ proven)
    ~> \/ Healthy /\ binary[unit] = backup
       \/ schema.build > version[backup]
       \/ unit # None /\ at[unit] \in {"failed", "timedOut"}
       \/ script = "restart"
=============================================================================
