----------------------------- MODULE Migrations -----------------------------
(***************************************************************************)
(* Starting processes bring the schema of their database up to date        *)
(* (migrations/migrations.go): under an advisory lock of their session     *)
(* they create it, refuse a newer one, or apply what is pending, each      *)
(* migration in a transaction that also records it.  A process may be      *)
(* killed at any time; its session outlives it for a while.                *)
(***************************************************************************)
EXTENDS Integers, Sequences

CONSTANTS
    Sessions,      \* one for each start of a process
    Binaries,
    Numbers,       \* of the migrations: the keys of migrationPaths
    None           \* nobody

ASSUME NumbersAssumption == Numbers \subseteq Nat \ {0}
ASSUME NoneAssumption == None \notin Sessions \cup Binaries

VARIABLES
    version,       \* SchemaVersion of each binary
    schema,        \* whether it exists, and build in params (Unrecorded: no row)
    baseline,      \* the version it was created with; only properties read it
    applied,       \* the migrations committed since; only properties read it
    lock,          \* the session that holds the advisory lock
    at,            \* where each session is
    current,       \* the version it goes on from
    binary,        \* what its process runs
    killed         \* its process is gone

dbVars == <<schema, baseline, applied>>
sessionVars == <<lock, at, current, binary, killed>>
migrationVars == <<version, dbVars, sessionVars>>

Unrecorded == -1

Target(s) == version[binary[s]]

Pending(s) == {m \in Numbers : current[s] < m /\ m <= Target(s)}

AnyOrder(s, m) == m \in Pending(s)   \* a mutant: without sort.Ints

(* The lowest of them, as the sorted loop takes them.                      *)
InOrder(s, m) == m \in Pending(s) /\ \A n \in Pending(s) : m <= n

Go(s, to) == at' = [at EXCEPT ![s] = to]

(* Apply returns: its deferred unlock runs.                                *)
Leave(s, to) ==
    /\ Go(s, to)
    /\ lock' = None
    /\ current' = [current EXCEPT ![s] = 0]

(* A process connects and asks for the lock.                               *)
Start(s, b) ==
    /\ at[s] = "none"
    /\ Go(s, "waiting")
    /\ binary' = [binary EXCEPT ![s] = b]
    /\ UNCHANGED <<version, dbVars, lock, current, killed>>

Unlocked == lock = None

GetLock(s) ==
    /\ at[s] = "waiting"
    /\ Unlocked
    /\ Go(s, "locked")
    /\ lock' = s
    /\ UNCHANGED <<version, dbVars, current, binary, killed>>

(* migrationContext ends before the lock is granted.                       *)
TimeOut(s) ==
    /\ at[s] = "waiting" /\ ~ killed[s]
    /\ Go(s, "timedOut")
    /\ UNCHANGED <<version, dbVars, lock, current, binary, killed>>

-----------------------------------------------------------------------------
(* With the lock.                                                          *)

FindNothing(s) ==
    /\ at[s] = "locked" /\ ~ killed[s]
    /\ ~ schema.exists
    /\ Go(s, "creating")
    /\ UNCHANGED <<version, dbVars, lock, current, binary, killed>>

(* The schema is from now on at version v.                                 *)
Begun(v) ==
    /\ schema' = [exists |-> TRUE, build |-> v]
    /\ baseline' = v

(* initializeSchema: the latest schema in one transaction.                 *)
CreateSchema(s) ==
    /\ at[s] = "creating"
    /\ Begun(Target(s))
    /\ current' = [current EXCEPT ![s] = Target(s)]
    /\ Go(s, "migrating")
    /\ UNCHANGED <<version, applied, lock, binary, killed>>

(* schemaVersion finds no row and inserts one.                             *)
Unnumbered(s) ==
    /\ at[s] = "locked" /\ ~ killed[s]
    /\ schema.exists /\ schema.build = Unrecorded

FindUnrecorded(s) ==
    /\ Unnumbered(s)
    /\ Begun(0)
    /\ current' = [current EXCEPT ![s] = 0]
    /\ Go(s, "migrating")
    /\ UNCHANGED <<version, applied, lock, binary, killed>>

(* The answer to the COMMIT or to the INSERT is lost: an error although it *)
(* took effect.                                                            *)
BeginUnanswered(s) ==
    /\ \/ at[s] = "creating" /\ ~ killed[s] /\ Begun(Target(s))
       \/ Unnumbered(s) /\ Begun(0)
    /\ Leave(s, "failed")
    /\ UNCHANGED <<version, applied, binary, killed>>

NeverNewer(s) == FALSE   \* a mutant: without currentVersion > targetVersion
Newer(s) == schema.build > Target(s)

Refuse(s) ==
    /\ at[s] = "locked" /\ ~ killed[s]
    /\ schema.exists /\ schema.build # Unrecorded
    /\ Newer(s)
    /\ Leave(s, "refused")
    /\ UNCHANGED <<version, dbVars, binary, killed>>

FindVersion(s) ==
    /\ at[s] = "locked" /\ ~ killed[s]
    /\ schema.exists /\ schema.build # Unrecorded
    /\ ~ Newer(s)
    /\ current' = [current EXCEPT ![s] = schema.build]
    /\ Go(s, "migrating")
    /\ UNCHANGED <<version, dbVars, lock, binary, killed>>

(* applyMigration: the script and the UPDATE ran; COMMIT is on its way.    *)
RunScript(s) ==
    /\ at[s] = "migrating" /\ ~ killed[s]
    /\ Pending(s) # {}
    /\ Go(s, "committing")
    /\ UNCHANGED <<version, dbVars, lock, current, binary, killed>>

(* A statement or COMMIT fails, or is cut off by the deadline.             *)
MigrationFails(s) ==
    /\ at[s] \in {"locked", "creating", "migrating", "committing"} /\ ~ killed[s]
    /\ at[s] = "migrating" => Pending(s) # {}
    /\ Leave(s, "failed")
    /\ UNCHANGED <<version, dbVars, binary, killed>>

Recorded(m) == schema' = [schema EXCEPT !.build = m]

CommitOf(s, m) ==
    /\ InOrder(s, m)
    /\ Recorded(m)
    /\ applied' = Append(applied, m)

Commit(s) == \E m \in Numbers :
    /\ at[s] = "committing"
    /\ CommitOf(s, m)
    /\ current' = [current EXCEPT ![s] = m]
    /\ Go(s, "migrating")
    /\ UNCHANGED <<version, baseline, lock, binary, killed>>

(* The answer to COMMIT is lost.                                           *)
CommitUnanswered(s) == \E m \in Numbers :
    /\ at[s] = "committing" /\ ~ killed[s]
    /\ CommitOf(s, m)
    /\ Leave(s, "failed")
    /\ UNCHANGED <<version, baseline, binary, killed>>

Finish(s) ==
    /\ at[s] = "migrating" /\ ~ killed[s]
    /\ Pending(s) = {}
    /\ Leave(s, "serving")
    /\ UNCHANGED <<version, dbVars, binary, killed>>

-----------------------------------------------------------------------------
InApply == {"waiting", "locked", "creating", "migrating", "committing"}

(* The process ends, wherever it is.                                       *)
Kill(s) ==
    /\ at[s] # "none" /\ ~ killed[s]
    /\ killed' = [killed EXCEPT ![s] = TRUE]
    /\ at' = [at EXCEPT ![s] = IF @ \in InApply THEN @ ELSE "gone"]
    /\ UNCHANGED <<version, dbVars, lock, current, binary>>

(* PostgreSQL notices: the session ends, rolls back and frees the lock.    *)
Vanish(s) ==
    /\ at[s] \in InApply /\ killed[s]
    /\ Go(s, "gone")
    /\ lock' = IF lock = s THEN None ELSE lock
    /\ current' = [current EXCEPT ![s] = 0]
    /\ UNCHANGED <<version, dbVars, binary, killed>>

InitMigrations ==
    /\ version \in [Binaries -> Numbers]
    /\ schema \in {[exists |-> FALSE, build |-> Unrecorded],
                   [exists |-> TRUE, build |-> Unrecorded]}
                  \cup [exists : {TRUE}, build : Numbers]
    /\ baseline = schema.build
    /\ applied = <<>>
    /\ lock = None
    /\ at = [s \in Sessions |-> "none"]
    /\ current = [s \in Sessions |-> 0]
    /\ binary = [s \in Sessions |-> None]
    /\ killed = [s \in Sessions |-> FALSE]

Progress(s) ==
    \/ GetLock(s)
    \/ FindNothing(s) \/ CreateSchema(s)
    \/ FindUnrecorded(s) \/ Refuse(s) \/ FindVersion(s)
    \/ RunScript(s) \/ Commit(s) \/ Finish(s)
    \/ Vanish(s)

Failure(s) ==
    TimeOut(s) \/ BeginUnanswered(s) \/ MigrationFails(s) \/ CommitUnanswered(s)

NextMigrations == \E s \in Sessions :
    \/ \E b \in Binaries : Start(s, b)
    \/ Progress(s) \/ Failure(s) \/ Kill(s)

SpecMigrations == InitMigrations /\ [][NextMigrations]_migrationVars

-----------------------------------------------------------------------------
(* Properties.                                                             *)

(* Each migration newer than the schema was committed once, in ascending   *)
(* order, and the recorded version says which: through overlapping starts, *)
(* killed processes, failures and lost answers.                            *)
AppliedOnce ==
    /\ \A i, j \in 1 .. Len(applied) : i < j => applied[i] < applied[j]
    /\ \A m \in Numbers :
          (\E i \in 1 .. Len(applied) : applied[i] = m)
          <=> (baseline < m /\ m <= schema.build)

(* A process serves only after it saw the schema at exactly its version,   *)
(* and nobody can change that before its Apply is over.                    *)
ServesOwnSchema ==
    [][\A s \in Sessions : at[s] # "serving" /\ at'[s] = "serving"
          => schema.build = Target(s)]_migrationVars
=============================================================================
