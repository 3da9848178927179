----------------------------- MODULE Deployment -----------------------------
(***************************************************************************)
(* The whole start of a deployment: FirstStart and Migrations together.    *)
(* serve opens, and so migrates, the database before it loads the users    *)
(* file and the master key, and closes it when it ends; a failed Open ends *)
(* it.  doctor, and init at its end, open the database as well and close   *)
(* it at once: to the others they are a container killed at that point.    *)
(***************************************************************************)
EXTENDS FirstStart, Migrations

ASSUME DeploymentAssumption == Openers = Containers

deploymentVars == <<vars, migrationVars>>

\* A step of the container outside of sqlite.Open.
Outside(c) ==
    \/ Start(c) \/ Check(c) \/ Mkdir(c) \/ Recheck(c) \/ Unlock(c)
    \/ WaitSees(c) \/ WaitTimesOut(c) \/ Stat(c) \/ WriteToken(c) \/ WriteUsers(c)

\* serve calls sqlite.Open.
ServeOpens(c) ==
    /\ pc[c] = "load"
    /\ OpenStep(c)
    /\ UNCHANGED vars

\* Another process was faster: serve exits.
ServeConflicts(c) == RecordFails(c) /\ OpenFails(c)

\* Mutant of StoreReady: the users file is loaded before the store is open.
StoreNotAwaited(c) == TRUE

\* runServe goes on once it has the store.
StoreReady(c) == at[c] = "open"

\* The rest of runServe; the deferred Close runs when it gives up.
ServeGoesOn(c) ==
    /\ StoreReady(c)
    /\ LoadUsers(c) \/ ReadKey(c) \/ RenameKey(c)
    /\ IF pc'[c] = "down" THEN CloseStore(c) ELSE UNCHANGED migrationVars

\* Kill and BootstrapFails of FirstStart; the store goes with the process.  An
\* Open that fails is among them: Kill covers any step of serve.
Dies(c) ==
    \/ Kill(c) /\ (AbandonOpen(c) \/ CloseStore(c))
    \/ Kill(c) /\ at[c] = "closed" /\ UNCHANGED migrationVars
    \/ BootstrapFails(c) /\ UNCHANGED migrationVars

DeploymentInit == Init /\ MigrationsInit

Alone(c) == Outside(c) /\ UNCHANGED migrationVars

Progress(c) == Alone(c) \/ ServeOpens(c) \/ ServeConflicts(c) \/ ServeGoesOn(c)

DeploymentNext ==
    \/ \E c \in Containers :
         Progress(c) \/ Dies(c) \/ (StoreRow(c) /\ UNCHANGED migrationVars)
    \/ (RemoveStaleLock \/ DeleteToken \/ InitStep \/ InitKilled) /\ UNCHANGED migrationVars

DeploymentSpec == DeploymentInit /\ [][DeploymentNext]_deploymentVars

\* The scheduler runs processes, the supervisor restarts containers, and the
\* operator does what the timeout message asks for and lets init finish.
Fairness ==
    /\ \A c \in Containers : WF_deploymentVars(Progress(c))
    /\ WF_deploymentVars(RemoveStaleLock /\ UNCHANGED migrationVars)
    /\ WF_deploymentVars(InitStep /\ UNCHANGED migrationVars)

FairDeploymentSpec == DeploymentSpec /\ Fairness
----------------------------------------------------------------------------
DeploymentTypeOK == TypeOK /\ MigrationsTypeOK

\* Once kills and failures cease, every container ends up serving: also when a
\* bootstrap was killed and left its lock directory behind, and when migrations
\* raced and one of the processes had to start over.  The one exception is a file
\* that a killed init left torn: every start refuses it.
EventuallyServes ==
    \A c \in Containers : <>[](pc[c] = "up" \/ Torn \in {users, keyFile})

\* A server that is up has a store with the schema of its release, and nobody
\* undoes it later.
ServesItsSchema ==
    \A c \in Containers : pc[c] = "up" => at[c] = "open" /\ 1..Latest[c] \subseteq recorded
=============================================================================
