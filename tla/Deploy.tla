------------------------------- MODULE Deploy -------------------------------
(***************************************************************************)
(* Migrations (migrate/migrate.go) and the life of the server's processes  *)
(* (cmd/tnserver/main.go).                                                 *)
(*                                                                         *)
(* A process serves, or migrates and exits.  The platform (.do/app.yaml)   *)
(* deploys a build by running it as a job that migrates and, if that ends  *)
(* well, as the new instance; once that is healthy it stops the old one.   *)
(* An operator may migrate by hand at any time.                            *)
(*                                                                         *)
(* A migration keeps one connection: an advisory lock of the session, and  *)
(* for each file a look at what is recorded or a transaction of its body   *)
(* and its record.  Whoever is interrupted loses the connection, and with  *)
(* it transaction and lock.  Files are numbered in the order of their      *)
(* names; of a body only that it was committed is kept.                    *)
(***************************************************************************)
EXTENDS Naturals, Sequences

CONSTANTS
  Build,
  MaxFile,     \* bound: migration files of all the builds
  Sum,         \* Sum[b][f]: the checksum of file f in build b, 0 where b has none
  Job,         \* migrating processes
  PreDeploy,   \* the platform's; the others are run by hand
  Instance,    \* serving processes
  None,        \* no process, no build
  MaxDeploys   \* bound: deployments

File == 1 .. MaxFile

ASSUME SumAssumption == MaxFile \in Nat /\ Sum \in [Build -> [File -> Nat]]
ASSUME PreDeployAssumption == PreDeploy \in Job
ASSUME MaxDeploysAssumption == MaxDeploys \in Nat
ASSUME NoneAssumption == None \notin Build \cup Job

VARIABLES
  recorded,   \* schema_migrations: the checksum recorded of a file, 0 if none
  applied,    \* history: the bodies committed, in order
  lock,       \* who holds the advisory lock
  job,        \* each migrating process: build, stage, and file it is at
  deploying,  \* the build being deployed
  deploys,    \* deployments begun
  instance    \* each serving process: its build and stage

migrateVars == <<recorded, applied, lock>>
deployVars  == <<migrateVars, job, deploying, deploys, instance>>

Stage == {"idle", "lock", "check", "body", "commit", "done", "failed", "broken"}
Life  == {"off", "starting", "serving", "stopping"}

DeployInit ==
  /\ recorded = [f \in File |-> 0] /\ applied = <<>> /\ lock = None
  /\ job = [p \in Job |-> [build |-> None, stage |-> "idle", file |-> 0]]
  /\ deploying = None /\ deploys = 0
  /\ instance = [i \in Instance |-> [build |-> None, stage |-> "off"]]

-----------------------------------------------------------------------------
At(p, stage) == job[p].stage = stage
Goto(p, stage) == job' = [job EXCEPT ![p].stage = stage]
Ended(p) == job[p].stage \in {"idle", "done", "failed", "broken"}

(* Apply returns: however it does, the lock is released. *)
Ends(p, stage) ==
  /\ Goto(p, stage)
  /\ lock' = IF lock = p THEN None ELSE lock

(* The build's next file by name; past the last the migration is done. *)
Onward(p) ==
  LET b == job[p].build IN
  \/ /\ \A f \in File : Sum[b][f] # 0 => f <= job[p].file
     /\ Ends(p, "done")
  \/ \E f \in File :
       /\ f > job[p].file /\ Sum[b][f] # 0
       /\ \A g \in job[p].file + 1 .. f - 1 : Sum[b][g] = 0
       /\ job' = [job EXCEPT ![p].stage = "check", ![p].file = f]
       /\ UNCHANGED lock

Migrate(p, b) ==
  /\ Ended(p)
  /\ job' = [job EXCEPT ![p] = [build |-> b, stage |-> "lock", file |-> 0]]

ByHand(p) ==
  /\ p # PreDeploy
  /\ \E b \in Build : Migrate(p, b)
  /\ UNCHANGED <<migrateVars, deploying, deploys, instance>>

(* Mutant of Lock: nobody waits for anybody. *)
LockIdly(p) ==
  /\ At(p, "lock")
  /\ Goto(p, "check")
  /\ UNCHANGED <<lock, recorded, applied, deploying, deploys, instance>>

(* pg_advisory_lock, on the connection that migrates. *)
Lock(p) ==
  /\ At(p, "lock") /\ lock = None
  /\ lock' = p
  /\ Goto(p, "check")
  /\ UNCHANGED <<recorded, applied, deploying, deploys, instance>>

(* Mutant of Check: what is recorded is skipped, whatever it is. *)
CheckNameOnly(p) ==
  /\ At(p, "check")
  /\ \/ job[p].file = 0 /\ Onward(p)
     \/ job[p].file > 0 /\ recorded[job[p].file] # 0 /\ Onward(p)
     \/ job[p].file > 0 /\ recorded[job[p].file] = 0 /\ Goto(p, "body") /\ UNCHANGED lock
  /\ UNCHANGED <<recorded, applied, deploying, deploys, instance>>

(* Before the first file; a file recorded as it is; recorded otherwise,     *)
(* which stops the migration; or not recorded.                              *)
Check(p) ==
  /\ At(p, "check")
  /\ LET f == job[p].file  sum == Sum[job[p].build][f] IN
     \/ f = 0 /\ Onward(p)
     \/ f > 0 /\ recorded[f] = sum /\ Onward(p)
     \/ f > 0 /\ recorded[f] \notin {0, sum} /\ Ends(p, "failed")
     \/ f > 0 /\ recorded[f] = 0 /\ Goto(p, "body") /\ UNCHANGED lock
  /\ UNCHANGED <<recorded, applied, deploying, deploys, instance>>

(* Mutant of Body: the record is written outside the transaction. *)
BodyRecorded(p) ==
  /\ At(p, "body") /\ Goto(p, "commit")
  /\ recorded' = [recorded EXCEPT ![job[p].file] = Sum[job[p].build][job[p].file]]
  /\ UNCHANGED <<applied, lock, deploying, deploys, instance>>

(* applyOne: the body, which may fail of itself, over an error in the file  *)
(* or a deadlock with what is served meanwhile, and is rolled back; ...      *)
Body(p) ==
  /\ At(p, "body")
  /\ \/ Goto(p, "commit") /\ UNCHANGED lock
     \/ Ends(p, "broken")
  /\ UNCHANGED <<recorded, applied, deploying, deploys, instance>>

(* ... and its record, whose name is a primary key, committed together. *)
Commit(p) ==
  /\ At(p, "commit")
  /\ LET f == job[p].file IN
     \/ /\ recorded[f] = 0
        /\ recorded' = [recorded EXCEPT ![f] = Sum[job[p].build][f]]
        /\ applied' = Append(applied, f)
        /\ Onward(p)
     \/ /\ recorded[f] # 0
        /\ Ends(p, "failed")
        /\ UNCHANGED <<recorded, applied>>
  /\ UNCHANGED <<deploying, deploys, instance>>

(* Killed, or the connection breaks. *)
Interrupted(p) ==
  /\ ~Ended(p)
  /\ Ends(p, "idle")
  /\ UNCHANGED <<recorded, applied, deploying, deploys, instance>>

-----------------------------------------------------------------------------
(* The platform's pre-deploy job, one deployment at a time. *)
Deploy(b) ==
  /\ deploying = None /\ deploys < MaxDeploys
  /\ Migrate(PreDeploy, b)
  /\ deploying' = b /\ deploys' = deploys + 1
  /\ UNCHANGED <<migrateVars, instance>>

(* The job ended badly: what runs goes on running. *)
DeployFails ==
  /\ deploying # None
  /\ job[PreDeploy].stage \in {"idle", "failed", "broken"}
  /\ deploying' = None
  /\ UNCHANGED <<migrateVars, job, deploys, instance>>

(* The job exited with 0: the build runs again, to serve. *)
Start(i) ==
  /\ deploying # None /\ At(PreDeploy, "done")
  /\ \A j \in Instance : instance[j].stage # "starting"
  /\ instance[i].stage = "off"
  /\ instance' = [instance EXCEPT ![i] = [build |-> deploying, stage |-> "starting"]]
  /\ UNCHANGED <<migrateVars, job, deploying, deploys>>

(* The database answers the ping, the signing key loads, the port listens:  *)
(* it takes the traffic, and the others are told to stop.                   *)
Healthy(i) ==
  /\ instance[i].stage = "starting"
  /\ instance' = [j \in Instance |->
       IF j = i THEN [instance[i] EXCEPT !.stage = "serving"]
       ELSE IF instance[j].stage = "serving" THEN [instance[j] EXCEPT !.stage = "stopping"]
       ELSE instance[j]]
  /\ deploying' = None
  /\ UNCHANGED <<migrateVars, job, deploys>>

(* One of those fails, and the process exits with 1. *)
StartFails(i) ==
  /\ instance[i].stage = "starting"
  /\ instance' = [instance EXCEPT ![i] = [build |-> None, stage |-> "off"]]
  /\ deploying' = None
  /\ UNCHANGED <<migrateVars, job, deploys>>

(* Shutdown has waited for its requests, ten seconds at most. *)
Exit(i) ==
  /\ instance[i].stage = "stopping"
  /\ instance' = [instance EXCEPT ![i] = [build |-> None, stage |-> "off"]]
  /\ UNCHANGED <<migrateVars, job, deploying, deploys>>

Migration ==
  \E p \in Job : \/ ByHand(p) \/ Lock(p) \/ Check(p) \/ Body(p) \/ Commit(p) \/ Interrupted(p)
Rollout ==
  \/ \E b \in Build : Deploy(b)
  \/ DeployFails
  \/ \E i \in Instance : Start(i) \/ Healthy(i) \/ StartFails(i)

-----------------------------------------------------------------------------
(* The record, the jobs and the instances keep their types. *)
DeployTypeOK ==
  /\ recorded \in [File -> Nat]
  /\ applied \in Seq(File)
  /\ lock \in Job \cup {None}
  /\ job \in [Job -> [build : Build \cup {None}, stage : Stage, file : 0 .. MaxFile]]
  /\ deploying \in Build \cup {None} /\ deploys \in 0 .. MaxDeploys
  /\ instance \in [Instance -> [build : Build \cup {None}, stage : Life]]

(* A file's body is committed once, by whichever of the migrations that run  *)
(* at once, and is recorded if and only if it was: neither a crash nor a     *)
(* second migrator leaves one without the other (migrate.go:117).            *)
SchemaIsRecorded ==
  /\ \A m, n \in DOMAIN applied : applied[m] = applied[n] => m = n
  /\ {applied[n] : n \in DOMAIN applied} = {f \in File : recorded[f] # 0}

(* Apart from a body that fails of itself, a migration fails only over a     *)
(* file edited after it was applied: never at its record, over one that      *)
(* another migrator made since the look at it (migrate.go:60, :136).         *)
OnlyEditsFail ==
  \A p \in Job : At(p, "failed") =>
    recorded[job[p].file] \notin {0, Sum[job[p].build][job[p].file]}

(* No instance runs on a schema that lacks a file of its build, or has       *)
(* another version of it: the migration "succeeds before any new instance    *)
(* takes traffic, or fails the deploy" (main.go:116-120).                    *)
MigratedBeforeServing ==
  \A i \in Instance : instance[i].stage # "off" =>
    \A f \in File : Sum[instance[i].build][f] # 0 => recorded[f] = Sum[instance[i].build][f]
=============================================================================
