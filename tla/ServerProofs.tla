---------------------------- MODULE ServerProofs ----------------------------
(***************************************************************************)
(* What migrations, deployments, the release cache and the directory's     *)
(* pages guarantee for any number of processes, builds, files, visitors    *)
(* and rows.                                                               *)
(*                                                                         *)
(* Whoever is past the lock holds it, so a file found unrecorded is        *)
(* unrecorded still when its record is committed; and what is recorded is  *)
(* never taken back, so what a migration has seen stays true while others  *)
(* migrate and serve.                                                      *)
(***************************************************************************)
EXTENDS Server, FiniteSetTheorems, WellFoundedInduction, TLAPS

Busy(p) == job[p].stage \in {"check", "body", "commit"}

(* Every file of build b below n is recorded as b has it. *)
Recorded(b, n) == \A f \in File : f < n /\ Sum[b][f] # 0 => recorded[f] = Sum[b][f]

(* What a migrating process has established where it is. *)
Reached(p) ==
  LET b == job[p].build f == job[p].file s == job[p].stage IN
  /\ s # "idle" => b \in Build
  /\ s = "lock" => f = 0
  /\ Busy(p) => lock = p /\ Recorded(b, f) /\ (f # 0 => Sum[b][f] # 0)
  /\ s \in {"body", "commit"} => f # 0 /\ recorded[f] = 0
  /\ s = "done" => Recorded(b, MaxFile + 1)
  /\ s = "failed" => f # 0 /\ recorded[f] \notin {0, Sum[b][f]}

Serves(i) ==
  instance[i].stage # "off" =>
    instance[i].build \in Build /\ Recorded(instance[i].build, MaxFile + 1)

DeployInv ==
  /\ DeployTypeOK
  /\ SchemaIsRecorded
  /\ \A p \in Job : Reached(p)
  /\ deploying # None => job[PreDeploy].build = deploying
  /\ \A i \in Instance : Serves(i)

(* At most one visitor of a process waits for GitHub, and none while its     *)
(* answer is fresh; and no process has named a release it does not have.     *)
SiteInv ==
  /\ SiteTypeOK
  /\ \A s \in Process :
       /\ \A u, v \in Asking(s) : u = v
       /\ cache[s].fresh => Asking(s) = {}
       /\ shown[s] <= cache[s].last /\ cache[s].last <= published

-----------------------------------------------------------------------------
(* A record once made is never changed. *)
Keeps == \A f \in File : recorded[f] # 0 => recorded'[f] = recorded[f]

LEMMA SumType == \A b \in Build, f \in File : Sum[b][f] \in Nat
BY SumAssumption

LEMMA RecordedStays ==
  ASSUME Keeps, NEW b \in Build, NEW n, Recorded(b, n)
  PROVE  Recorded(b, n)'
BY DEF Recorded, Keeps

(* A step of process p that leaves the others where they are. *)
LEMMA OneMoves ==
  ASSUME DeployInv, DeployTypeOK', Keeps, NEW p \in Job,
         \A q \in Job \ {p} : job'[q] = job[q],
         recorded' = recorded \/ At(p, "commit"),
         \A q \in Job \ {p} : lock = q => lock' = q,
         Reached(p)'
  PROVE  \A q \in Job : Reached(q)'
<1> SUFFICES ASSUME NEW q \in Job, q # p PROVE Reached(q)'
  OBVIOUS
<1>1. Reached(q) /\ job'[q] = job[q]
  BY DEF DeployInv
<1>2. job[q] \in [build : Build \cup {None}, stage : Stage, file : 0 .. MaxFile]
  BY DEF DeployInv, DeployTypeOK
<1>3. CASE Busy(q)
  <2>1. lock = q /\ lock' = q
    BY <1>1, <1>3 DEF Reached
  <2>2. ~At(p, "commit")
    BY <2>1 DEF DeployInv, Reached, Busy, At
  <2>3. recorded' = recorded
    BY <2>2
  <2>4. QED
    BY <1>1, <2>1, <2>3 DEF Reached, Busy, Recorded
<1>4. CASE job[q].stage = "done"
  <2>1. Recorded(job[q].build, MaxFile + 1)'
    BY <1>1, <1>2, <1>4, RecordedStays DEF Reached, Recorded, Keeps
  <2>2. QED
    BY <1>1, <1>4, <2>1 DEF Reached, Busy
<1>5. CASE job[q].stage = "failed"
  BY <1>1, <1>2, <1>5 DEF Reached, Busy, Keeps, File
<1>6. CASE job[q].stage \in {"idle", "lock", "broken"}
  BY <1>1, <1>6 DEF Reached, Busy
<1>7. QED
  BY <1>2, <1>3, <1>4, <1>5, <1>6 DEF Busy, Stage

LEMMA ServesStay ==
  ASSUME Keeps, \A i \in Instance : Serves(i), instance' = instance
  PROVE  \A i \in Instance : Serves(i)'
BY RecordedStays DEF Serves

JobRow == [build : Build \cup {None}, stage : Stage, file : 0 .. MaxFile]

(* Process p alone moves, and every other keeps the lock it has. *)
Alone(p) ==
  /\ job' \in [Job -> JobRow] /\ lock' \in Job \cup {None}
  /\ \A q \in Job \ {p} : job'[q] = job[q] /\ (lock = q => lock' = q)

(* Where the migration goes after a file that is recorded as it is, or       *)
(* before the first.                                                         *)
LEMMA OnwardReaches ==
  ASSUME DeployTypeOK, NEW p \in Job, Onward(p), lock = p,
         NEW b \in Build, NEW n \in 0 .. MaxFile, job[p].build = b, job[p].file = n,
         Recorded(b, n)', n # 0 => recorded'[n] = Sum[b][n]
  PROVE  /\ Reached(p)'
         /\ Alone(p)
         /\ job'[p].build = b
<1>0. /\ job \in [Job -> JobRow]
      /\ lock \in Job \cup {None} /\ MaxFile \in Nat
  BY SumAssumption DEF DeployTypeOK, JobRow
<1>1. Recorded(b, n + 1)'
  BY <1>0 DEF Recorded, File
<1>2. CASE /\ \A f \in File : Sum[b][f] # 0 => f <= n
           /\ Ends(p, "done")
  <2>1. job'[p] = [job[p] EXCEPT !.stage = "done"] /\ lock' = None
    BY <1>0, <1>2 DEF Ends, Goto
  <2>2. Recorded(b, MaxFile + 1)'
    BY <1>0, <1>1, <1>2 DEF Recorded, File
  <2>3. job'[p].stage = "done" /\ job'[p].build = b
    BY <1>0, <2>1 DEF JobRow
  <2>4. Reached(p)'
    BY <2>2, <2>3 DEF Reached, Busy
  <2>5. QED
    BY <1>0, <1>2, <2>3, <2>4 DEF Ends, Goto, Stage, JobRow, Alone
<1>3. CASE \E f \in File :
             /\ f > n /\ Sum[b][f] # 0
             /\ \A g \in n + 1 .. f - 1 : Sum[b][g] = 0
             /\ job' = [job EXCEPT ![p].stage = "check", ![p].file = f]
             /\ UNCHANGED lock
  <2>1. PICK f \in File :
             /\ f > n /\ Sum[b][f] # 0
             /\ \A g \in n + 1 .. f - 1 : Sum[b][g] = 0
             /\ job' = [job EXCEPT ![p].stage = "check", ![p].file = f]
             /\ UNCHANGED lock
    BY <1>3
  <2>2. job'[p].stage = "check" /\ job'[p].file = f /\ job'[p].build = b
    BY <1>0, <2>1 DEF JobRow
  <2>3. Recorded(b, f)'
    BY <1>0, <1>1, <2>1 DEF Recorded, File
  <2>4. Reached(p)'
    BY <1>0, <2>1, <2>2, <2>3 DEF Reached, Busy, File
  <2>5. QED
    BY <1>0, <2>1, <2>2, <2>4 DEF Stage, File, JobRow, Alone
<1>4. QED
  BY <1>2, <1>3 DEF Onward

-----------------------------------------------------------------------------
(* A step of a migrating process that writes nothing. *)
LEMMA Moves ==
  ASSUME DeployInv, NEW p \in Job, Alone(p),
         UNCHANGED <<recorded, applied, deploying, deploys, instance>>,
         p = PreDeploy => job'[p].build = job[p].build \/ deploying = None,
         Reached(p)'
  PROVE  DeployInv'
<1>1. DeployTypeOK' /\ Keeps
  BY DEF DeployInv, DeployTypeOK, Keeps, JobRow, Alone
<1>2. \A q \in Job : Reached(q)'
  BY <1>1, OneMoves DEF Alone
<1>3. deploying' # None => job'[PreDeploy].build = deploying'
  BY PreDeployAssumption DEF DeployInv, DeployTypeOK, Alone
<1>4. \A i \in Instance : Serves(i)'
  BY <1>1, ServesStay DEF DeployInv
<1>5. SchemaIsRecorded'
  BY DEF DeployInv, SchemaIsRecorded
<1>6. QED
  BY <1>1, <1>2, <1>3, <1>4, <1>5 DEF DeployInv

LEMMA JobType == DeployTypeOK => job \in [Job -> JobRow] /\ lock \in Job \cup {None}
BY DEF DeployTypeOK, JobRow

LEMMA ByHandStep ==
  ASSUME DeployInv, NEW p \in Job, ByHand(p)
  PROVE  DeployInv'
<1>1. PICK b \in Build : Migrate(p, b)
  BY DEF ByHand
<1> DEFINE j == [build |-> b, stage |-> "lock", file |-> 0]
<1>2. j \in JobRow /\ job' = [job EXCEPT ![p] = j] /\ job'[p] = j
  BY <1>1, JobType, SumAssumption DEF Migrate, JobRow, Stage, DeployInv
<1>3. Reached(p)'
  BY <1>2 DEF Reached, Busy
<1> HIDE DEF j
<1>4. Alone(p)
  BY <1>2, JobType DEF Alone, ByHand, DeployInv, migrateVars
<1>5. QED
  BY <1>3, <1>4, Moves DEF ByHand, DeployInv, migrateVars

LEMMA LockStep ==
  ASSUME DeployInv, NEW p \in Job, Lock(p)
  PROVE  DeployInv'
<1>0. /\ job[p] \in JobRow /\ job[p].stage = "lock" /\ lock = None /\ lock' = p
      /\ job[p].build \in Build /\ job[p].file = 0
  BY JobType DEF Lock, At, DeployInv, Reached
<1>1. /\ job'[p].stage = "check" /\ job'[p].build = job[p].build /\ job'[p].file = 0
      /\ Alone(p)
  BY <1>0, JobType, NoneAssumption DEF Lock, Goto, DeployInv, JobRow, Stage, Alone
<1>2. Reached(p)'
  BY <1>0, <1>1 DEF Reached, Busy, Recorded, File
<1>3. QED
  BY <1>1, <1>2, Moves DEF Lock

(* The migration fails over file f, which is recorded as another build has   *)
(* it, or over a body that fails of itself, or is interrupted.               *)
LEMMA EndsMoves ==
  ASSUME DeployInv, NEW p \in Job, NEW s \in {"idle", "failed", "broken"}, Ends(p, s), job[p].build \in Build,
         s = "failed" => job[p].file # 0
                         /\ recorded[job[p].file] \notin {0, Sum[job[p].build][job[p].file]},
         UNCHANGED <<recorded, applied, deploying, deploys, instance>>
  PROVE  DeployInv'
<1>1. /\ job'[p].stage = s /\ job'[p].build = job[p].build /\ job'[p].file = job[p].file
      /\ Alone(p)
  BY JobType DEF Ends, Goto, DeployInv, JobRow, Stage, Alone
<1>2. Reached(p)'
  BY <1>1 DEF Reached, Busy
<1>3. QED
  BY <1>1, <1>2, Moves

LEMMA CheckStep ==
  ASSUME DeployInv, NEW p \in Job, Check(p)
  PROVE  DeployInv'
<1> DEFINE b == job[p].build
<1> DEFINE n == job[p].file
<1>0. /\ job[p] \in JobRow /\ job[p].stage = "check" /\ Busy(p) /\ lock = p
      /\ b \in Build /\ n \in 0 .. MaxFile /\ Recorded(b, n) /\ (n # 0 => Sum[b][n] # 0)
  BY JobType DEF Check, At, DeployInv, Reached, Busy, JobRow
<1>1. UNCHANGED <<recorded, applied, deploying, deploys, instance>>
  BY DEF Check
<1>2. ASSUME Onward(p), n # 0 => recorded[n] = Sum[b][n]
      PROVE  DeployInv'
  <2>1. Recorded(b, n)
    BY <1>0
  <2>2. PICK c \in Build : c = b
    BY <1>0
  <2>3. PICK m \in 0 .. MaxFile : m = n
    BY <1>0
  <2>4. Recorded(c, m)'
    BY <1>1, <2>1, <2>2, <2>3 DEF Recorded
  <2>5. Reached(p)' /\ Alone(p) /\ job'[p].build = c
    BY <1>0, <1>1, <1>2, <2>2, <2>3, <2>4, OnwardReaches DEF DeployInv
  <2>6. QED
    BY <1>1, <2>2, <2>5, Moves
<1>3. ASSUME Ends(p, "failed"), n > 0, recorded[n] \notin {0, Sum[b][n]}
      PROVE  DeployInv'
  BY <1>0, <1>1, <1>3, EndsMoves
<1>4. ASSUME Goto(p, "body"), n > 0, recorded[n] = 0, UNCHANGED lock
      PROVE  DeployInv'
  <2>1. /\ job'[p].stage = "body" /\ job'[p].build = b /\ job'[p].file = n
        /\ Alone(p)
    BY <1>0, <1>4, JobType DEF Goto, DeployInv, JobRow, Stage, Alone
  <2>2. Reached(p)'
    BY <1>0, <1>1, <1>4, <2>1 DEF Reached, Busy, Recorded
  <2>3. QED
    BY <1>1, <2>1, <2>2, Moves
<1>5. QED
  BY <1>0, <1>2, <1>3, <1>4 DEF Check

LEMMA BodyStep ==
  ASSUME DeployInv, NEW p \in Job, Body(p)
  PROVE  DeployInv'
<1>1. CASE Goto(p, "commit") /\ UNCHANGED lock
  <2>1. /\ job'[p].stage = "commit" /\ job'[p].build = job[p].build /\ job'[p].file = job[p].file
        /\ Alone(p)
    BY <1>1, JobType DEF Goto, DeployInv, JobRow, Stage, Alone
  <2>2. Reached(p)'
    BY <1>1, <2>1 DEF Body, At, DeployInv, Reached, Busy, Recorded
  <2>3. QED
    BY <2>1, <2>2, Moves DEF Body
<1>2. CASE Ends(p, "broken")
  <2>1. job[p].build \in Build
    BY DEF DeployInv, Reached, Body, At
  <2>2. QED
    BY <1>2, <2>1, EndsMoves DEF Body
<1>3. QED
  BY <1>1, <1>2 DEF Body

LEMMA InterruptedStep ==
  ASSUME DeployInv, NEW p \in Job, Interrupted(p)
  PROVE  DeployInv'
<1>1. job[p].build \in Build
  BY DEF DeployInv, Reached, Interrupted, Ended
<1>2. QED
  BY <1>1, EndsMoves DEF Interrupted

(* The record is made of a file that had none: the lock was held since the   *)
(* look at it.                                                               *)
LEMMA CommitStep ==
  ASSUME DeployInv, NEW p \in Job, Commit(p)
  PROVE  DeployInv'
<1> DEFINE n == job[p].file
<1> DEFINE b == job[p].build
<1>0. /\ b \in Build /\ n \in 0 .. MaxFile /\ n \in File /\ lock = p /\ Recorded(b, n)
      /\ recorded[n] = 0 /\ Sum[b][n] # 0 /\ Sum[b][n] \in Nat
  <2>1. job[p] \in JobRow /\ job[p].stage = "commit" /\ Reached(p)
    BY JobType DEF Commit, At, DeployInv
  <2>2. b \in Build /\ n \in 0 .. MaxFile /\ n # 0 /\ lock = p /\ Recorded(b, n)
        /\ recorded[n] = 0 /\ Sum[b][n] # 0
    BY <2>1 DEF Reached, Busy, JobRow
  <2>3. n \in File
    BY <2>2, SumAssumption DEF File
  <2>4. QED
    BY <2>2, <2>3, SumType
<1>1. /\ recorded' = [recorded EXCEPT ![n] = Sum[b][n]]
      /\ applied' = Append(applied, n)
      /\ Onward(p) /\ UNCHANGED <<deploying, deploys, instance>>
  BY <1>0 DEF Commit
<1>2. /\ recorded \in [File -> Nat] /\ recorded' \in [File -> Nat]
      /\ recorded'[n] = Sum[b][n] /\ \A f \in File \ {n} : recorded'[f] = recorded[f]
  BY <1>0, <1>1 DEF DeployInv, DeployTypeOK
<1>3. Keeps
  BY <1>0, <1>2 DEF Keeps
<1>4. Reached(p)' /\ Alone(p) /\ job'[p].build = b
  <2>1. PICK c \in Build : c = b
    BY <1>0
  <2>2. PICK m \in 0 .. MaxFile : m = n
    BY <1>0
  <2>3. Recorded(c, m)'
    BY <1>0, <1>2, <2>1, <2>2, SumAssumption DEF Recorded, File
  <2>4. QED
    BY <1>0, <1>1, <1>2, <2>1, <2>2, <2>3, OnwardReaches DEF DeployInv
<1>5. SchemaIsRecorded'
  <2>1. applied \in Seq(File) /\ applied' \in Seq(File) /\ Len(applied') = Len(applied) + 1
        /\ applied'[Len(applied) + 1] = n
        /\ \A i \in 1 .. Len(applied) : applied'[i] = applied[i] /\ applied[i] \in File
    BY <1>0, <1>1 DEF DeployInv, DeployTypeOK
  <2>2. \A i \in 1 .. Len(applied) : applied[i] # n
    BY <1>0, <2>1 DEF DeployInv, SchemaIsRecorded
  <2>3. \A i, j \in DOMAIN applied' : applied'[i] = applied'[j] => i = j
    BY <2>1, <2>2 DEF DeployInv, SchemaIsRecorded
  <2>4. {applied'[i] : i \in DOMAIN applied'} = {applied[i] : i \in DOMAIN applied} \cup {n}
    BY <2>1
  <2>5. {f \in File : recorded'[f] # 0} = {f \in File : recorded[f] # 0} \cup {n}
    BY <1>0, <1>2
  <2>6. QED
    BY <2>3, <2>4, <2>5 DEF DeployInv, SchemaIsRecorded
<1>6. DeployTypeOK'
  <2>1. applied' \in Seq(File)
    BY <1>0, <1>1 DEF DeployInv, DeployTypeOK
  <2>2. QED
    BY <1>1, <1>2, <1>4, <2>1 DEF DeployInv, DeployTypeOK, Alone, JobRow
<1>7. \A q \in Job : Reached(q)'
  BY <1>3, <1>4, <1>6, OneMoves DEF Commit, Alone
<1>8. deploying' # None => job'[PreDeploy].build = deploying'
  BY <1>1, <1>4, PreDeployAssumption DEF DeployInv, Alone
<1>9. \A i \in Instance : Serves(i)'
  BY <1>1, <1>3, ServesStay DEF DeployInv
<1>10. QED
  BY <1>5, <1>6, <1>7, <1>8, <1>9 DEF DeployInv

-----------------------------------------------------------------------------
LEMMA DeployStep ==
  ASSUME DeployInv, NEW b \in Build, Deploy(b)
  PROVE  DeployInv'
<1> DEFINE j == [build |-> b, stage |-> "lock", file |-> 0]
<1>1. j \in JobRow /\ job' = [job EXCEPT ![PreDeploy] = j]
  BY SumAssumption DEF Deploy, Migrate, JobRow, Stage
<1>2. /\ job' \in [Job -> JobRow] /\ job'[PreDeploy] = j
      /\ \A q \in Job \ {PreDeploy} : job'[q] = job[q]
  BY <1>1, JobType, PreDeployAssumption DEF DeployInv
<1>3. UNCHANGED <<recorded, applied, lock, instance>> /\ deploying' = b /\ deploys' = deploys + 1
      /\ deploys < MaxDeploys
  BY DEF Deploy, migrateVars
<1>4. Reached(PreDeploy)'
  BY <1>2 DEF Reached, Busy
<1>5. DeployTypeOK' /\ Keeps
  BY <1>2, <1>3, MaxDeploysAssumption DEF DeployInv, DeployTypeOK, Keeps, JobRow
<1>6. \A q \in Job : Reached(q)'
  BY <1>2, <1>3, <1>4, <1>5, PreDeployAssumption, OneMoves
<1>7. deploying' # None => job'[PreDeploy].build = deploying'
  BY <1>2, <1>3
<1>8. SchemaIsRecorded' /\ \A i \in Instance : Serves(i)'
  BY <1>3, <1>5, ServesStay DEF DeployInv, SchemaIsRecorded
<1>9. QED
  BY <1>5, <1>6, <1>7, <1>8 DEF DeployInv

(* Nothing of a migration changes: only who serves, and what is deployed.    *)
LEMMA RolloutMoves ==
  ASSUME DeployInv, UNCHANGED <<migrateVars, job, deploys>>,
         deploying' \in {deploying, None},
         instance' \in [Instance -> [build : Build \cup {None}, stage : Life]],
         \A i \in Instance : Serves(i)'
  PROVE  DeployInv'
<1>1. \A p \in Job : Reached(p)'
  BY DEF DeployInv, Reached, Busy, Recorded, migrateVars
<1>2. DeployTypeOK' /\ SchemaIsRecorded'
  BY DEF DeployInv, DeployTypeOK, SchemaIsRecorded, migrateVars
<1>3. QED
  BY <1>1, <1>2 DEF DeployInv

LEMMA InstanceSteps ==
  ASSUME DeployInv,
         DeployFails \/ \E i \in Instance : Start(i) \/ Healthy(i) \/ StartFails(i) \/ Exit(i)
  PROVE  DeployInv'
<1>0. instance \in [Instance -> [build : Build \cup {None}, stage : Life]]
  BY DEF DeployInv, DeployTypeOK
<1>1. CASE DeployFails
  <2>1. \A i \in Instance : Serves(i)'
    BY <1>1 DEF DeployFails, DeployInv, Serves, Recorded, migrateVars
  <2>2. QED
    BY <1>0, <1>1, <2>1, RolloutMoves DEF DeployFails, migrateVars
<1>2. ASSUME NEW i \in Instance, Start(i)
      PROVE  DeployInv'
  <2>1. deploying \in Build /\ Recorded(deploying, MaxFile + 1)
    BY <1>2, PreDeployAssumption DEF Start, At, DeployInv, DeployTypeOK, Reached
  <2>2. /\ instance' \in [Instance -> [build : Build \cup {None}, stage : Life]]
        /\ instance'[i].build = deploying
        /\ \A j \in Instance \ {i} : instance'[j] = instance[j]
    BY <1>0, <1>2, <2>1 DEF Start, Life
  <2>3. \A j \in Instance : Serves(j)'
    BY <1>2, <2>1, <2>2 DEF Start, DeployInv, Serves, Recorded, migrateVars
  <2>4. QED
    BY <1>2, <2>2, <2>3, RolloutMoves DEF Start, migrateVars
<1>3. ASSUME NEW i \in Instance, Healthy(i)
      PROVE  DeployInv'
  <2>1. /\ instance' \in [Instance -> [build : Build \cup {None}, stage : Life]]
        /\ \A j \in Instance : /\ instance'[j].build = instance[j].build
                               /\ instance[j].stage = "off" => instance'[j].stage = "off"
    BY <1>0, <1>3 DEF Healthy, Life
  <2>2. \A j \in Instance : Serves(j)'
    BY <1>3, <2>1 DEF Healthy, DeployInv, Serves, Recorded, migrateVars
  <2>3. QED
    BY <1>3, <2>1, <2>2, RolloutMoves DEF Healthy, migrateVars
<1>4. ASSUME NEW i \in Instance, StartFails(i) \/ Exit(i)
      PROVE  DeployInv'
  <2>1. /\ instance' \in [Instance -> [build : Build \cup {None}, stage : Life]]
        /\ instance'[i].stage = "off"
        /\ \A j \in Instance \ {i} : instance'[j] = instance[j]
        /\ UNCHANGED <<recorded, applied, lock, job, deploys>> /\ deploying' \in {deploying, None}
    BY <1>0, <1>4 DEF StartFails, Exit, Life, migrateVars
  <2>2. \A j \in Instance : Serves(j)'
    BY <2>1 DEF DeployInv, Serves, Recorded
  <2>3. QED
    BY <2>1, <2>2, RolloutMoves DEF migrateVars
<1>5. QED
  BY <1>1, <1>2, <1>3, <1>4

LEMMA DeployStays ==
  ASSUME DeployInv, UNCHANGED deployVars
  PROVE  DeployInv'
<1>1. UNCHANGED <<recorded, applied, lock, job, deploying, deploys, instance>>
  BY DEF deployVars, migrateVars
<1>2. \A p \in Job : Reached(p)'
  BY <1>1 DEF DeployInv, Reached, Busy, Recorded
<1>3. \A i \in Instance : Serves(i)'
  BY <1>1 DEF DeployInv, Serves, Recorded
<1>4. DeployTypeOK' /\ SchemaIsRecorded'
  BY <1>1 DEF DeployInv, DeployTypeOK, SchemaIsRecorded
<1>5. QED
  BY <1>1, <1>2, <1>3, <1>4 DEF DeployInv

LEMMA DeployHolds == Init => DeployInv
<1> SUFFICES ASSUME DeployInit PROVE DeployInv
  BY DEF Init
<1>1. /\ recorded \in [File -> Nat] /\ applied \in Seq(File)
      /\ job \in [Job -> JobRow] /\ lock \in Job \cup {None}
      /\ deploying \in Build \cup {None} /\ deploys \in 0 .. MaxDeploys
      /\ instance \in [Instance -> [build : Build \cup {None}, stage : Life]]
  BY SumAssumption, MaxDeploysAssumption DEF DeployInit, JobRow, Stage, Life
<1>2. SchemaIsRecorded
  BY DEF DeployInit, SchemaIsRecorded
<1>3. \A p \in Job : Reached(p)
  BY DEF DeployInit, Reached, Busy
<1>4. \A i \in Instance : Serves(i)
  BY DEF DeployInit, Serves
<1>5. QED
  BY <1>1, <1>2, <1>3, <1>4 DEF DeployInit, DeployInv, DeployTypeOK, JobRow

LEMMA DeployKept == DeployInv /\ [Next]_vars => DeployInv'
<1> SUFFICES ASSUME DeployInv, [Next]_vars PROVE DeployInv'
  OBVIOUS
<1>1. CASE Migration
  <2>1. PICK p \in Job : ByHand(p) \/ Lock(p) \/ Check(p) \/ Body(p) \/ Commit(p) \/ Interrupted(p)
    BY <1>1 DEF Migration
  <2>2. QED
    BY <2>1, ByHandStep, LockStep, CheckStep, BodyStep, CommitStep, InterruptedStep
<1>2. CASE Rollout
  BY <1>2, DeployStep, InstanceSteps DEF Rollout
<1>3. CASE UNCHANGED deployVars
  BY <1>3, DeployStays
<1>4. CASE \E i \in Instance : Stops(i) \/ Crash(i)
  BY <1>4, InstanceSteps, DeployStays DEF Stops, Crash
<1>5. QED
  BY <1>1, <1>2, <1>3, <1>4 DEF Next, vars

-----------------------------------------------------------------------------
SiteRow == [last : 0 .. MaxReleases, fresh : BOOLEAN]
VisitorRow == [at : Process, stage : {"waiting", "asking"}] \cup {Away}

LEMMA SiteHolds == Init => SiteInv
<1> SUFFICES ASSUME SiteInit PROVE SiteInv
  BY DEF Init
<1>1. \A s \in Process : Asking(s) = {}
  BY DEF SiteInit, Asking, Away
<1>2. SiteTypeOK
  BY SizesAssumption DEF SiteInit, SiteTypeOK, NoCache, Fallback
<1>3. QED
  BY <1>1, <1>2 DEF SiteInit, SiteInv, NoCache, Fallback

(* Visitor v of process s goes to w, the cache to c and what is shown to n. *)
Moved(v, s, w, c, n) ==
  /\ visitor' = [visitor EXCEPT ![v] = w]
  /\ cache' = [cache EXCEPT ![s] = c]
  /\ shown' = [shown EXCEPT ![s] = n]
  /\ UNCHANGED <<published, listed>>
  /\ n <= c.last /\ c.last <= published
  /\ c = cache[s] \/ (Asking(s) \subseteq {v} /\ w = Away)
  /\ \/ w.stage # "asking"
     \/ w = [at |-> s, stage |-> "asking"] /\ Asking(s) = {} /\ ~cache[s].fresh

(* A visitor comes, is answered, or asks when nobody does. *)
LEMMA OneVisits ==
  ASSUME SiteInv, NEW v \in Visitor, NEW s \in Process,
         NEW w \in VisitorRow, NEW c \in SiteRow, NEW n \in 0 .. MaxReleases,
         Moved(v, s, w, c, n)
  PROVE  SiteInv'
<1>0. /\ visitor \in [Visitor -> VisitorRow] /\ cache \in [Process -> SiteRow]
      /\ shown \in [Process -> 0 .. MaxReleases]
  BY DEF SiteInv, SiteTypeOK, SiteRow, VisitorRow
<1>1. /\ visitor'[v] = w /\ \A u \in Visitor \ {v} : visitor'[u] = visitor[u]
      /\ cache'[s] = c /\ \A t \in Process \ {s} : cache'[t] = cache[t]
      /\ shown'[s] = n /\ \A t \in Process \ {s} : shown'[t] = shown[t]
      /\ visitor' \in [Visitor -> VisitorRow] /\ cache' \in [Process -> SiteRow]
      /\ shown' \in [Process -> 0 .. MaxReleases]
      /\ UNCHANGED <<published, listed>>
  BY <1>0 DEF Moved
<1>2. SiteTypeOK'
  <2>1. published' \in 0 .. MaxReleases /\ listed' \in 0 .. MaxRows
    BY <1>1 DEF SiteInv, SiteTypeOK
  <2>2. QED
    BY <1>1, <2>1 DEF SiteTypeOK, SiteRow, VisitorRow
<1>3. \A t \in Process \ {s} : Asking(t)' \subseteq Asking(t)
  <2>1. \A t \in Process \ {s} : w # [at |-> t, stage |-> "asking"]
    BY DEF Moved
  <2>2. QED
    BY <1>1, <2>1 DEF Asking
<1>4. Asking(s)' \subseteq Asking(s) \cup {v}
  BY <1>1 DEF Asking
<1>5. w # [at |-> s, stage |-> "asking"] => Asking(s)' \subseteq Asking(s) \ {v}
  BY <1>1 DEF Asking
<1>6. \A x, y \in Asking(s)' : x = y
  BY <1>4, <1>5 DEF SiteInv, Moved
<1>7. cache'[s].fresh => Asking(s)' = {}
  <2>1. Away # [at |-> s, stage |-> "asking"]
    BY DEF Away
  <2>2. QED
    BY <1>1, <1>4, <1>5, <2>1 DEF SiteInv, Moved
<1>8. \A t \in Process : shown'[t] <= cache'[t].last /\ cache'[t].last <= published'
  BY <1>1 DEF SiteInv, Moved
<1>9. \A t \in Process \ {s} :
        (\A x, y \in Asking(t)' : x = y) /\ (cache'[t].fresh => Asking(t)' = {})
  BY <1>1, <1>3 DEF SiteInv
<1>10. QED
  BY <1>2, <1>6, <1>7, <1>8, <1>9 DEF SiteInv

LEMMA VisitStep ==
  ASSUME SiteInv, NEW v \in Visitor, NEW s \in Process, Visit(v, s)
  PROVE  SiteInv'
<1>1. PICK w \in VisitorRow : w = [at |-> s, stage |-> "waiting"]
  BY DEF VisitorRow
<1>2. PICK c \in SiteRow : c = cache[s]
  BY DEF SiteInv, SiteTypeOK, SiteRow
<1>3. PICK n \in 0 .. MaxReleases : n = shown[s]
  BY DEF SiteInv, SiteTypeOK
<1>4. w # [at |-> s, stage |-> "asking"] /\ w.stage # "asking"
  BY <1>1
<1>5. /\ visitor' = [visitor EXCEPT ![v] = w] /\ UNCHANGED <<published, listed>>
      /\ cache' = [cache EXCEPT ![s] = c] /\ shown' = [shown EXCEPT ![s] = n]
      /\ n <= c.last /\ c.last <= published
  BY <1>1, <1>2, <1>3 DEF Visit, SiteInv, SiteTypeOK
<1>6. QED
  BY <1>2, <1>4, <1>5, OneVisits DEF Moved

LEMMA AwayIsARow ==
  /\ Away \in VisitorRow
  /\ \A s \in Process : Away # [at |-> s, stage |-> "asking"]
  /\ Away.stage # "asking"
BY DEF Away, VisitorRow

(* Told what is in the cache, fetched or not. *)
LEMMA ToldKeeps ==
  ASSUME SiteInv, NEW v \in Visitor, NEW s \in Process, NEW c \in SiteRow,
         Told(v, s, c.last), cache' = [cache EXCEPT ![s] = c], c.last <= published,
         c = cache[s] \/ Asking(s) \subseteq {v},
         UNCHANGED <<published, listed>>
  PROVE  SiteInv'
<1>1. c.last \in 0 .. MaxReleases /\ c.last <= c.last
  BY DEF SiteRow
<1>2. /\ visitor' = [visitor EXCEPT ![v] = Away]
      /\ shown' = [shown EXCEPT ![s] = c.last]
  BY DEF Told
<1>3. QED
  BY <1>1, <1>2, AwayIsARow, OneVisits DEF Moved

LEMMA CacheType ==
  ASSUME SiteInv, NEW s \in Process
  PROVE  cache[s] \in SiteRow /\ cache = [cache EXCEPT ![s] = cache[s]] /\ cache[s].last <= published
BY DEF SiteInv, SiteTypeOK, SiteRow

LEMMA GetStep ==
  ASSUME SiteInv, NEW v \in Visitor, NEW s \in Process, Get(v, s)
  PROVE  SiteInv'
<1>0. UNCHANGED <<published, cache, listed>> /\ cache' = [cache EXCEPT ![s] = cache[s]]
  BY CacheType DEF Get
<1>1. CASE cache[s].fresh /\ Told(v, s, cache[s].last)
  BY <1>0, <1>1, CacheType, ToldKeeps
<1>2. CASE ~cache[s].fresh /\ visitor' = [visitor EXCEPT ![v].stage = "asking"] /\ UNCHANGED shown
  <2>1. PICK w \in VisitorRow : w = [at |-> s, stage |-> "asking"]
    BY DEF VisitorRow
  <2>2. PICK c \in SiteRow : c = cache[s]
    BY CacheType
  <2>3. PICK n \in 0 .. MaxReleases : n = shown[s]
    BY DEF SiteInv, SiteTypeOK
  <2>4. visitor' = [visitor EXCEPT ![v] = w]
    <3>1. [visitor[v] EXCEPT !.stage = "asking"] = w
      BY <2>1 DEF Get
    <3>2. QED
      BY <1>2, <3>1
  <2>5. Asking(s) = {} /\ ~cache[s].fresh
    BY <1>2 DEF Get
  <2>6. /\ cache' = [cache EXCEPT ![s] = c] /\ shown' = [shown EXCEPT ![s] = n]
        /\ n <= c.last /\ c.last <= published /\ UNCHANGED <<published, listed>>
    BY <1>0, <1>2, <2>2, <2>3 DEF SiteInv, SiteTypeOK
  <2>7. QED
    BY <2>1, <2>2, <2>4, <2>5, <2>6, OneVisits DEF Moved
<1>3. QED
  BY <1>1, <1>2 DEF Get

LEMMA FetchedStep ==
  ASSUME SiteInv, NEW v \in Visitor, NEW s \in Process, Fetched(v, s)
  PROVE  SiteInv'
<1> DEFINE c == [last |-> published, fresh |-> TRUE]
<1>1. c \in SiteRow /\ c.last = published /\ published <= published
  BY DEF SiteInv, SiteTypeOK, SiteRow
<1>2. /\ cache' = [cache EXCEPT ![s] = c] /\ Told(v, s, published)
      /\ UNCHANGED <<published, listed>> /\ v \in Asking(s)
  BY DEF Fetched, Asking
<1> HIDE DEF c
<1>3. Asking(s) \subseteq {v}
  BY <1>2 DEF SiteInv
<1>4. QED
  BY <1>1, <1>2, <1>3, ToldKeeps

LEMMA FetchFailsStep ==
  ASSUME SiteInv, NEW v \in Visitor, NEW s \in Process, FetchFails(v, s)
  PROVE  SiteInv'
BY CacheType, ToldKeeps DEF FetchFails

LEMMA ResetStep ==
  ASSUME SiteInv, NEW s \in Process, Reset(s)
  PROVE  SiteInv'
<1>0. /\ visitor \in [Visitor -> VisitorRow] /\ cache \in [Process -> SiteRow]
      /\ shown \in [Process -> 0 .. MaxReleases] /\ published \in 0 .. MaxReleases
  BY DEF SiteInv, SiteTypeOK, SiteRow, VisitorRow
<1>1. /\ NoCache \in SiteRow /\ NoCache.last = 0 /\ ~NoCache.fresh /\ 0 \in 0 .. MaxReleases
  BY SizesAssumption DEF NoCache, SiteRow, Fallback
<1>2. /\ cache' \in [Process -> SiteRow] /\ shown' \in [Process -> 0 .. MaxReleases]
      /\ cache'[s] = NoCache /\ shown'[s] = 0
      /\ \A t \in Process \ {s} : cache'[t] = cache[t] /\ shown'[t] = shown[t]
      /\ UNCHANGED <<published, listed>>
  BY <1>0, <1>1 DEF Reset, Fallback
<1>3. visitor' \in [Visitor -> VisitorRow] /\ \A v \in Visitor : visitor'[v] \in {visitor[v], Away}
  BY <1>0, AwayIsARow DEF Reset
<1>4. \A t \in Process : Asking(t)' \subseteq Asking(t)
  BY <1>3, AwayIsARow DEF Asking
<1>5. \A t \in Process : \A x, y \in Asking(t)' : x = y
  BY <1>4 DEF SiteInv
<1>6. \A t \in Process : cache'[t].fresh => Asking(t)' = {}
  BY <1>1, <1>2, <1>4 DEF SiteInv
<1>7. \A t \in Process : shown'[t] <= cache'[t].last /\ cache'[t].last <= published'
  BY <1>0, <1>1, <1>2 DEF SiteInv
<1>8. SiteTypeOK'
  BY <1>2, <1>3 DEF SiteInv, SiteTypeOK, SiteRow, VisitorRow
<1>9. QED
  BY <1>5, <1>6, <1>7, <1>8 DEF SiteInv

LEMMA OutsideStep ==
  ASSUME SiteInv, Publish \/ GoStale \/ Register \/ Unlist
  PROVE  SiteInv'
<1>1. UNCHANGED visitor /\ \A s \in Process : Asking(s)' = Asking(s)
  BY DEF Publish, GoStale, Register, Unlist, Asking
<1>2. CASE Publish
  BY <1>1, <1>2, SizesAssumption DEF Publish, SiteInv, SiteTypeOK
<1>3. CASE GoStale
  <2>1. PICK s \in Process : cache[s].fresh /\ cache' = [cache EXCEPT ![s].fresh = FALSE]
    BY <1>3 DEF GoStale
  <2>2. /\ cache \in [Process -> SiteRow] /\ cache' \in [Process -> SiteRow]
        /\ cache'[s].last = cache[s].last /\ ~cache'[s].fresh
        /\ \A t \in Process \ {s} : cache'[t] = cache[t]
    BY <2>1 DEF SiteInv, SiteTypeOK, SiteRow
  <2>3. SiteTypeOK'
    BY <1>3, <2>2 DEF GoStale, SiteInv, SiteTypeOK, SiteRow
  <2>4. QED
    BY <1>1, <1>3, <2>2, <2>3 DEF GoStale, SiteInv
<1>4. CASE Register \/ Unlist
  BY <1>1, <1>4, SizesAssumption DEF Register, Unlist, SiteInv, SiteTypeOK
<1>5. QED
  BY <1>2, <1>3, <1>4

LEMMA SiteStays ==
  ASSUME SiteInv, UNCHANGED siteVars
  PROVE  SiteInv'
<1>1. \A s \in Process : Asking(s)' = Asking(s)
  BY DEF siteVars, Asking
<1>2. QED
  BY <1>1 DEF siteVars, SiteInv, SiteTypeOK

LEMMA SiteKept == SiteInv /\ [Next]_vars => SiteInv'
<1> SUFFICES ASSUME SiteInv, [Next]_vars PROVE SiteInv'
  OBVIOUS
<1>1. CASE UNCHANGED siteVars
  BY <1>1, SiteStays
<1>2. CASE Publish \/ GoStale
  BY <1>2, OutsideStep
<1>3. CASE Browse
  BY <1>3, GetStep, FetchedStep, FetchFailsStep DEF Browse
<1>4. CASE \E v \in Visitor, i \in Instance : Visit(v, i) \/ Register \/ Unlist
  BY <1>4, ProcessAssumption, VisitStep, OutsideStep
<1>5. CASE \E i \in Instance : Reset(i)
  BY <1>5, ProcessAssumption, ResetStep
<1>6. QED
  BY <1>1, <1>2, <1>3, <1>4, <1>5 DEF Next, vars, Stops, Crash

-----------------------------------------------------------------------------
(* The record, the jobs, the instances, the caches and the visitors keep     *)
(* their types.                                                              *)
THEOREM TypeCorrect == Spec => [](DeployTypeOK /\ SiteTypeOK)
<1>1. DeployInv /\ SiteInv => DeployTypeOK /\ SiteTypeOK
  BY DEF DeployInv, SiteInv
<1>2. QED
  BY <1>1, DeployHolds, DeployKept, SiteHolds, SiteKept, PTL DEF Spec

(* A file's body is committed once, however many migrate at once and whoever *)
(* is interrupted, and is recorded if and only if it was (migrate.go:117).   *)
THEOREM RecordsTheSchema == Spec => []SchemaIsRecorded
<1>1. DeployInv => SchemaIsRecorded
  BY DEF DeployInv
<1>2. QED
  BY <1>1, DeployHolds, DeployKept, PTL DEF Spec

(* Apart from a body that fails of itself, a migration fails only over a     *)
(* file edited after it was applied, and never at its record over one that   *)
(* another of however many migrators made (migrate.go:60, :136).             *)
THEOREM FailsOverEdits == Spec => []OnlyEditsFail
<1>1. DeployInv => OnlyEditsFail
  BY DEF DeployInv, Reached, OnlyEditsFail, At
<1>2. QED
  BY <1>1, DeployHolds, DeployKept, PTL DEF Spec

(* No instance, of however many deployments, runs on a schema that lacks a   *)
(* file of its build or has another version of it (main.go:116-120).         *)
THEOREM ServesMigrated == Spec => []MigratedBeforeServing
<1>1. DeployInv => MigratedBeforeServing
  BY SumAssumption DEF DeployInv, Serves, Recorded, MigratedBeforeServing, File
<1>2. QED
  BY <1>1, DeployHolds, DeployKept, PTL DEF Spec

(* A process calls GitHub for one visitor at a time, however many come, and  *)
(* not while its answer is fresh (release.go:144-149).                       *)
THEOREM CallsOnce == Spec => []OneCall
<1>1. SiteInv => OneCall
  <2> SUFFICES ASSUME SiteInv, NEW s \in Process
               PROVE  Cardinality(Asking(s)) <= IF cache[s].fresh THEN 0 ELSE 1
    BY DEF OneCall
  <2>1. CASE Asking(s) = {}
    <3>1. Cardinality(Asking(s)) = 0
      BY <2>1, FS_EmptySet
    <3>2. QED
      BY <3>1
  <2>2. CASE Asking(s) # {}
    <3>1. PICK v \in Asking(s) : Asking(s) = {v}
      BY <2>2 DEF SiteInv
    <3>2. Cardinality(Asking(s)) = 1 /\ ~cache[s].fresh
      BY <2>2, <3>1, FS_Singleton DEF SiteInv
    <3>3. QED
      BY <3>2
  <2>3. QED
    BY <2>1, <2>2
<1>2. QED
  BY <1>1, SiteHolds, SiteKept, PTL DEF Spec

(* What a process names is never older than what it named before, unless it  *)
(* started again, whatever fails (release.go:131-135).                       *)
THEOREM NamesNewer == Spec => NeverOlder
<1>1. ASSUME SiteInv, SiteInv', [Next]_vars, NEW s \in Process, shown'[s] < shown[s]
      PROVE  cache'[s] = NoCache
  <2>0. /\ shown \in [Process -> 0 .. MaxReleases] /\ cache \in [Process -> SiteRow]
        /\ published \in 0 .. MaxReleases
        /\ shown[s] <= cache[s].last /\ cache[s].last <= published
    BY <1>1 DEF SiteInv, SiteTypeOK, SiteRow
  <2>1. shown' # shown
    BY <1>1, <2>0
  <2>2. CASE Browse
    <3>1. PICK v \in Visitor, t \in Process : Told(v, t, cache[t].last) \/ Told(v, t, published)
      BY <2>1, <2>2 DEF Browse, Get, Fetched, FetchFails
    <3>2. cache[t].last <= published /\ shown[t] <= cache[t].last
      BY <1>1 DEF SiteInv
    <3>3. shown'[s] = shown[s] \/ (s = t /\ shown'[s] \in {cache[t].last, published})
      BY <2>0, <3>1 DEF Told
    <3>4. QED
      BY <1>1, <2>0, <3>2, <3>3 DEF SiteRow
  <2>3. CASE \E i \in Instance : Reset(i)
    BY <1>1, <2>0, <2>3, ProcessAssumption DEF Reset
  <2>4. QED
    BY <1>1, <2>1, <2>2, <2>3
       DEF Next, vars, siteVars, Stops, Crash, Publish, GoStale, Visit, Register, Unlist
<1>2. SiteInv /\ SiteInv' /\ [Next]_vars =>
        [\A s \in Process : shown'[s] < shown[s] => cache'[s] = NoCache]_siteVars
  BY <1>1
<1>3. QED
  BY <1>2, SiteHolds, SiteKept, PTL DEF Spec, NeverOlder

-----------------------------------------------------------------------------
(* The directory.  A row's place among the rows that are there decides its    *)
(* page; the places are taken without a gap (RowOfRank), so that a page       *)
(* which ends before some row is full, and its reply has more pages to come   *)
(* (PageBelow); and while nobody before a row goes, it is only pushed back.   *)
LEMMA DivBounds ==
  ASSUME NEW a \in Nat, NEW b \in Nat \ {0}
  PROVE  a \div b \in Nat /\ b * (a \div b) <= a /\ a < b * (a \div b) + b
OBVIOUS

LEMMA TimesKeepsOrder ==
  ASSUME NEW a \in Nat, NEW b \in Nat, NEW c \in Nat, a <= b
  PROVE  a * c \in Nat /\ b * c \in Nat /\ a * c <= b * c
<1>1. PICK d \in Nat : b = a + d
  <2>1. b - a \in Nat /\ b = a + (b - a)
    OBVIOUS
  <2>2. QED
    BY <2>1
<1>2. b * c = a * c + d * c /\ d * c \in Nat /\ a * c \in Nat
  BY <1>1
<1>3. QED
  BY <1>2

LEMMA LeastIn ==
  ASSUME NEW S \in SUBSET Nat, S # {}
  PROVE  \E m \in S : \A x \in S : m <= x
<1>1. PICK m \in S : \A y \in S : ~ (<<y, m>> \in OpToRel(<, Nat))
  BY NatLessThanWellFounded, WFMin
<1>2. \A y \in S : ~ (y < m)
  BY <1>1 DEF OpToRel
<1>3. QED
  BY <1>2

(* The place of a row in a listing. *)
Upto(rows, r) == {x \in rows : x <= r}
Rank(rows, r) == Cardinality(Upto(rows, r))

LEMMA RankType ==
  ASSUME NEW rows \in SUBSET (1 .. MaxRows), NEW r \in Nat
  PROVE  /\ IsFiniteSet(Upto(rows, r)) /\ Rank(rows, r) \in Nat
         /\ Rank(rows, r) <= Cardinality(rows)
         /\ IsFiniteSet(rows) /\ Cardinality(rows) \in Nat /\ Cardinality(rows) <= MaxRows
<1>1. IsFiniteSet(1 .. MaxRows) /\ Cardinality(1 .. MaxRows) = MaxRows
  BY SizesAssumption, FS_Interval
<1>2. IsFiniteSet(rows) /\ Cardinality(rows) <= MaxRows
  BY <1>1, FS_Subset
<1>3. Upto(rows, r) \in SUBSET rows
  BY DEF Upto
<1>4. IsFiniteSet(Upto(rows, r)) /\ Cardinality(Upto(rows, r)) <= Cardinality(rows)
  BY <1>2, <1>3, FS_Subset
<1>5. QED
  BY <1>2, <1>4, FS_CardinalityType DEF Rank

(* A row is only pushed back while those before it stay. *)
LEMMA RankGrows ==
  ASSUME NEW rows \in SUBSET (1 .. MaxRows), NEW later \in SUBSET (1 .. MaxRows),
         NEW r \in Nat, Upto(rows, r) \subseteq later
  PROVE  Rank(rows, r) <= Rank(later, r)
<1>1. Upto(rows, r) \in SUBSET Upto(later, r)
  BY DEF Upto
<1>2. QED
  BY <1>1, RankType, FS_Subset DEF Rank

(* Every place up to a row's own is some row's. *)
LEMMA RowOfRank ==
  ASSUME NEW rows \in SUBSET (1 .. MaxRows), NEW r \in rows, NEW k \in Nat, k < Rank(rows, r)
  PROVE  \E x \in rows : Rank(rows, x) = k + 1
<1> DEFINE S == {x \in Nat : k < Rank(rows, x)}
<1>0. \A x \in rows : x \in Nat /\ x > 0
  BY SizesAssumption
<1>1. PICK m \in S : \A x \in S : m <= x
  <2>1. r \in S
    BY <1>0
  <2>2. S \in SUBSET Nat /\ S # {}
    BY <2>1
  <2>3. QED
    BY <2>2, LeastIn
<1>2. m # 0
  <2>1. \A x \in rows : ~(x <= 0)
    BY <1>0
  <2>2. Upto(rows, 0) = {}
    BY <2>1 DEF Upto
  <2>3. Rank(rows, 0) = 0
    BY <2>2, FS_EmptySet DEF Rank
  <2>4. QED
    BY <2>3
<1>3. m - 1 \in Nat /\ m \in Nat
  BY <1>2
<1>4. Rank(rows, m - 1) \in Nat /\ Rank(rows, m - 1) <= k /\ IsFiniteSet(Upto(rows, m - 1))
  <2>1. m - 1 \notin S
    BY <1>1, <1>3
  <2>2. ~(k < Rank(rows, m - 1))
    BY <1>3, <2>1
  <2>3. Rank(rows, m - 1) \in Nat /\ IsFiniteSet(Upto(rows, m - 1))
    BY <1>3, RankType
  <2>4. QED
    BY <2>2, <2>3
<1>5. m \in rows
  <2> SUFFICES ASSUME m \notin rows PROVE FALSE
    OBVIOUS
  <2>1. \A x \in rows : x <= m <=> x <= m - 1
    BY <1>0, <1>3
  <2>2. Upto(rows, m) = Upto(rows, m - 1)
    BY <2>1 DEF Upto
  <2>3. k < Rank(rows, m)
    OBVIOUS
  <2>4. QED
    BY <1>4, <2>2, <2>3 DEF Rank
<1>6. Upto(rows, m) = Upto(rows, m - 1) \cup {m} /\ m \notin Upto(rows, m - 1)
  <2>1. \A x \in rows : x <= m <=> x <= m - 1 \/ x = m
    BY <1>0, <1>3
  <2>2. ~(m <= m - 1)
    BY <1>3
  <2>3. QED
    BY <1>5, <2>1, <2>2 DEF Upto
<1>7. Rank(rows, m) = Rank(rows, m - 1) + 1
  BY <1>4, <1>6, FS_AddElement DEF Rank
<1>8. Rank(rows, m) = k + 1
  <2>1. k < Rank(rows, m)
    OBVIOUS
  <2>2. QED
    BY <1>4, <1>7, <2>1
<1>9. QED
  BY <1>5, <1>8

LEMMA LimitType == \A size \in Nat : Limit(size) \in Nat \ {0}
BY SizesAssumption DEF Limit

(* Page n has the rows of the places from its offset on. *)
LEMMA OnPage ==
  ASSUME NEW rows \in SUBSET (1 .. MaxRows), NEW n \in Nat \ {0}, NEW size \in Nat
  PROVE  Page(rows, size, n).items =
           {r \in rows : (n - 1) * Limit(size) < Rank(rows, r) /\ Rank(rows, r) <= n * Limit(size)}
<1>1. Offset(size, n) = (n - 1) * Limit(size) /\ Limit(size) \in Nat
  BY LimitType DEF Offset, Number
<1>2. Offset(size, n) + Limit(size) = n * Limit(size)
  BY <1>1
<1>3. Page(rows, size, n).items = Listed(rows, Limit(size), Offset(size, n))
  BY DEF Page
<1>4. QED
  BY <1>1, <1>2, <1>3 DEF Listed, Rank, Upto

(* The last page is neither too early nor too late. *)
LEMMA PagesBeyond ==
  ASSUME NEW total \in Nat, NEW limit \in Nat \ {0}, NEW m \in Nat, m * limit < total
  PROVE  Pages(total, limit) \in Nat /\ Pages(total, limit) > m
<1> DEFINE q == (total + limit - 1) \div limit
<1>1. total > 0 /\ total + limit - 1 \in Nat
  OBVIOUS
<1>2. q \in Nat /\ total + limit - 1 < limit * q + limit
  BY <1>1, DivBounds
<1>3. q > m
  <2> SUFFICES ASSUME q <= m PROVE FALSE
    BY <1>2
  <2>1. q * limit <= m * limit
    BY <1>2, TimesKeepsOrder
  <2>2. q * limit = limit * q
    BY <1>2
  <2> HIDE DEF q
  <2>3. total - 1 < q * limit /\ q * limit \in Nat /\ m * limit \in Nat
    BY <1>2, <2>2
  <2>4. QED
    BY <2>1, <2>3
<1>4. Pages(total, limit) = q
  BY <1>1 DEF Pages
<1>5. QED
  BY <1>2, <1>3, <1>4

LEMMA PagesWithin ==
  ASSUME NEW total \in Nat, NEW limit \in Nat \ {0}
  PROVE  Pages(total, limit) \in Nat /\ Pages(total, limit) <= total
<1> DEFINE q == (total + limit - 1) \div limit
<1>1. CASE total = 0
  BY <1>1 DEF Pages
<1>2. CASE total > 0
  <2>1. q \in Nat /\ limit * q <= total + limit - 1
    BY <1>2, DivBounds
  <2>2. q <= total
    <3> SUFFICES ASSUME q >= total + 1 PROVE FALSE
      BY <2>1
    <3>1. (total + 1) * limit <= q * limit /\ q * limit = limit * q
      BY <2>1, TimesKeepsOrder
    <3>2. (total + 1) * limit = total * limit + limit
      OBVIOUS
    <3>3. 1 * total <= limit * total /\ limit * total = total * limit
      BY TimesKeepsOrder
    <3> HIDE DEF q
    <3>4. limit * q \in Nat /\ total * limit \in Nat
      BY <2>1
    <3>5. QED
      BY <2>1, <3>1, <3>2, <3>3, <3>4
  <2>3. Pages(total, limit) = q
    BY <1>2 DEF Pages
  <2>4. QED
    BY <2>1, <2>2, <2>3
<1>3. QED
  BY <1>1, <1>2

(* A page that is all below a row of the listing is a full one. *)
LEMMA PageBelow ==
  ASSUME NEW rows \in SUBSET (1 .. MaxRows), NEW r \in rows, NEW m \in Nat \ {0},
         NEW size \in Nat, m * Limit(size) < Rank(rows, r)
  PROVE  Page(rows, size, m).pages \in Nat /\ Page(rows, size, m).pages > m
<1> DEFINE L == Limit(size)
<1>0. L \in Nat \ {0}
  BY LimitType
<1>1. r \in Nat
  BY SizesAssumption
<1>2. Rank(rows, r) \in Nat /\ Rank(rows, r) <= Cardinality(rows) /\ Cardinality(rows) \in Nat
  BY <1>1, RankType
<1>3. (m - 1) * L \in Nat /\ m * L = (m - 1) * L + L /\ m * L \in Nat
  BY <1>0
<1> HIDE DEF L
<1>4. (m - 1) * L < Rank(rows, r)
  BY <1>0, <1>2, <1>3 DEF L
<1>5. PICK x \in rows : Rank(rows, x) = (m - 1) * L + 1
  BY <1>3, <1>4, RowOfRank
<1>6. (m - 1) * L < Rank(rows, x) /\ Rank(rows, x) <= m * L
  BY <1>0, <1>3, <1>5
<1>7. Page(rows, size, m).items # {}
  BY <1>5, <1>6, OnPage DEF L
<1>8. Page(rows, size, m).pages = Pages(Cardinality(rows), L)
  BY <1>7 DEF Page, L
<1>9. m * L < Cardinality(rows)
  <2>1. m * L < Rank(rows, r)
    BY DEF L
  <2>2. QED
    BY <1>2, <1>3, <2>1
<1>10. QED
  BY <1>0, <1>2, <1>8, <1>9, PagesBeyond

(* No reply says there are more pages than rows. *)
LEMMA PagesBounded ==
  ASSUME NEW rows \in SUBSET (1 .. MaxRows), NEW m \in Nat \ {0}, NEW size \in Nat
  PROVE  ~(Page(rows, size, m).pages > MaxRows)
<1>1. Cardinality(rows) \in Nat /\ Cardinality(rows) <= MaxRows
  BY RankType
<1>2. PICK total \in {0, Cardinality(rows)} : Page(rows, size, m).pages = Pages(total, Limit(size))
  BY DEF Page
<1>3. Pages(total, Limit(size)) \in Nat /\ Pages(total, Limit(size)) <= total
  BY <1>1, LimitType, PagesWithin
<1>4. QED
  BY <1>1, <1>2, <1>3, SizesAssumption

(* No row is on two pages of one listing. *)
LEMMA PagesApart ==
  ASSUME NEW rows \in SUBSET (1 .. MaxRows), NEW size \in Nat,
         NEW m \in Nat \ {0}, NEW n \in Nat \ {0}, m < n
  PROVE  Page(rows, size, m).items \cap Page(rows, size, n).items = {}
<1> DEFINE L == Limit(size)
<1>0. L \in Nat \ {0}
  BY LimitType
<1>1. m * L \in Nat /\ (n - 1) * L \in Nat /\ m * L <= (n - 1) * L
  BY <1>0, TimesKeepsOrder
<1> HIDE DEF L
<1>2. SUFFICES ASSUME NEW r \in rows, Rank(rows, r) <= m * L, (n - 1) * L < Rank(rows, r)
               PROVE  FALSE
  BY OnPage DEF L
<1>3. Rank(rows, r) \in Nat
  BY RankType, SizesAssumption
<1>4. QED
  BY <1>1, <1>2, <1>3

-----------------------------------------------------------------------------
(* What Covered compares: the rows there at each reply, and the walk. *)
RowsAt(there, n)        == {r \in 1 .. MaxRows : n \in there[r]}
ReplyAt(there, size, n) == Page(RowsAt(there, n), size, n)
WalkOf(there, size) ==
  {n \in 1 .. MaxRows + 1 : \A m \in 1 .. n - 1 : ReplyAt(there, size, m).pages > m}
StaysIn(there, r) == \A n \in 1 .. MaxRows : n \in there[r] => n + 1 \in there[r]

Listing == [1 .. MaxRows -> SUBSET (1 .. MaxRows + 1)]

(* A row that stays is in every reply from the first. *)
LEMMA RowStays ==
  ASSUME NEW there \in Listing, NEW r \in RowsAt(there, 1), StaysIn(there, r),
         NEW n \in 1 .. MaxRows + 1
  PROVE  r \in RowsAt(there, n)
<1> DEFINE S == {m \in 1 .. MaxRows + 1 : m \notin there[r]}
<1>0. r \in 1 .. MaxRows /\ 1 \in there[r] /\ MaxRows \in Nat
  BY SizesAssumption DEF RowsAt
<1> SUFFICES ASSUME n \notin there[r] PROVE FALSE
  BY <1>0 DEF RowsAt
<1>1. PICK m \in S : \A x \in S : m <= x
  <2>1. S \in SUBSET Nat /\ S # {}
    BY <1>0
  <2>2. QED
    BY <2>1, LeastIn
<1>2. m # 1
  BY <1>0
<1>3. m - 1 \in 1 .. MaxRows /\ m - 1 \notin S
  BY <1>0, <1>1, <1>2
<1>4. m - 1 \in there[r]
  BY <1>0, <1>3
<1>5. QED
  BY <1>3, <1>4 DEF StaysIn

(* Whoever was there at the first reply, and before whom nobody goes, is on a *)
(* page of the walk: the first whose end is not before their place.           *)
LEMMA WalkFinds ==
  ASSUME NEW there \in Listing, NEW size \in Nat, NEW r \in RowsAt(there, 1),
         \A x \in 1 .. r : StaysIn(there, x)
  PROVE  \E n \in WalkOf(there, size) : r \in ReplyAt(there, size, n).items
<1> DEFINE L == Limit(size)
           place(n) == Rank(RowsAt(there, n), r)
           S == {n \in Nat : n # 0 /\ place(n) <= n * L}
<1>0. L \in Nat \ {0}
  BY LimitType
<1>1. r \in 1 .. MaxRows /\ r \in Nat /\ MaxRows \in Nat \ {0}
  BY SizesAssumption DEF RowsAt
<1>2. \A n \in Nat : RowsAt(there, n) \in SUBSET (1 .. MaxRows)
  BY DEF RowsAt
<1>3. \A n \in Nat : place(n) \in Nat /\ place(n) <= MaxRows
  <2> TAKE n \in Nat
  <2>1. /\ place(n) \in Nat /\ place(n) <= Cardinality(RowsAt(there, n))
        /\ Cardinality(RowsAt(there, n)) \in Nat /\ Cardinality(RowsAt(there, n)) <= MaxRows
    BY <1>1, <1>2, RankType
  <2>2. QED
    BY <1>1, <2>1
<1>4. \A n \in 1 .. MaxRows : r \in RowsAt(there, n)
  BY <1>1, RowStays
<1> HIDE DEF L, place
<1>5. MaxRows \in S
  <2>1. 1 * MaxRows <= L * MaxRows /\ L * MaxRows = MaxRows * L /\ MaxRows * L \in Nat
    BY <1>0, <1>1, TimesKeepsOrder
  <2>2. QED
    BY <1>1, <1>3, <2>1
<1>6. PICK n \in S : \A x \in S : n <= x
  <2>1. S \in SUBSET Nat /\ S # {}
    BY <1>5
  <2>2. QED
    BY <2>1, LeastIn
<1>7. n \in 1 .. MaxRows
  BY <1>1, <1>5, <1>6
<1>8. \A m \in 1 .. n - 1 : m * L < place(m)
  <2> TAKE m \in 1 .. n - 1
  <2>1. m \in Nat \ {0} /\ m \notin S
    BY <1>6, <1>7
  <2>2. place(m) \in Nat /\ m * L \in Nat
    BY <1>0, <1>3, <2>1
  <2>3. QED
    BY <2>1, <2>2
<1>9. n \in WalkOf(there, size)
  <2>1. ASSUME NEW m \in 1 .. n - 1 PROVE ReplyAt(there, size, m).pages > m
    <3>1. m \in Nat \ {0} /\ m \in 1 .. MaxRows
      BY <1>1, <1>7
    <3>2. m * Limit(size) < Rank(RowsAt(there, m), r)
      BY <1>8 DEF L, place
    <3>3. QED
      BY <1>2, <1>4, <3>1, <3>2, PageBelow DEF ReplyAt
  <2>2. QED
    BY <1>1, <1>7, <2>1 DEF WalkOf
<1>10. (n - 1) * L < place(n)
  <2>1. CASE n = 1
    <3>1. (n - 1) * L = 0
      BY <1>0, <2>1
    <3>2. r \in Upto(RowsAt(there, n), r)
      BY <1>1, <1>4, <1>7 DEF Upto
    <3>3. IsFiniteSet(Upto(RowsAt(there, n), r))
      BY <1>1, <1>2, <1>7, RankType
    <3>4. place(n) # 0
      BY <3>2, <3>3, FS_EmptySet DEF place, Rank
    <3>5. QED
      BY <1>3, <1>7, <3>1, <3>4
  <2>2. CASE n > 1
    <3>1. n - 1 \in 1 .. n - 1 /\ n - 1 \in 1 .. MaxRows /\ n - 1 \in Nat /\ n \in Nat
      BY <1>1, <1>7, <2>2
    <3>2. (n - 1) * L < place(n - 1)
      BY <1>8, <3>1
    <3>3. Upto(RowsAt(there, n - 1), r) \subseteq RowsAt(there, n)
      <4> SUFFICES ASSUME NEW x \in RowsAt(there, n - 1), x <= r PROVE x \in RowsAt(there, n)
        BY DEF Upto
      <4>1. x \in 1 .. MaxRows /\ x \in 1 .. r /\ n - 1 \in there[x]
        BY <1>1 DEF RowsAt
      <4>2. (n - 1) + 1 \in there[x] /\ (n - 1) + 1 = n
        BY <3>1, <4>1 DEF StaysIn
      <4>3. QED
        BY <4>1, <4>2 DEF RowsAt
    <3>4. place(n - 1) <= place(n)
      BY <1>1, <1>2, <3>1, <3>3, RankGrows DEF place
    <3>5. (n - 1) * L \in Nat /\ place(n - 1) \in Nat /\ place(n) \in Nat
      BY <1>0, <1>3, <3>1
    <3>6. QED
      BY <3>2, <3>4, <3>5
  <2>3. QED
    BY <1>7, <2>1, <2>2
<1>11. r \in ReplyAt(there, size, n).items
  <2>1. n \in Nat \ {0} /\ RowsAt(there, n) \in SUBSET (1 .. MaxRows) /\ r \in RowsAt(there, n)
    BY <1>2, <1>4, <1>7
  <2>2. place(n) <= n * L
    BY <1>6
  <2>3. QED
    BY <1>10, <2>1, <2>2, OnPage DEF ReplyAt, L, place
<1>12. QED
  BY <1>9, <1>11

(* When nothing changes meanwhile, the walk ends where the rows do, and no    *)
(* row is met twice.                                                          *)
LEMMA WalkMeetsOnce ==
  ASSUME NEW there \in Listing, NEW size \in Nat,
         \A k \in 2 .. MaxRows : RowsAt(there, k) = RowsAt(there, 1),
         NEW m \in WalkOf(there, size), NEW n \in WalkOf(there, size), m # n
  PROVE  ReplyAt(there, size, m).items \cap ReplyAt(there, size, n).items = {}
<1>0. MaxRows \in Nat
  BY SizesAssumption
<1>1. m \in 1 .. MaxRows + 1 /\ n \in 1 .. MaxRows + 1
  BY DEF WalkOf
<1>2. MaxRows # 0
  BY <1>0, <1>1
<1>3. ASSUME NEW p \in WalkOf(there, size)
      PROVE  p \in 1 .. MaxRows /\ RowsAt(there, p) = RowsAt(there, 1)
  <2>1. p \in 1 .. MaxRows + 1 /\ \A q \in 1 .. p - 1 : ReplyAt(there, size, q).pages > q
    BY DEF WalkOf
  <2>2. RowsAt(there, MaxRows) \in SUBSET (1 .. MaxRows)
    BY DEF RowsAt
  <2>3. ~(ReplyAt(there, size, MaxRows).pages > MaxRows)
    BY <1>0, <1>2, <2>2, PagesBounded DEF ReplyAt
  <2>4. p \in 1 .. MaxRows
    BY <1>0, <1>2, <2>1, <2>3
  <2>5. p = 1 \/ p \in 2 .. MaxRows
    BY <1>0, <2>4
  <2>6. QED
    BY <2>4, <2>5
<1>4. /\ m \in Nat \ {0} /\ RowsAt(there, m) = RowsAt(there, 1)
      /\ n \in Nat \ {0} /\ RowsAt(there, n) = RowsAt(there, 1)
  BY <1>0, <1>3
<1>5. RowsAt(there, 1) \in SUBSET (1 .. MaxRows)
  BY DEF RowsAt
<1>6. CASE m < n
  BY <1>4, <1>5, <1>6, PagesApart DEF ReplyAt
<1>7. CASE n < m
  <2>1. ReplyAt(there, size, n).items \cap ReplyAt(there, size, m).items = {}
    BY <1>4, <1>5, <1>7, PagesApart DEF ReplyAt
  <2>2. QED
    BY <2>1
<1>8. QED
  BY <1>4, <1>6, <1>7

LEMMA AllCovered == 0 .. MaxRows \subseteq Covered
<1>1. ASSUME NEW there \in Listing, NEW size \in 0 .. MaxPageSize + 1
      PROVE  /\ \A r \in RowsAt(there, 1) :
                   (\A x \in 1 .. r : StaysIn(there, x)) =>
                     \E n \in WalkOf(there, size) : r \in ReplyAt(there, size, n).items
             /\ (\A n \in 2 .. MaxRows : RowsAt(there, n) = RowsAt(there, 1)) =>
                  \A m, n \in WalkOf(there, size) :
                    m # n => ReplyAt(there, size, m).items \cap ReplyAt(there, size, n).items = {}
  <2>1. size \in Nat
    BY SizesAssumption
  <2>2. QED
    BY <2>1, WalkFinds, WalkMeetsOnce
<1>2. QED
  BY <1>1 DEF Covered, WalkOf, ReplyAt, RowsAt, StaysIn, Listing

(* Who pages through the directory to its end sees everybody who was in it    *)
(* when they began and stays, whoever is added meanwhile, provided that no    *)
(* name before theirs is dropped or changed; and nobody twice when nothing    *)
(* changes: for a directory and pages of any size (directory.go:50-52).       *)
THEOREM DirectoryIsCovered == Spec => []PagesCover
<1>1. SiteInv => PagesCover
  BY AllCovered DEF SiteInv, SiteTypeOK, PagesCover
<1>2. QED
  BY <1>1, SiteHolds, SiteKept, PTL DEF Spec
=============================================================================
