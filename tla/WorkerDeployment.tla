-------------------------- MODULE WorkerDeployment --------------------------
(***************************************************************************)
(* A deployment of an app, performed by the controller's worker: the job   *)
(* of the queue, DeployJob and its strategies, the rollback of a           *)
(* deployment that failed and the retry of a job that ended with an error. *)
(* The scheduler moves the running jobs of a release towards its formation *)
(* one by one.  A scale request is complete when they agree.               *)
(***************************************************************************)
EXTENDS Integers, Sequences

CONSTANTS
  ProcessTypes,  \* process types of the old release, in the order of their names
  Processes,     \* the jobs it has of each
  Deployments,   \* the deployments that may be asked for
  MaxStops,      \* bounds: shutdowns of the worker
  MaxErrors,     \* requests to the controller that fail
  MaxTimeouts    \* scale requests that take too long

VARIABLES
  deployment,    \* strategy, batch size, the types the new release keeps, those that do not start
  oldFormation,  \* the formations of the two releases in the database
  newFormation,
  oldJobs,       \* the running jobs of the two releases
  newJobs,
  record,        \* in the database: finished_at, the last event, the app's release,
                 \* and whether there is a formation of the new release
  job,           \* the job of the queue
  d,             \* HandleDeployment and its DeployJob
  count          \* what has happened, for the bounds and the properties

vars == <<deployment, oldFormation, newFormation, oldJobs, newJobs, record, job, d, count>>

TypeSet == {ProcessTypes[j] : j \in 1..Len(ProcessTypes)}
Zero == [t \in TypeSet |-> 0]
Strategies == {"one-by-one", "in-batches", "one-down-one-up", "all-at-once"}

(* The deployment has been added with the processes of the old formation,  *)
(* which runs, and its job is in the queue.                                *)
Init ==
  /\ deployment \in Deployments
  /\ oldFormation = Processes /\ newFormation = Zero
  /\ oldJobs = Processes /\ newJobs = Zero
  /\ record = [finished |-> FALSE, event |-> "pending", release |-> "old", created |-> FALSE]
  /\ job = "queued"
  /\ d = [pc |-> "idle", j |-> 1, i |-> 0, dir |-> "up", original |-> Zero]
  /\ count = [stops |-> 0, errors |-> 0, timeouts |-> 0, halfway |-> 0, misread |-> FALSE]

-----------------------------------------------------------------------------
(* The direction of a strategy's first request, and how many jobs a        *)
(* request is about.                                                       *)
First_Down == IF deployment.strategy = "all-at-once" THEN "all" ELSE "down"
First ==
  CASE deployment.strategy = "all-at-once"     -> "all"
    [] deployment.strategy = "one-down-one-up" -> "down"
    [] OTHER                                   -> "up"
BatchSize == IF deployment.strategy = "in-batches" THEN deployment.batch ELSE 1

(* Where DeployJob goes after a request: through the loop of one process   *)
(* type, whose body is a request in either direction.                      *)
scaleUpDownInBatches(c) ==
  IF c.dir = "up" THEN [c EXCEPT !.dir = "down"]
  ELSE [c EXCEPT !.dir = "up", !.i = @ + BatchSize]
scaleOneDownOneUp(c) ==
  IF c.dir = "down" THEN [c EXCEPT !.dir = "up"] ELSE [c EXCEPT !.dir = "down", !.i = @ + 1]
Advanced(c) ==
  CASE deployment.strategy = "all-at-once"     -> [c EXCEPT !.dir = "down"]
    [] deployment.strategy = "one-down-one-up" -> scaleOneDownOneUp(c)
    [] OTHER                                   -> scaleUpDownInBatches(c)

-----------------------------------------------------------------------------
(* The worker takes the job.  The formation it finds is the one that a     *)
(* rollback restores, and a new release that has all its processes is      *)
(* taken as deployed.  The deployment may be halfway, after a worker that  *)
(* stopped or whose rollback failed; the worker misreads it when the old   *)
(* release is not scaled down although the new one has all its processes,  *)
(* or is no longer what all-at-once copies to the new one.                 *)
Halfway == oldFormation # Processes \/ newJobs # newFormation
Misread ==
  \/ newFormation = Processes /\ oldFormation # Zero
  \/ deployment.strategy = "all-at-once" /\ oldFormation # Processes
Perform ==
  /\ job = "queued" /\ job' = "working"
  /\ d' = [pc |-> IF newFormation = Processes THEN "release" ELSE "scale",
           j |-> 1, i |-> 0, dir |-> First, original |-> oldFormation]
  /\ count' = [count EXCEPT !.halfway = IF Halfway THEN @ + 1 ELSE @, !.misread = @ \/ Misread]
  /\ UNCHANGED <<deployment, oldFormation, newFormation, oldJobs, newJobs, record>>

(* The loops over the types and over the jobs of one: the body is done     *)
(* while i is less than its processes.                                     *)
Type == ProcessTypes[d.j]
InBody ==
  /\ d.pc = "scale" /\ deployment.strategy # "all-at-once" /\ d.j <= Len(ProcessTypes)
  /\ d.dir = First => d.i < Processes[Type]

NextType ==
  /\ d.pc = "scale" /\ deployment.strategy # "all-at-once" /\ d.j <= Len(ProcessTypes)
  /\ d.dir = First /\ d.i >= Processes[Type]
  /\ d' = [d EXCEPT !.j = @ + 1, !.i = 0]
  /\ UNCHANGED <<deployment, oldFormation, newFormation, oldJobs, newJobs, record, job, count>>

scaleEnd ==
  /\ d.pc = "scale" /\ deployment.strategy # "all-at-once" /\ d.j > Len(ProcessTypes)
  /\ d' = [d EXCEPT !.pc = "release"]
  /\ UNCHANGED <<deployment, oldFormation, newFormation, oldJobs, newJobs, record, job, count>>

(* scaleNewFormationUp and scaleOldFormationDown: nothing to ask for when  *)
(* the new release lacks the type or has all its jobs, or the old one has  *)
(* none; never above the processes of the deployment, never below zero.    *)
UpAsks == InBody /\ d.dir = "up" /\ Type \in deployment.kept /\ newFormation[Type] # Processes[Type]
DownAsks == InBody /\ d.dir = "down" /\ oldFormation[Type] # 0

scaleNewFormationUp ==
  /\ UpAsks
  /\ newFormation' = [newFormation EXCEPT ![Type] =
                        IF @ + BatchSize > Processes[Type] THEN Processes[Type] ELSE @ + BatchSize]
  /\ d' = [d EXCEPT !.pc = "wait"] /\ record' = [record EXCEPT !.created = TRUE]
  /\ UNCHANGED <<deployment, oldFormation, oldJobs, newJobs, job, count>>

scaleOldFormationDown ==
  /\ DownAsks
  /\ oldFormation' = [oldFormation EXCEPT ![Type] = IF @ < BatchSize THEN 0 ELSE @ - BatchSize]
  /\ d' = [d EXCEPT !.pc = "wait"]
  /\ UNCHANGED <<deployment, newFormation, oldJobs, newJobs, record, job, count>>

scaleNothing ==
  /\ InBody /\ ~UpAsks /\ ~DownAsks
  /\ d' = Advanced(d)
  /\ UNCHANGED <<deployment, oldFormation, newFormation, oldJobs, newJobs, record, job, count>>

(* All new jobs, and then no old ones, for which it does not wait. *)
deployAllAtOnce ==
  /\ d.pc = "scale" /\ deployment.strategy = "all-at-once"
  /\ \/ /\ d.dir = "all"
        /\ newFormation' = [t \in TypeSet |-> IF t \in deployment.kept THEN oldFormation[t] ELSE 0]
        /\ d' = [d EXCEPT !.pc = "wait"] /\ UNCHANGED oldFormation
        /\ record' = [record EXCEPT !.created = TRUE]
     \/ /\ d.dir = "down"
        /\ oldFormation' = Zero
        /\ d' = [d EXCEPT !.pc = "release"] /\ UNCHANGED <<newFormation, record>>
  /\ UNCHANGED <<deployment, oldJobs, newJobs, job, count>>

scaleComplete ==
  /\ d.pc = "wait"
  /\ IF d.dir = "down" THEN oldJobs = oldFormation ELSE newJobs = newFormation
  /\ d' = [Advanced(d) EXCEPT !.pc = "scale"]
  /\ UNCHANGED <<deployment, oldFormation, newFormation, oldJobs, newJobs, record, job, count>>

(* New jobs went down more often than newJobFailureThreshold allows. *)
newJobsFail ==
  /\ d.pc = "wait" /\ d.dir # "down"
  /\ \E t \in deployment.bad : newJobs[t] < newFormation[t]
  /\ d' = [d EXCEPT !.pc = "failed"]
  /\ UNCHANGED <<deployment, oldFormation, newFormation, oldJobs, newJobs, record, job, count>>

(* The deploy timeout, and the ten seconds of the rollback, after which    *)
(* the job ends with an error.                                             *)
scaleTimeout ==
  /\ count.timeouts < MaxTimeouts
  /\ count' = [count EXCEPT !.timeouts = @ + 1]
  /\ \/ /\ d.pc = "wait"
        /\ d' = [d EXCEPT !.pc = "failed"] /\ UNCHANGED <<record, job>>
     \/ /\ d.pc = "restoring"
        /\ record' = [record EXCEPT !.event = "failed"]
        /\ job' = "queued" /\ d' = [d EXCEPT !.pc = "idle"]
  /\ UNCHANGED <<deployment, oldFormation, newFormation, oldJobs, newJobs>>

(* A request that fails.  Once the new jobs of all-at-once are up there is *)
(* no rollback.                                                            *)
requestFails ==
  /\ UpAsks \/ DownAsks \/ d.pc = "release"
       \/ (d.pc = "scale" /\ deployment.strategy = "all-at-once")
  /\ count.errors < MaxErrors
  /\ count' = [count EXCEPT !.errors = @ + 1]
  /\ d' = [d EXCEPT !.pc = IF /\ d.pc = "scale" /\ d.dir = "down"
                              /\ deployment.strategy = "all-at-once"
                           THEN "skipped" ELSE "failed"]
  /\ UNCHANGED <<deployment, oldFormation, newFormation, oldJobs, newJobs, record, job>>

(* Shutdown of the worker: a deployment that is waiting ends with          *)
(* ErrStopped and is left to another worker; a rollback ends with an       *)
(* error.                                                                  *)
stopped ==
  /\ d.pc \in {"wait", "restoring"} /\ count.stops < MaxStops
  /\ count' = [count EXCEPT !.stops = @ + 1]
  /\ job' = "queued" /\ d' = [d EXCEPT !.pc = "idle"]
  /\ record' = IF d.pc = "restoring" THEN [record EXCEPT !.event = "failed"] ELSE record
  /\ UNCHANGED <<deployment, oldFormation, newFormation, oldJobs, newJobs>>

SetAppRelease ==
  /\ d.pc = "release"
  /\ record' = [record EXCEPT !.finished = TRUE, !.event = "complete", !.release = "new"]
  /\ job' = "done" /\ d' = [d EXCEPT !.pc = "idle"]
  /\ UNCHANGED <<deployment, oldFormation, newFormation, oldJobs, newJobs, count>>

(* The deployment is marked as done, and then rolled back: the formation   *)
(* of the old release is restored, and the one of the new is deleted.      *)
rollback ==
  /\ d.pc = "failed"
  /\ record' = [record EXCEPT !.finished = TRUE]
  /\ oldFormation' = d.original
  /\ d' = [d EXCEPT !.pc = "restoring"]
  /\ UNCHANGED <<deployment, newFormation, oldJobs, newJobs, job, count>>

(* The deployment ends, or an error leaves it to another attempt. *)
Failed(next) ==
  /\ job' = next /\ d' = [d EXCEPT !.pc = "idle"]
  /\ UNCHANGED <<deployment, oldFormation, oldJobs, newJobs>>
Restored == d.pc = "restoring" /\ oldJobs = oldFormation

DeleteFormation_Kept ==
  /\ Restored /\ record.created
  /\ record' = [record EXCEPT !.event = "failed"]
  /\ Failed("done") /\ UNCHANGED <<newFormation, count>>
DeleteFormation ==
  /\ Restored /\ record.created
  /\ newFormation' = Zero /\ record' = [record EXCEPT !.event = "failed", !.created = FALSE]
  /\ Failed("done") /\ UNCHANGED count

(* Nothing had been asked of the new release yet: an error. *)
NothingToDelete ==
  /\ Restored /\ ~record.created
  /\ record' = [record EXCEPT !.event = "failed"]
  /\ Failed("queued") /\ UNCHANGED <<newFormation, count>>

(* A request of the rollback fails: the old formation stays as it is or is *)
(* restored without an answer, or the new one stays.                       *)
rollbackFails ==
  /\ d.pc \in {"failed", "restoring"} /\ count.errors < MaxErrors
  /\ count' = [count EXCEPT !.errors = @ + 1]
  /\ record' = [record EXCEPT !.finished = TRUE, !.event = "failed"]
  /\ Failed("queued") /\ UNCHANGED newFormation

skipRollback ==
  /\ d.pc = "skipped"
  /\ record' = [record EXCEPT !.finished = TRUE, !.event = "failed"]
  /\ job' = "done" /\ d' = [d EXCEPT !.pc = "idle"]
  /\ UNCHANGED <<deployment, oldFormation, newFormation, oldJobs, newJobs, count>>

(* The scheduler starts or stops a job. *)
ScheduleJob ==
  /\ \E t \in TypeSet :
       \/ /\ oldJobs[t] < oldFormation[t]
          /\ oldJobs' = [oldJobs EXCEPT ![t] = @ + 1] /\ UNCHANGED newJobs
       \/ /\ oldJobs[t] > oldFormation[t]
          /\ oldJobs' = [oldJobs EXCEPT ![t] = @ - 1] /\ UNCHANGED newJobs
       \/ /\ newJobs[t] < newFormation[t] /\ t \notin deployment.bad
          /\ newJobs' = [newJobs EXCEPT ![t] = @ + 1] /\ UNCHANGED oldJobs
       \/ /\ newJobs[t] > newFormation[t]
          /\ newJobs' = [newJobs EXCEPT ![t] = @ - 1] /\ UNCHANGED oldJobs
  /\ UNCHANGED <<deployment, oldFormation, newFormation, record, job, d, count>>

Worker ==
  \/ Perform \/ NextType \/ scaleEnd \/ scaleNewFormationUp \/ scaleOldFormationDown
  \/ scaleNothing \/ deployAllAtOnce \/ scaleComplete \/ newJobsFail
  \/ SetAppRelease \/ rollback \/ DeleteFormation \/ NothingToDelete \/ skipRollback

Next == Worker \/ scaleTimeout \/ requestFails \/ rollbackFails \/ stopped \/ ScheduleJob

Spec == Init /\ [][Next]_vars

(* Workers take jobs and go on with them, and the scheduler follows the    *)
(* formations.                                                             *)
Fairness == WF_vars(Worker) /\ WF_vars(ScheduleJob)

-----------------------------------------------------------------------------
(* The formations and the jobs stay within the processes of the            *)
(* deployment.                                                             *)
Within(f) == f \in [TypeSet -> Nat] /\ \A t \in TypeSet : f[t] <= Processes[t]
TypeOK ==
  /\ deployment \in Deployments
  /\ Within(oldFormation) /\ Within(newFormation) /\ Within(oldJobs) /\ Within(newJobs)
  /\ record \in [finished : BOOLEAN, event : {"pending", "complete", "failed"},
                 release : {"old", "new"}, created : BOOLEAN]
  /\ job \in {"queued", "working", "done"}
  /\ d \in [pc : {"idle", "scale", "wait", "release", "failed", "restoring", "skipped"},
            j : Nat, i : Nat, dir : {"up", "down", "all"}, original : [TypeSet -> Nat]]
  /\ Within(d.original)
  /\ count \in [stops : Nat, errors : Nat, timeouts : Nat, halfway : Nat, misread : BOOLEAN]

(* A deployment takes no capacity away: of a type that stays, old and new  *)
(* jobs together are never fewer than before (by one with                  *)
(* one-down-one-up), whether it goes on, fails, is rolled back or is       *)
(* retried from the beginning.  A worker that takes up a deployment which  *)
(* is halfway does not wait for the new jobs that were asked for before,   *)
(* and restores what it found.                                             *)
Slack == IF deployment.strategy = "one-down-one-up" THEN 1 ELSE 0
EnoughJobs ==
  count.halfway = 0 =>
    \A t \in deployment.kept : oldJobs[t] + newJobs[t] >= Processes[t] - Slack

(* In the end the deployment is over, and what runs is what it says: the   *)
(* new release alone when it is complete, and when it failed the old one   *)
(* as the last attempt found it, and nothing of the new one unless all its *)
(* jobs were up.  The jobs that run are not claimed when an attempt has    *)
(* misread what an earlier one left.                                       *)
NewProcesses == [t \in TypeSet |-> IF t \in deployment.kept THEN Processes[t] ELSE 0]
Over ==
  /\ job = "done" /\ record.finished
  /\ \/ /\ record.event = "complete" /\ record.release = "new"
        /\ count.misread \/ (oldJobs = Zero /\ newJobs = NewProcesses)
     \/ /\ record.event = "failed" /\ record.release = "old" /\ oldJobs = d.original
        /\ \/ newJobs = Zero
           \/ deployment.strategy = "all-at-once" /\ (count.misread \/ newJobs = NewProcesses)
DeployEnds == <>[]Over
=============================================================================
