------------------------- MODULE DiscoverdDeployment ------------------------
(***************************************************************************)
(* The deployment of a service whose jobs take over one at a time:         *)
(* discoverd/deployment/deployment.go, used by the jobs (Run of            *)
(* discoverd/main.go) and by the controller's deployer                     *)
(* (controller/worker/deployment/discoverd_meta.go).  They agree through   *)
(* the metadata of the service, which is written with compare-and-swap and *)
(* read from the events of a watch, in order and with any delay.           *)
(***************************************************************************)
EXTENDS Naturals, Sequences, FiniteSets

CONSTANTS Addrs,        \* the addresses of the service's jobs
          MaxCreates,   \* bound on deployments
          MaxRestarts,  \* bound on jobs that start again
          MaxLost,      \* bound on writes whose request or answer is lost
          Timeouts      \* whether a job that waits may give up

ASSUME DeploymentAssumption ==
  /\ IsFiniteSet(Addrs) /\ MaxCreates \in Nat /\ MaxRestarts \in Nat
  /\ MaxLost \in Nat /\ Timeouts \in BOOLEAN

VARIABLES
  hist,      \* the versions of the metadata; the first stands for none at all
  job,       \* each job: where it is, and the last version it has heard of
  deployer,  \* the deployer's, with the deployment it has created
  faults     \* restarts and lost messages

vars == <<hist, job, deployer, faults>>

DeploymentState == {"none", "performing", "done"}
DeploymentMeta == [id : 0..MaxCreates, states : [Addrs -> DeploymentState]]
NewDeploymentMeta(id) == [id |-> id, states |-> [a \in Addrs |-> "none"]]

Last == Len(hist)

Init ==
  /\ hist = << NewDeploymentMeta(0) >>
  /\ job = [a \in Addrs |-> [state |-> "new", pos |-> 1]]
  /\ deployer = [state |-> "idle", pos |-> 1, id |-> 0]
  /\ faults = [restarts |-> 0, lost |-> 0]

-----------------------------------------------------------------------------
(* update takes at most one event, which may not have arrived yet. *)
update(pos) == {pos} \cup (IF pos < Last THEN {pos + 1} ELSE {})

(* Mutant: the index is not compared. *)
set_AnyIndex(pos, meta, ok) ==
  hist' = Append(hist, meta) /\ ok /\ UNCHANGED faults

(* SetMeta with the index of a version: it is stored if that is the last.  *)
(* ok says whether the writer is told so.                                  *)
set(pos, meta, ok) ==
  \/ /\ pos = Last /\ hist' = Append(hist, meta) /\ ok /\ UNCHANGED faults
  \/ /\ pos # Last /\ ~ok /\ UNCHANGED <<hist, faults>>
  \/ /\ ~ok /\ faults.lost < MaxLost /\ faults' = [faults EXCEPT !.lost = @ + 1]
     /\ \/ UNCHANGED hist
        \/ pos = Last /\ hist' = Append(hist, meta)

Move(a, state, pos) == job' = [job EXCEPT ![a] = [state |-> state, pos |-> pos]]

(* A job of the new release starts next to the one it replaces.  The state *)
(* of the service it receives may be an old one.                           *)
NewDeployment(a) ==
  /\ job[a].state = "new" /\ deployer.state = "waiting"
  /\ \E p \in 1..Last : Move(a, "marking", p)
  /\ UNCHANGED <<hist, deployer, faults>>

(* Mutant: a job does not look for another that is performing. *)
Performing_None(p, a) == {}

Performing(p, a) == {b \in Addrs \ {a} : hist[p].states[b] = "performing"}

(* The states are read in any order: a job that is listed, in whatever     *)
(* state, returns at once unless it first meets one that is performing.    *)
MarkPerformingKnown(a) ==
  /\ job[a].state = "marking"
  /\ \E p \in update(job[a].pos) :
       hist[p].states[a] # "none" /\ Move(a, "performing", p)
  /\ UNCHANGED <<hist, deployer, faults>>

(* Without metadata, or while another job is performing, it waits for an   *)
(* event or gives up.                                                      *)
MarkPerformingWait(a) ==
  /\ job[a].state = "marking"
  /\ \E p \in update(job[a].pos) :
       /\ p = 1 \/ Performing(p, a) # {}
       /\ \/ p < Last /\ Move(a, "marking", p + 1)
          \/ Timeouts /\ Move(a, "failed", p)
  /\ UNCHANGED <<hist, deployer, faults>>

MarkPerforming(a) ==
  /\ job[a].state = "marking"
  /\ \E p \in update(job[a].pos), ok \in BOOLEAN :
       /\ p # 1 /\ hist[p].states[a] = "none" /\ Performing(p, a) = {}
       /\ set(p, [hist[p] EXCEPT !.states[a] = "performing"], ok)
       /\ Move(a, IF ok THEN "performing" ELSE "marking", p)
  /\ UNCHANGED deployer

(* The job stops the one it replaces and serves in its place. *)
TakeOver(a) ==
  /\ job[a].state = "performing" /\ Move(a, "serving", job[a].pos)
  /\ UNCHANGED <<hist, deployer, faults>>

(* Mutant: a write that fails is not repeated. *)
MarkDone_Once(a) ==
  /\ job[a].state = "serving"
  /\ \E p \in update(job[a].pos), ok \in BOOLEAN :
       /\ set(p, [hist[p] EXCEPT !.states[a] = "done"], ok)
       /\ Move(a, "finished", p)
  /\ UNCHANGED deployer

MarkDone(a) ==
  /\ job[a].state = "serving"
  /\ \E p \in update(job[a].pos), ok \in BOOLEAN :
       /\ set(p, [hist[p] EXCEPT !.states[a] = "done"], ok)
       /\ IF ok THEN Move(a, "finished", Len(hist')) ELSE Move(a, "serving", p)
  /\ UNCHANGED deployer

(* A job that failed or crashed is started again by the scheduler. *)
Restart(a) ==
  /\ job[a].state # "new" /\ faults.restarts < MaxRestarts
  /\ faults' = [faults EXCEPT !.restarts = @ + 1]
  /\ Move(a, "new", 1)
  /\ UNCHANGED <<hist, deployer>>

-----------------------------------------------------------------------------
(* The deployer: Create tries without an index first, then with that of    *)
(* the metadata it knows; without any it dereferences nil.                 *)
NewDeployer ==
  /\ deployer.state = "idle" /\ deployer.id < MaxCreates
  /\ \E p \in 1..Last :
       deployer' = [state |-> "creating", pos |-> p, id |-> deployer.id + 1]
  /\ UNCHANGED <<hist, job, faults>>

CreateFirst ==
  /\ deployer.state = "creating"
  /\ \E ok \in BOOLEAN :
       /\ set(1, NewDeploymentMeta(deployer.id), ok)
       /\ deployer' = [deployer EXCEPT !.state = IF ok THEN "waiting" ELSE "replacing"]
  /\ UNCHANGED job

Create ==
  /\ deployer.state = "replacing"
  /\ \E p \in update(deployer.pos), ok \in BOOLEAN :
       IF p = 1
       THEN deployer' = [deployer EXCEPT !.state = "panic"] /\ UNCHANGED <<hist, faults>>
       ELSE /\ set(p, NewDeploymentMeta(deployer.id), ok)
            /\ deployer' = [deployer EXCEPT
                 !.state = IF ok THEN "waiting" ELSE "creating", !.pos = p]
  /\ UNCHANGED job

Done(meta) == {a \in Addrs : meta.states[a] = "done"}

(* Wait looks at each version once: the deployment's own, with as many     *)
(* done as there were instances, ends it.  A timeout ends the deployment.  *)
Wait ==
  /\ deployer.state = "waiting"
  /\ \/ /\ deployer.pos < Last
        /\ LET m == hist[deployer.pos + 1] IN
           deployer' = [deployer EXCEPT !.pos = @ + 1,
             !.state = IF m.id = deployer.id /\ Done(m) = Addrs THEN "done" ELSE @]
     \/ Timeouts /\ deployer' = [deployer EXCEPT !.state = "idle"]
  /\ UNCHANGED <<hist, job, faults>>

(* The old jobs are stopped; the next release may be deployed. *)
NextRelease ==
  /\ deployer.state = "done" /\ deployer.id < MaxCreates
  /\ deployer' = [deployer EXCEPT !.state = "idle"]
  /\ job' = [a \in Addrs |-> [state |-> "new", pos |-> 1]]
  /\ UNCHANGED <<hist, faults>>

Next ==
  \/ \E a \in Addrs :
       \/ NewDeployment(a) \/ MarkPerformingKnown(a) \/ MarkPerformingWait(a)
       \/ MarkPerforming(a) \/ TakeOver(a) \/ MarkDone(a) \/ Restart(a)
  \/ NewDeployer \/ CreateFirst \/ Create \/ Wait \/ NextRelease

Spec == Init /\ [][Next]_vars

(* Jobs are started and retry, and whoever waits for an event hears of it. *)
Fairness ==
  /\ \A a \in Addrs :
       /\ WF_vars(NewDeployment(a)) /\ WF_vars(MarkPerformingKnown(a))
       /\ WF_vars(MarkPerformingWait(a)) /\ WF_vars(MarkPerforming(a))
       /\ WF_vars(TakeOver(a)) /\ WF_vars(MarkDone(a))
  /\ WF_vars(NewDeployer) /\ WF_vars(CreateFirst)
  /\ SF_vars(Create /\ deployer'.pos # deployer.pos) /\ SF_vars(Create /\ hist' # hist)
  /\ WF_vars(deployer.pos < Last /\ Wait) /\ WF_vars(NextRelease)
FairSpec == Spec /\ Fairness

-----------------------------------------------------------------------------
JobRec ==
  [state : {"new", "marking", "performing", "serving", "finished", "failed"}, pos : Nat \ {0}]
DeployerRec ==
  [state : {"idle", "creating", "replacing", "waiting", "done", "panic"},
   pos : Nat \ {0}, id : 0..MaxCreates]

(* The versions of the metadata, the jobs and the deployer have their      *)
(* types, and nobody has heard of a version that does not exist.           *)
TypeOK ==
  /\ hist \in Seq(DeploymentMeta) /\ Last >= 1
  /\ job \in [Addrs -> JobRec] /\ \A a \in Addrs : job[a].pos <= Last
  /\ deployer \in DeployerRec /\ deployer.pos <= Last
  /\ faults \in [restarts : 0..MaxRestarts, lost : 0..MaxLost]

(* No version of the metadata lists two addresses as performing, although  *)
(* jobs decide on versions that have been replaced: "ensuring there is     *)
(* only one address marked as performing at any given time".               *)
OneMarked ==
  \A k \in 1..Last, a, b \in Addrs :
    hist[k].states[a] = "performing" /\ hist[k].states[b] = "performing" => a = b

(* In the first deployment, and as long as no job has been started again,  *)
(* no two jobs are taking over at the same time, also when answers of the  *)
(* store are lost.                                                         *)
OnePerforming ==
  deployer.id <= 1 /\ faults.restarts = 0 =>
    \A a, b \in Addrs :
      job[a].state = "performing" /\ job[b].state = "performing" => a = b

(* The same without the restriction: what the jobs rely on. *)
NeverTwoPerforming ==
  \A a, b \in Addrs :
    job[a].state = "performing" /\ job[b].state = "performing" => a = b

(* Wait returns, and the old jobs are stopped, only when every job serves. *)
WaitMeansDone ==
  deployer.state = "done" /\ faults.restarts = 0 => \A a \in Addrs : job[a].state \in {"serving", "finished"}

(* A deployment that no job gives up ends. *)
DeploymentEnds == deployer.state = "waiting" ~> deployer.state = "done"

(* "Create starts a new deployment": it does not dereference nil. *)
CreateWorks == deployer.state # "panic"
=============================================================================
