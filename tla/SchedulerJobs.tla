---------------------------- MODULE SchedulerJobs ---------------------------
(***************************************************************************)
(* The controller's scheduler (controller/scheduler/scheduler.go): how it  *)
(* keeps the jobs of a formation with one process type running.  The main  *)
(* loop handles one event at a time; every StartJob and every stopJob has  *)
(* a goroutine that talks to a host.  Hosts start and lose containers and  *)
(* report it with events that overtake each other, because sendEvent of    *)
(* host/state.go sends each from a goroutine of its own, or are lost with  *)
(* a broken stream.                                                        *)
(*                                                                         *)
(* An identifier is used again when nothing is left of the job that had    *)
(* it.  When jobs started is left out: of several jobs of one state that   *)
(* could be stopped, any may be.                                           *)
(***************************************************************************)
EXTENDS Integers, FiniteSets, FiniteSetsExt

CONSTANTS Hosts, NoHost,
          MaxJobs,     \* bound on jobs that are remembered at a time
          Sizes,       \* the sizes of the formation
          MaxScales,   \* bound on changes of the formation
          MaxExits,    \* bound on containers that exit by themselves
          MaxErrors,   \* bound on requests to hosts that fail, of StartJob and stopJob
                       \* and of HandleJobEvent
          MaxLost,     \* bound on lost events
          MaxLate,     \* bound on events that later ones have overtaken
          MaxLeaders,  \* bound on changes of leadership
          MaxTags,     \* bound on changes of a host's tags
          MaxDowns     \* bound on hosts that become unreachable

VARIABLES
  formation,   \* Processes of the formation: how many jobs there should be
  jobs,        \* s.jobs: state, host and StartJob goroutine of each
  isLeader,
  promoting,   \* whether HandleLeaderChange has yet to sync
  rectify,     \* whether the formation is in rectifyBatch
  followed,    \* s.hosts
  tags,        \* the hosts whose tags match the formation's
  stopping,    \* requests to stop a job on a host that are on their way
  containers,  \* what runs on each host
  events,      \* job events on their way to the scheduler
  reachable,   \* the hosts that answer
  counts       \* what the bounds count

sched == <<formation, jobs, isLeader, promoting, rectify, followed, tags, stopping>>
cluster == <<containers, events, reachable>>
vars == <<sched, cluster, counts>>

Ids == 1..MaxJobs
Bounds == [scales |-> MaxScales, exits |-> MaxExits, errors |-> MaxErrors,
           left |-> MaxErrors, lost |-> MaxLost, late |-> MaxLate, leaders |-> MaxLeaders,
           tags |-> MaxTags, downs |-> MaxDowns]
Count(k) == counts[k] < Bounds[k] /\ counts' = [counts EXCEPT ![k] = @ + 1]

NoJob == [state |-> "none", host |-> NoHost, starter |-> "none"]
Event == [job : Ids, host : Hosts, status : {"starting", "running", "done"}]
Active(c) == c \in {"starting", "running"}

Init ==
  /\ formation \in Sizes /\ jobs = [j \in Ids |-> NoJob]
  /\ isLeader = TRUE /\ promoting = FALSE /\ rectify = TRUE /\ stopping = {}
  /\ followed = Hosts /\ tags = Hosts /\ reachable = Hosts
  /\ containers = [h \in Hosts |-> [j \in Ids |-> "none"]] /\ events = {}
  /\ counts = [k \in DOMAIN Bounds |-> 0]

-----------------------------------------------------------------------------
(* Mutant: jobs that are being stopped count. *)
IsInFormation_Stopping(job) == job.state \notin {"none", "stopped"}

IsInFormation(job) == job.state \notin {"none", "stopped", "stopping"}
IsRunning(job) == job.state \in {"starting", "running"}
Members(js) == {j \in Ids : IsInFormation(js[j])}

(* What is left of a job: memory of it, goroutines, containers, events. *)
Forgotten(j) ==
  /\ jobs[j].state \in {"none", "stopped"} /\ jobs[j].starter = "none"
  /\ \A h \in Hosts : containers[h][j] \in {"none", "done"} /\ <<j, h>> \notin stopping
  /\ \A e \in events : e.job # j

Unused == {j \in Ids : Forgotten(j)}
CanAdd(n) == n <= Cardinality(Unused)

(* n new pending jobs, each with its StartJob goroutine. *)
Pending(js, n) ==
  LET new == {j \in Unused : Cardinality({k \in Unused : k < j}) < n} IN
  [j \in Ids |-> IF j \in new THEN [state |-> "pending", host |-> NoHost, starter |-> "placing"]
                 ELSE js[j]]

(* A host forgets what it knew of the job that had the identifier before. *)
Cleared(js) ==
  [h \in Hosts |-> [j \in Ids |-> IF jobs[j].state \in {"none", "stopped"} /\ js[j].state = "pending"
                                  THEN "none" ELSE containers[h][j]]]

(* The state after a host has reported a status: handleJobStatus. *)
NextState(state, status) ==
  CASE status = "starting" -> IF state \in {"none", "pending"} THEN "starting" ELSE state
    [] status = "running" -> IF state = "stopping" THEN state ELSE "running"
    [] OTHER -> "stopped"

(* restartJob is called for each job that stops while there are fewer than *)
(* wanted, and adds one.                                                   *)
Restarts(js, down) ==
  LET n == formation - Cardinality(Members(js)) IN
  IF isLeader THEN Max({0, Min({n, Cardinality(down)})}) ELSE 0

(* The jobs become js, after the ones of handled were looked at; the ones  *)
(* that stop with it may be replaced.                                      *)
handleJobStatus(js, handled) ==
  LET down == {j \in Ids : jobs[j].state \notin {"none", "stopped"} /\ js[j].state = "stopped"}
      n == Restarts(js, down) IN
  /\ CanAdd(n)
  /\ jobs' = Pending(js, n)
  /\ rectify' = (rectify \/ (isLeader /\ handled # {}))

-----------------------------------------------------------------------------
(* The hosts.  H are the ones whose stream is open: they report what has   *)
(* changed.                                                                *)
Report(cs, H) ==
  {e \in Event : /\ e.host \in H /\ e.status = cs[e.host][e.job]
                /\ e.status # containers[e.host][e.job]}

StopContainers(S) ==
  [h \in Hosts |-> [j \in Ids |->
     IF <<j, h>> \in S /\ h \in reachable /\ Active(containers[h][j]) THEN "done"
     ELSE containers[h][j]]]

(* Mutant: a pending job that has been placed is only forgotten. *)
stopJob_Placed(job) ==
  IF job.state = "pending" THEN [job EXCEPT !.state = "stopped"]
  ELSE IF job.host \in followed /\ job.state \notin {"none", "stopped"}
  THEN [job EXCEPT !.state = "stopping"] ELSE job

(* A pending job that has not been placed just stops; for any other one    *)
(* that is not stopped its host is asked, if it is known.                  *)
stopJob(job) ==
  IF job.state = "pending" /\ job.host = NoHost THEN [job EXCEPT !.state = "stopped"]
  ELSE IF job.host \in followed /\ job.state \notin {"none", "stopped"}
  THEN [job EXCEPT !.state = "stopping"] ELSE job

Stop(js, S) == [j \in Ids |-> IF j \in S THEN stopJob(js[j]) ELSE js[j]]
StopRequests(js) ==
  {<<j, js[j].host>> : j \in {k \in Ids : js[k].state = "stopping" /\ jobs[k].state # "stopping"}}

-----------------------------------------------------------------------------
(* The main loop. *)
HandleFormationChange ==
  /\ ~promoting /\ Count("scales")
  /\ \E n \in Sizes \ {formation} : formation' = n
  /\ rectify' = TRUE
  /\ UNCHANGED <<jobs, isLeader, promoting, followed, tags, stopping, cluster>>

(* findJobToStop: a pending job, else one that is starting. *)
Rank(state) == CASE state = "pending" -> 1 [] state = "starting" -> 2 [] OTHER -> 3

ToStop(js, n) ==
  LET found == {j \in Ids : js[j].state \in {"pending", "starting", "running"}} IN
  {S \in SUBSET found : Cardinality(S) = Max({0, Min({n, Cardinality(found)})}) /\
     \A j \in S, k \in found \ S : Rank(js[j].state) <= Rank(js[k].state)}

Mismatched == {j \in Ids : IsRunning(jobs[j]) /\ jobs[j].host \in followed \ tags}

(* RectifyFormation: jobs on hosts with other tags are stopped first, then *)
(* the difference is started or stopped.                                   *)
HandleRectify ==
  /\ ~promoting /\ rectify /\ rectify' = FALSE
  /\ \/ /\ ~isLeader /\ UNCHANGED <<jobs, stopping, containers>>
     \/ /\ isLeader
        /\ LET js == Stop(jobs, Mismatched)
               diff == formation - Cardinality(Members(js)) IN
           /\ diff > 0 => CanAdd(diff)
           /\ \E S \in ToStop(js, -diff) : jobs' = Stop(Pending(js, diff), S)
        /\ stopping' = stopping \cup StopRequests(jobs')
        /\ containers' = Cleared(jobs')
  /\ UNCHANGED <<formation, isLeader, promoting, followed, tags, events, reachable, counts>>

(* HandlePlacementRequest for a StartJob goroutine: what it answers, and   *)
(* whether the goroutine goes on.                                          *)
HostJobCount(j, h) ==
  Cardinality({k \in Ids \ {j} : IsInFormation(jobs[k]) /\ jobs[k].host = h})

HandlePlacementRequest(j) ==
  LET fit == followed \cap tags IN
  /\ ~promoting /\ jobs[j].starter = "placing"
  /\ \/ /\ ~isLeader \/ jobs[j].state # "pending"
        /\ jobs' = [jobs EXCEPT ![j].starter = "none"]
     \/ /\ isLeader /\ jobs[j].state = "pending" /\ followed # {} /\ fit = {}
        /\ jobs' = [jobs EXCEPT ![j] = [state |-> "blocked", host |-> NoHost, starter |-> "none"]]
     \/ /\ isLeader /\ jobs[j].state = "pending"
        /\ \E h \in fit : /\ \A g \in fit : HostJobCount(j, h) <= HostJobCount(j, g)
                          /\ jobs' = [jobs EXCEPT ![j].host = h, ![j].starter = "adding"]
  /\ UNCHANGED <<formation, isLeader, promoting, rectify, followed, tags, stopping, cluster, counts>>

(* The events that were sent before one and have not arrived. *)
Order(status) == CASE status = "starting" -> 1 [] status = "running" -> 2 [] OTHER -> 3
Overtaken(e) ==
  {f \in events : f.job = e.job /\ f.host = e.host /\ Order(f.status) < Order(e.status)}

(* A job on another host than the scheduler placed it on is stopped there, *)
(* and left to the next SyncJobs when that fails; otherwise the status     *)
(* counts.                                                                 *)
HandleJobEvent(e) ==
  /\ ~promoting /\ e \in events
  /\ IF jobs[e.job].host # e.host
     THEN /\ \/ /\ containers' = StopContainers({<<e.job, e.host>>} \cap (Ids \X followed))
                /\ UNCHANGED counts
             \/ Count("left") /\ UNCHANGED containers
          /\ events' = (events \ {e}) \cup Report(containers', followed)
          /\ UNCHANGED <<jobs, rectify>>
     ELSE /\ handleJobStatus([jobs EXCEPT ![e.job].state = NextState(@, e.status)], {e.job})
          /\ events' = events \ {e} /\ containers' = Cleared(jobs')
          /\ IF Overtaken(e) = {} THEN UNCHANGED counts ELSE Count("late")
  /\ UNCHANGED <<formation, isLeader, promoting, followed, tags, stopping, reachable>>

(* SyncJobs.  With every host answering: jobs that are active are handled  *)
(* like events, the ones believed active that are not are looked up and    *)
(* stop, and the ones that are stopping are stopped again.  A host that    *)
(* does not answer ends it after any of the others.                        *)
Listed(H) == {j \in Ids : jobs[j].host \in H /\ Active(containers[jobs[j].host][j])}
Misplaced(H) == {r \in Ids \X H : Active(containers[r[2]][r[1]]) /\ jobs[r[1]].host # r[2]}

Inactive(H) ==
  IF followed \subseteq H THEN {j \in Ids : IsRunning(jobs[j])} \ Listed(H) ELSE {}

Synced(H) ==
  [j \in Ids |-> IF j \in Listed(H)
                 THEN [jobs[j] EXCEPT !.state = NextState(@, containers[jobs[j].host][j])]
                 ELSE IF j \in Inactive(H) THEN [jobs[j] EXCEPT !.state = "stopped"] ELSE jobs[j]]

Again == {<<j, jobs[j].host>> : j \in {k \in Ids : jobs[k].state = "stopping" /\ jobs[k].host \in followed}}

SyncJobs ==
  /\ promoting => reachable \subseteq followed
  /\ promoting' = FALSE
  /\ \E H \in SUBSET (followed \cap reachable) :
       /\ followed \subseteq reachable => H = followed
       /\ handleJobStatus(Synced(H), Listed(H) \cup Inactive(H))
       /\ stopping' = IF followed = H THEN stopping \cup Again ELSE stopping
       /\ LET cs == StopContainers(Misplaced(H)) IN
          /\ containers' = [h \in Hosts |-> [j \in Ids |->
               IF Cleared(jobs')[h][j] # containers[h][j] THEN "none" ELSE cs[h][j]]]
          /\ events' = events \cup Report(cs, followed)
  /\ UNCHANGED <<formation, isLeader, followed, tags, reachable, counts>>

(* On promotion the handler goes on with followHost for every host it does *)
(* not follow and SyncJobs, before the loop handles anything else.         *)
HandleLeaderChange ==
  /\ ~promoting /\ Count("leaders")
  /\ isLeader' = ~isLeader /\ promoting' = isLeader' /\ rectify' = (rectify \/ isLeader')
  /\ UNCHANGED <<formation, jobs, followed, tags, stopping, cluster>>

Unblocked == [j \in Ids |-> IF jobs[j].state = "blocked"
                            THEN [jobs[j] EXCEPT !.state = "pending", !.starter = "placing"] ELSE jobs[j]]

(* A host's tags change: HandleHostEvent with an update. *)
HandleHostUpdate(h) ==
  /\ ~promoting /\ h \in followed /\ Count("tags")
  /\ tags' = IF h \in tags THEN tags \ {h} ELSE tags \cup {h}
  /\ rectify' = TRUE
  /\ jobs' = IF h \in tags' THEN Unblocked ELSE jobs
  /\ UNCHANGED <<formation, isLeader, promoting, followed, stopping, cluster>>

(* A host that has failed maxHostChecks checks is not followed any more,   *)
(* and its jobs count as stopped.                                          *)
unfollowHost(h) ==
  /\ ~promoting /\ h \in followed \ reachable /\ followed' = followed \ {h}
  /\ LET here == {j \in Ids : jobs[j].host = h /\ jobs[j].state \notin {"none", "stopped"}} IN
     handleJobStatus([j \in Ids |-> IF j \in here THEN [jobs[j] EXCEPT !.state = "stopped"]
                                    ELSE jobs[j]], here)
  /\ containers' = Cleared(jobs')
  /\ UNCHANGED <<formation, isLeader, promoting, tags, stopping, events, reachable, counts>>

(* SyncHosts finds the host again: its jobs are handled, blocked ones are  *)
(* tried.                                                                  *)
followHost(h) ==
  /\ h \in reachable \ followed /\ followed' = followed \cup {h}
  /\ LET here == {j \in Ids : jobs[j].host = h /\ containers[h][j] # "none"}
         js == [j \in Ids |-> IF j \in here
                              THEN [jobs[j] EXCEPT !.state = NextState(@, containers[h][j])]
                              ELSE jobs[j]]
         blocked == {j \in Ids : js[j].state = "blocked" /\ h \in tags} IN
     handleJobStatus([j \in Ids |-> IF j \in blocked
       THEN [js[j] EXCEPT !.state = "pending", !.starter = "placing"] ELSE js[j]], here)
  /\ LET cs == StopContainers(Misplaced({h})) IN
     /\ containers' = [g \in Hosts |-> [j \in Ids |->
          IF Cleared(jobs')[g][j] # containers[g][j] THEN "none" ELSE cs[g][j]]]
     /\ events' = events \cup Report(cs, followed')
  /\ UNCHANGED <<formation, isLeader, promoting, tags, stopping, reachable, counts>>

-----------------------------------------------------------------------------
(* The goroutines.  AddJob may fail before or after the host has accepted  *)
(* the job; StartJob then places it again.                                 *)
StartJob(j) ==
  LET h == jobs[j].host
      ok == h \in reachable /\ containers[h][j] = "none" IN
  /\ jobs[j].starter = "adding"
  /\ \/ /\ ok /\ jobs' = [jobs EXCEPT ![j].starter = "none"] /\ UNCHANGED counts
        /\ containers' = [containers EXCEPT ![h][j] = "starting"]
     \/ /\ ~ok /\ jobs' = [jobs EXCEPT ![j].starter = "placing"]
        /\ UNCHANGED <<counts, containers>>
     \/ /\ ok /\ Count("errors") /\ jobs' = [jobs EXCEPT ![j].starter = "placing"]
        /\ \/ UNCHANGED containers
           \/ containers' = [containers EXCEPT ![h][j] = "starting"]
  /\ events' = events \cup Report(containers', followed)
  /\ UNCHANGED <<formation, isLeader, promoting, rectify, followed, tags, stopping, reachable>>

StopJob(r) ==
  /\ r \in stopping /\ stopping' = stopping \ {r}
  /\ \/ containers' = StopContainers({r}) /\ UNCHANGED counts
     \/ Count("errors") /\ UNCHANGED containers
  /\ events' = events \cup Report(containers', followed)
  /\ UNCHANGED <<formation, jobs, isLeader, promoting, rectify, followed, tags, reachable>>

-----------------------------------------------------------------------------
(* The hosts. *)
SetStatusRunning(h, j) ==
  /\ containers[h][j] = "starting" /\ containers' = [containers EXCEPT ![h][j] = "running"]
  /\ events' = events \cup Report(containers', followed)
  /\ UNCHANGED <<sched, reachable, counts>>

SetStatusDone(h, j) ==
  /\ Active(containers[h][j]) /\ containers' = [containers EXCEPT ![h][j] = "done"]
  /\ Count("exits") /\ events' = events \cup Report(containers', followed)
  /\ UNCHANGED <<sched, reachable>>

(* The stream of a host breaks while an event is on its way. *)
EventLost(e) ==
  /\ e \in events /\ Count("lost") /\ events' = events \ {e}
  /\ UNCHANGED <<sched, containers, reachable>>

HostDown(h) ==
  /\ h \in reachable /\ Count("downs") /\ reachable' = reachable \ {h}
  /\ UNCHANGED <<sched, containers, events>>
HostUp(h) ==
  /\ h \notin reachable /\ reachable' = reachable \cup {h}
  /\ UNCHANGED <<sched, containers, events, counts>>

Next ==
  \/ HandleFormationChange \/ HandleRectify \/ SyncJobs \/ HandleLeaderChange
  \/ \E j \in Ids : HandlePlacementRequest(j) \/ StartJob(j)
  \/ \E e \in events : HandleJobEvent(e) \/ EventLost(e)
  \/ \E r \in stopping : StopJob(r)
  \/ \E h \in Hosts :
       \/ HandleHostUpdate(h) \/ unfollowHost(h) \/ followHost(h) \/ HostDown(h) \/ HostUp(h)
       \/ \E j \in Ids : SetStatusRunning(h, j) \/ SetStatusDone(h, j)

Spec == Init /\ [][Next]_vars

(* The loop handles what its channels hold, tickers make it sync, and      *)
(* goroutines and hosts go on.                                             *)
Fairness ==
  /\ WF_vars(HandleRectify) /\ WF_vars(SyncJobs)
  /\ WF_vars(\E e \in events : HandleJobEvent(e))
  /\ \A j \in Ids :
       /\ WF_vars(HandlePlacementRequest(j) \/ StartJob(j))
       /\ WF_vars(\E h \in Hosts : StopJob(<<j, h>>))
       /\ WF_vars(\E h \in Hosts : SetStatusRunning(h, j))
  /\ WF_vars(\E h \in Hosts : unfollowHost(h) \/ followHost(h))
  /\ WF_vars(\E h \in Hosts : HostUp(h))
FairSpec == Spec /\ Fairness

-----------------------------------------------------------------------------
(* Types, and no job is stopped on a host it never had. *)
TypeOK ==
  /\ formation \in Sizes /\ {isLeader, promoting, rectify} \subseteq BOOLEAN
  /\ jobs \in [Ids -> [state : {"none", "pending", "blocked", "starting", "running", "stopping", "stopped"},
                        host : Hosts \cup {NoHost}, starter : {"none", "placing", "adding"}]]
  /\ {followed, tags, reachable} \subseteq SUBSET Hosts /\ stopping \subseteq Ids \X Hosts
  /\ containers \in [Hosts -> [Ids -> {"none", "starting", "running", "done"}]]
  /\ events \subseteq Event

(* While no event is lost, every host answers and no container that runs   *)
(* where it should not had to be left there, every container is one the    *)
(* scheduler has placed there and still counts or stops, or it is about to *)
(* hear of it: no failed or repeated AddJob, and no stop of a job that is  *)
(* being placed, leaves a container behind.                                *)
Undisturbed == counts.lost = 0 /\ counts.downs = 0 /\ counts.left = 0
NoStray ==
  Undisturbed => \A h \in Hosts, j \in Ids : Active(containers[h][j]) =>
    \/ jobs[j].host = h /\ jobs[j].state \in {"pending", "starting", "running", "stopping"}
    \/ \E e \in events : e.job = j /\ e.host = h

Containers == {r \in Ids \X Hosts : Active(containers[r[2]][r[1]])}

(* Whatever fails, is lost, exits or becomes unreachable a bounded number  *)
(* of times, in the end exactly the containers of the formation's jobs     *)
(* run, each on the host the scheduler believes, and it stays so.          *)
Converges ==
  <>[](/\ Cardinality(Containers) = formation
       /\ \A j \in Members(jobs) : jobs[j].state = "running" /\ <<j, jobs[j].host>> \in Containers)

(* ControllerPersistLoop avoids "a job transitioning from down to up in    *)
(* the controller": a job that has stopped is not running again.           *)
NeverUpAgain ==
  [][\A j \in Ids : jobs[j].state = "stopped" => jobs'[j].state \notin {"starting", "running"}]_vars

(* A job that is being stopped has stopped in the end: "let the next       *)
(* SyncJobs routine determine if another attempt [...] is necessary".      *)
StoppingEnds == \A j \in Ids : jobs[j].state = "stopping" ~> jobs[j].state = "stopped"

(* A formation that is scaled to nothing has no jobs left in the end: Diff *)
(* is "between the given running processes and what is expected".          *)
ScaledDown == <>[](formation = 0 => Members(jobs) = {})
=============================================================================
