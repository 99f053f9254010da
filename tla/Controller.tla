----------------------------- MODULE Controller -----------------------------
(***************************************************************************)
(* What goes into the controller's database and comes out of it:           *)
(* ControllerPersistLoop, by which the scheduler stores jobs and completed *)
(* scale requests (SchedulerPersist), the scale requests that clients      *)
(* store and the scheduler receives (ScaleRequests), whose formation is    *)
(* row here, and the event streams (ControllerEvents); what becomes of a   *)
(* formation, the jobs the scheduler runs on the hosts (SchedulerJobs);    *)
(* and a deployment, which replaces the formation of one release by that   *)
(* of another (WorkerDeployment).                                          *)
(***************************************************************************)
EXTENDS SchedulerPersist

CONSTANTS Clients, Types, Counts, MaxRequests, MaxBreaks, MaxErrors, Deletes, Syncs, Critical
VARIABLES row, requests, clock, tx, notify, current, ch, since, known, running, stopping,
          persist, counts
scaleVars == <<row, requests, clock, tx, notify, current, ch, since, known, running, stopping,
               persist, counts>>

(* No type has fewer than no processes. *)
ASSUME ScaleAssumption == Counts \subseteq Nat /\ Critical \subseteq BOOLEAN

Scale == INSTANCE ScaleRequests WITH formation <- row

CONSTANTS MaxEvents, MaxOpen, QueueSize, MaxDrops, MaxMissed, MaxConns, Past
VARIABLES events, listening, notices, missed, conns, conn, received, start, before, drops
eventsVars == <<events, listening, notices, missed, conns, conn, received, start, before, drops>>

Events == INSTANCE ControllerEvents

CONSTANTS Hosts, NoHost, MaxJobs, Sizes, MaxScales, MaxExits, MaxRefused, MaxLost, MaxLate,
          MaxLeaders, MaxTags, MaxDowns
ASSUME NoHostAssumption == NoHost \notin Hosts
VARIABLES jFormation, jJobs, jIsLeader, jPromoting, jRectify, jFollowed, jTags, jStopping,
          jContainers, jEvents, jReachable, jCounts
jobsVars == <<jFormation, jJobs, jIsLeader, jPromoting, jRectify, jFollowed, jTags, jStopping,
              jContainers, jEvents, jReachable, jCounts>>

SJobs == INSTANCE SchedulerJobs WITH
  formation <- jFormation, jobs <- jJobs, isLeader <- jIsLeader, promoting <- jPromoting,
  rectify <- jRectify, followed <- jFollowed, tags <- jTags, stopping <- jStopping,
  containers <- jContainers, events <- jEvents, reachable <- jReachable, counts <- jCounts,
  MaxErrors <- MaxRefused

CONSTANTS ProcessTypes, Processes, Deployments, MaxStops, MaxFailed, MaxTimeouts
VARIABLES wDeployment, wOldFormation, wNewFormation, wOldJobs, wNewJobs, wRecord, wJob, wD, wCount
deployVars == <<wDeployment, wOldFormation, wNewFormation, wOldJobs, wNewJobs, wRecord, wJob, wD,
                wCount>>

Deploy == INSTANCE WorkerDeployment WITH
  deployment <- wDeployment, oldFormation <- wOldFormation, newFormation <- wNewFormation,
  oldJobs <- wOldJobs, newJobs <- wNewJobs, record <- wRecord, job <- wJob, d <- wD,
  count <- wCount, MaxErrors <- MaxFailed

(* No type has fewer than no jobs, and batch sizes are numbers of jobs. *)
ASSUME DeploymentAssumption ==
  /\ ProcessTypes \in Seq({ProcessTypes[j] : j \in 1..Len(ProcessTypes)})
  /\ Processes \in [Deploy!TypeSet -> Nat]
  /\ Deployments \subseteq [strategy : Deploy!Strategies, batch : Nat,
                            kept : SUBSET Deploy!TypeSet, bad : SUBSET Deploy!TypeSet]

-----------------------------------------------------------------------------
(* The formation has what the last request for each type asked for, unless *)
(* a later one had read it before that was committed (AddScaleRequest),    *)
(* two requests are pending only when the later one was cancelling before  *)
(* the earlier one was committed, and every row and every copy the         *)
(* scheduler keeps of one has its type.                                    *)
LastWins == Scale!TypeOK /\ Scale!LastWins /\ Scale!OnePending

(* The scheduler completes a request only while the jobs it asked for run, *)
(* and no others but jobs that are stopping (RectifyFormation), unless a   *)
(* later request has overtaken it, the app is critical and refused it, or  *)
(* a sync has emptied the formation.                                       *)
CompleteMeansScaled == Scale!CompleteMeansScaled

(* A client receives the events of a connection in order and each once,    *)
(* although some are both listed and notified (streamEvents), and no queue *)
(* is longer than its channel.                                             *)
InOrder == Events!TypeOK /\ Events!InOrder

(* While nothing is lost, no container is left behind: each is one the     *)
(* scheduler counts or stops, or is about to hear of (HandleJobEvent), and *)
(* jobs, hosts and events have their types.                                *)
NoStray == SJobs!TypeOK /\ SJobs!NoStray

(* Old and new jobs of a type that stays are never fewer than before the   *)
(* deployment, by one with one-down-one-up, whether it goes on, fails or   *)
(* is rolled back (DeployJob), and formations stay within their bounds.    *)
EnoughJobs == Deploy!TypeOK /\ Deploy!EnoughJobs
=============================================================================
