---------------------------- MODULE MCController -----------------------------
(***************************************************************************)
(* The controller and its scheduler for TLC: the jobs of a formation,      *)
(* scale requests, the event stream and ControllerPersistLoop, each on its *)
(* own.  Instances of one component differ in their bounds only.           *)
(***************************************************************************)
EXTENDS Controller, TLC

CONSTANTS h1, h2

(* j1, j2 and the request r1 belong to one formation, j3 and r2 to another. *)
formations ==
  ("j1" :> "f") @@ ("j2" :> "f") @@ ("j3" :> "g") @@ ("r1" :> "f") @@ ("r2" :> "g")

(* Deployments of two process types with each strategy. *)
both == {"cron", "web"}
Deployed(strategy, kept, bad) == [strategy |-> strategy, batch |-> 2, kept |-> kept, bad |-> bad]
oneByOne == Deployed("one-by-one", both, {})
failing  == Deployed("one-by-one", both, {"web"})
downUp   == Deployed("one-down-one-up", both, {})
batches  == Deployed("in-batches", {"web"}, {})
swap     == Deployed("all-at-once", {"web"}, {})
allFail  == Deployed("all-at-once", both, {"cron"})
sorted == <<"cron", "web">>
processes == ("cron" :> 2) @@ ("web" :> 3)
deployments == {oneByOne, failing, downUp, batches, swap, allFail}

Symmetric == Permutations(Hosts)

CONSTANT Parts  \* the components and scenarios a run is about
VARIABLE part   \* the one that moves

JobsErrors == INSTANCE SchedulerJobs WITH
  Hosts <- Hosts, NoHost <- "none", MaxJobs <- 3, Sizes <- {0, 1},
  MaxScales <- 2, MaxExits <- 0, MaxErrors <- 1, MaxLost <- 0, MaxLate <- 1,
  MaxLeaders <- 0, MaxTags <- 0, MaxDowns <- 0, formation <- jFormation,
  jobs <- jJobs, isLeader <- jIsLeader, promoting <- jPromoting,
  rectify <- jRectify, followed <- jFollowed, tags <- jTags,
  stopping <- jStopping, containers <- jContainers, events <- jEvents,
  reachable <- jReachable, counts <- jCounts
JobsTags == INSTANCE SchedulerJobs WITH
  Hosts <- Hosts, NoHost <- "none", MaxJobs <- 3, Sizes <- {0, 1},
  MaxScales <- 1, MaxExits <- 0, MaxErrors <- 0, MaxLost <- 0, MaxLate <- 0,
  MaxLeaders <- 1, MaxTags <- 2, MaxDowns <- 0, formation <- jFormation,
  jobs <- jJobs, isLeader <- jIsLeader, promoting <- jPromoting,
  rectify <- jRectify, followed <- jFollowed, tags <- jTags,
  stopping <- jStopping, containers <- jContainers, events <- jEvents,
  reachable <- jReachable, counts <- jCounts
JobsLost == INSTANCE SchedulerJobs WITH
  Hosts <- Hosts, NoHost <- "none", MaxJobs <- 3, Sizes <- {0, 1},
  MaxScales <- 1, MaxExits <- 0, MaxErrors <- 1, MaxLost <- 1, MaxLate <- 1,
  MaxLeaders <- 0, MaxTags <- 0, MaxDowns <- 0, formation <- jFormation,
  jobs <- jJobs, isLeader <- jIsLeader, promoting <- jPromoting,
  rectify <- jRectify, followed <- jFollowed, tags <- jTags,
  stopping <- jStopping, containers <- jContainers, events <- jEvents,
  reachable <- jReachable, counts <- jCounts
JobsExit == INSTANCE SchedulerJobs WITH
  Hosts <- Hosts, NoHost <- "none", MaxJobs <- 3, Sizes <- {1},
  MaxScales <- 0, MaxExits <- 1, MaxErrors <- 0, MaxLost <- 0, MaxLate <- 0,
  MaxLeaders <- 0, MaxTags <- 0, MaxDowns <- 0, formation <- jFormation,
  jobs <- jJobs, isLeader <- jIsLeader, promoting <- jPromoting,
  rectify <- jRectify, followed <- jFollowed, tags <- jTags,
  stopping <- jStopping, containers <- jContainers, events <- jEvents,
  reachable <- jReachable, counts <- jCounts
JobsDown == INSTANCE SchedulerJobs WITH
  Hosts <- Hosts, NoHost <- "none", MaxJobs <- 3, Sizes <- {1},
  MaxScales <- 0, MaxExits <- 0, MaxErrors <- 0, MaxLost <- 0, MaxLate <- 0,
  MaxLeaders <- 0, MaxTags <- 0, MaxDowns <- 1, formation <- jFormation,
  jobs <- jJobs, isLeader <- jIsLeader, promoting <- jPromoting,
  rectify <- jRectify, followed <- jFollowed, tags <- jTags,
  stopping <- jStopping, containers <- jContainers, events <- jEvents,
  reachable <- jReachable, counts <- jCounts

ScaleBreaks == INSTANCE ScaleRequests WITH
  Clients <- {"a"}, MaxBreaks <- 1, formation <- row
ScaleErrors == INSTANCE ScaleRequests WITH
  Clients <- {"a"}, MaxErrors <- 1, formation <- row
ScaleSync == INSTANCE ScaleRequests WITH
  Clients <- {"a"}, Deletes <- TRUE, Syncs <- TRUE, formation <- row
ScaleClients == INSTANCE ScaleRequests WITH
  Deletes <- TRUE, Syncs <- TRUE, formation <- row
ScaleLost == INSTANCE ScaleRequests WITH
  Clients <- {"a"}, MaxBreaks <- 1, Deletes <- TRUE, Syncs <- TRUE,
  formation <- row



-----------------------------------------------------------------------------
(* A component moves, and the others stay where they began. *)
MCInit ==
  /\ part \in Parts
  /\ Init
  /\ SJobs!Init /\ (part \notin {"jobs", "jobs_errors", "jobs_tags", "jobs_lost", "jobs_exit", "jobs_down"} => jFormation = 0)
  /\ part = "jobs" => jFormation > 0
  /\ part \in {"jobs_exit", "jobs_down"} => jFormation = 1
  /\ part \in {"jobs_errors", "jobs_tags", "jobs_lost"} => jFormation <= 1
  /\ Scale!Init /\ (part \notin {"scale", "scale_breaks", "scale_errors", "scale_sync", "scale_clients", "scale_lost"} => known.critical = FALSE /\ \A t \in Types : row.procs[t] = 1)
  /\ part \in {"scale_breaks", "scale_errors", "scale_sync", "scale_lost"} => \A t \in Types : row.procs[t] = 1
  /\ part \in {"scale_breaks", "scale_errors", "scale_sync", "scale_lost"} => known.critical = FALSE
  /\ part = "scale" => \A t \in Types : row.procs[t] = 1 \/ (row.procs["web"] = 0 /\ ~known.critical)
  /\ Events!Init
  /\ Deploy!Init /\ (part \notin {"deploy"} => wDeployment = oneByOne)

MCNext ==
  /\ UNCHANGED part
  /\ \/ part = "persist" /\ Next /\ UNCHANGED <<jobsVars, scaleVars, eventsVars, deployVars>>
     \/ part = "jobs" /\ SJobs!Next /\ UNCHANGED <<vars, scaleVars, eventsVars, deployVars>>
     \/ part = "jobs_errors" /\ JobsErrors!Next /\ UNCHANGED <<vars, scaleVars, eventsVars, deployVars>>
     \/ part = "jobs_tags" /\ JobsTags!Next /\ UNCHANGED <<vars, scaleVars, eventsVars, deployVars>>
     \/ part = "jobs_lost" /\ JobsLost!Next /\ UNCHANGED <<vars, scaleVars, eventsVars, deployVars>>
     \/ part = "jobs_exit" /\ JobsExit!Next /\ UNCHANGED <<vars, scaleVars, eventsVars, deployVars>>
     \/ part = "jobs_down" /\ JobsDown!Next /\ UNCHANGED <<vars, scaleVars, eventsVars, deployVars>>
     \/ part = "scale" /\ Scale!Next /\ UNCHANGED <<vars, jobsVars, eventsVars, deployVars>>
     \/ part = "scale_breaks" /\ ScaleBreaks!Next /\ UNCHANGED <<vars, jobsVars, eventsVars, deployVars>>
     \/ part = "scale_errors" /\ ScaleErrors!Next /\ UNCHANGED <<vars, jobsVars, eventsVars, deployVars>>
     \/ part = "scale_sync" /\ ScaleSync!Next /\ UNCHANGED <<vars, jobsVars, eventsVars, deployVars>>
     \/ part = "scale_clients" /\ ScaleClients!Next /\ UNCHANGED <<vars, jobsVars, eventsVars, deployVars>>
     \/ part = "scale_lost" /\ ScaleLost!Next /\ UNCHANGED <<vars, jobsVars, eventsVars, deployVars>>
     \/ part = "events" /\ Events!Next /\ UNCHANGED <<vars, jobsVars, scaleVars, deployVars>>
     \/ part = "deploy" /\ Deploy!Next /\ UNCHANGED <<vars, jobsVars, scaleVars, eventsVars>>

MCSpec == MCInit /\ [][MCNext]_<<part, vars, jobsVars, scaleVars, eventsVars,
                                 deployVars>>

-----------------------------------------------------------------------------
(* In the end exactly the containers of the formation run, where the       *)
(* scheduler believes, whatever failed or was lost on the way.             *)
Converges == SJobs!Fairness => SJobs!Converges


(* The client receives every event in the end, over as many connections as *)
(* it takes, when its connection or that of the listener breaks, unless    *)
(* the event could not be read when the listener was notified of it.       *)
AllReceived == Events!Fairness => Events!AllReceived

(* A deployment is over in the end, and what runs is what it says,         *)
(* whatever fails, in the rollback too, times out or is taken over: the    *)
(* new release alone, or the old one as the last attempt found it; unless  *)
(* an attempt has misread what an earlier one left.                        *)
DeployEnds == part = "deploy" /\ Deploy!Fairness => Deploy!DeployEnds

(* Whatever the scheduler sent is stored or given up in the end, and no    *)
(* scale request waits for ever.                                           *)
AllPersisted == Fairness => Persisted
=============================================================================
