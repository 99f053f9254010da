------------------------------- MODULE MCHost --------------------------------
(***************************************************************************)
(* The host daemon for TLC.  Instances differ in their bounds only.        *)
(***************************************************************************)
EXTENDS Host, TLC

(* Jobs are stopped and their processes end; the daemon dies. *)
Stopping == INSTANCE HostJobs WITH MaxRefused <- 0, MaxUpdates <- 0, MaxFaults <- 0
Crashing == INSTANCE HostJobs WITH MaxRefused <- 0, MaxUpdates <- 0, MaxFaults <- 0, MaxCrashes <- 1

CONSTANT Parts  \* the components and scenarios a run is about
VARIABLE part   \* the one that moves

VARIABLES cJobs, cStateDB, cDaemon, cDbUsers, cRun, cWatch, cKnown, cChanges,
          cStop, cStopped, cBox, cRoot, cSig, cCount
closingVars == <<cJobs, cStateDB, cDaemon, cDbUsers, cRun, cWatch, cKnown,
                 cChanges, cStop, cStopped, cBox, cRoot, cSig, cCount>>
Closing == INSTANCE HostJobs WITH
  Jobs <- {"j1", "j2"}, Sharing <- {"j1", "j2"}, Stubborn <- {"j2"},
  MaxRefused <- 1, MaxUpdates <- 1, MaxCrashes <- 0, MaxFaults <- 0,
  MaxUnreached <- 0, StopEarly <- TRUE, jobs <- cJobs, stateDB <- cStateDB,
  daemon <- cDaemon, dbUsers <- cDbUsers, run <- cRun, watch <- cWatch,
  known <- cKnown, changes <- cChanges, stop <- cStop, stopped <- cStopped,
  box <- cBox, root <- cRoot, sig <- cSig, count <- cCount


(* Snapshots are received while nothing else is asked of the manager. *)
OneCaller == op["r2"].pc = "idle"

Receiving == INSTANCE HostVolumes WITH
  Kinds <- {"NewVolume", "ImportFilesystem", "ReceiveSnapshot", "CreateSnapshot",
            "DestroyVolume"},
  Resumes <- TRUE, MaxRequests <- 3, MaxUpdates <- 1, MaxErrors <- 1,
  count <- tally
ClosingVolumes == INSTANCE HostVolumes WITH
  Kinds <- {"NewVolume", "CreateSnapshot", "DestroyVolume"}, MaxRequests <- 3,
  MaxUpdates <- 1, MaxErrors <- 1, count <- tally

-----------------------------------------------------------------------------
(* A component moves, and the others stay where they began. *)
MCInit ==
  /\ part \in Parts
  /\ Init
  /\ Closing!Init
  /\ Volumes!Init

MCNext ==
  /\ UNCHANGED part
  /\ \/ part = "jobs" /\ Next /\ UNCHANGED <<closingVars, volumeVars>>
     \/ part = "jobs_stop" /\ Stopping!Next /\ UNCHANGED <<closingVars, volumeVars>>
     \/ part = "jobs_crash" /\ Crashing!Next /\ UNCHANGED <<closingVars, volumeVars>>
     \/ part = "jobs_close" /\ Closing!Next /\ UNCHANGED <<vars, volumeVars>>
     \/ part = "volumes" /\ Volumes!Next /\ UNCHANGED <<vars, closingVars>>
     \/ part = "volumes_receive" /\ Receiving!Next /\ OneCaller' /\ UNCHANGED <<vars, closingVars>>
     \/ part = "volumes_close" /\ ClosingVolumes!Next /\ UNCHANGED <<vars, closingVars>>

MCSpec == MCInit /\ [][MCNext]_<<part, vars, closingVars, volumeVars>>

-----------------------------------------------------------------------------
(* A job that starts runs or is down in the end, one whose container is    *)
(* gone is reported as down, and one whose stop was accepted stops,        *)
(* although its process may ignore SIGTERM; requests hold the database     *)
(* open all along.                                                         *)
JobsSettle ==
  /\ []TypeOK
  /\ part = "jobs_stop" /\ Stopping!Fairness => Stopping!Settles /\ Stopping!StopsInTheEnd

(* An update closes the databases of jobs and of volumes, although jobs    *)
(* are stopped while they start and requests wait for locks, unless a      *)
(* request to add a job was refused before; no snapshots are received here *)
(* and no failed update opens the database again, which can block both.    *)
(* While no command has failed and nothing is forked, the volumes of the   *)
(* manager are mounted.                                                    *)
Closed ==
  /\ part = "jobs_close" /\ Closing!Fairness => Closing!Closes
  /\ [](part = "volumes" => Volumes!TypeOK)
  /\ [](part = "volumes_close" => ClosingVolumes!Mounted)
  /\ part = "volumes_close" /\ ClosingVolumes!Fairness => ClosingVolumes!CallsEnd
=============================================================================
