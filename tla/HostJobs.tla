------------------------------ MODULE HostJobs ------------------------------
(***************************************************************************)
(* One host's daemon and its containers: adding, running, watching and     *)
(* stopping jobs (host/http.go, host/state.go,                             *)
(* host/libcontainer_backend.go, host/containerinit/init.go), the state    *)
(* database, and what survives an update or a restart of the daemon        *)
(* (host/update.go, host/host.go).                                         *)
(*                                                                         *)
(* A container is a process of its own: it goes on while the daemon is     *)
(* away.  Of a container's setup only the order matters: a job is checked, *)
(* its container starts, a goroutine connects to it and handles its        *)
(* changes.  Done, crashed and failed are one status, "down".  Images,     *)
(* networks, attachments, logs and the pruning of down jobs are left out.  *)
(***************************************************************************)
EXTENDS Integers, Sequences, FiniteSets

CONSTANTS Jobs,
          Sharing,     \* the jobs that use the same volume
          Stubborn,    \* the jobs whose process ignores SIGTERM
          MaxRefused,  \* bound on requests to add a job that are refused
          MaxUpdates,  \* bound on closing the database to update the daemon
          MaxCrashes,  \* bound on deaths of the daemon
          MaxFaults,   \* bound on log streams that cannot be followed
          MaxUnreached,  \* bound on containers that cannot be reached for ten seconds
          StopEarly    \* whether jobs are stopped while they are starting

VARIABLES
  jobs,     \* State.jobs of the daemon
  stateDB,  \* the jobs and backend-jobs buckets of the database
  daemon,   \* "up", "closing" and "closed" while it updates, "down"
  dbUsers,  \* State.dbUsers
  run,      \* each job's goroutine in AddJob and Run
  watch,    \* each container's goroutine
  known,    \* LibcontainerBackend.containers
  changes,  \* state changes each goroutine has not handled
  stop,     \* each job's StopJob handler
  stopped,  \* jobs whose stop was accepted
  box,      \* the containers
  root,     \* the containers whose directory exists
  sig,      \* signals sent to the processes
  count     \* how often what is bounded happened, and the jobs whose container
            \* ran when watch gave up connecting to it

memory == <<jobs, run, watch, known, changes, stop>>
containers == <<box, root, sig>>
vars == <<memory, stateDB, daemon, dbUsers, stopped, containers, count>>

Statuses == {"none", "starting", "running", "down"}
Active == {"starting", "running"}
Alive(j) == box[j] \in {"initial", "running"}
NoJob == [status |-> "none", ForceStop |-> FALSE]
Open == daemon \in {"up", "closing"}   \* stateDB # nil
Working == daemon # "down"

TypeOK ==
  /\ jobs \in [Jobs -> [status : Statuses, ForceStop : BOOLEAN]]
  /\ stateDB \in [Jobs -> [status : Statuses, ForceStop : BOOLEAN, backend : BOOLEAN]]
  /\ daemon \in {"up", "closing", "closed", "down"} /\ dbUsers \in Nat
  /\ run \in [Jobs -> {"none", "begin", "setup"}]
  /\ watch \in [Jobs -> {"none", "restored", "connect", "logs", "stream", "stopping", "end"}]
  /\ known \subseteq {j \in Jobs : watch[j] \in {"logs", "stream", "stopping", "end"}}
  /\ changes \in [Jobs -> Seq({"initial", "running", "exited", "failed", "closed"})]
  /\ stop \in [Jobs -> {"none", "starting", "waiting"}] /\ stopped \subseteq Jobs
  /\ box \in [Jobs -> {"none", "initial", "running", "exited", "failed", "gone"}]
  /\ count.unreached \subseteq Jobs /\ root \subseteq Jobs /\ sig \in [Jobs -> {"none", "term", "kill"}]
  /\ dbUsers >= Cardinality({j \in Jobs : run[j] # "none"}) + Cardinality({j \in Jobs : stop[j] # "none"})

Init ==
  /\ jobs = [j \in Jobs |-> NoJob]
  /\ stateDB = [j \in Jobs |-> [status |-> "none", ForceStop |-> FALSE, backend |-> FALSE]]
  /\ daemon = "up" /\ dbUsers = 0
  /\ run = [j \in Jobs |-> "none"] /\ watch = [j \in Jobs |-> "none"] /\ known = {}
  /\ changes = [j \in Jobs |-> <<>>] /\ stop = [j \in Jobs |-> "none"] /\ stopped = {}
  /\ box = [j \in Jobs |-> "none"] /\ root = {} /\ sig = [j \in Jobs |-> "none"]
  /\ count = [refused |-> 0, updates |-> 0, crashes |-> 0, faults |-> 0, unreached |-> {}]

-----------------------------------------------------------------------------
(* State: persist writes the job and, if the backend knows its container,  *)
(* the container.  SetStatusRunning, SetStatusDone and SetStatusFailed do  *)
(* nothing to a job that is past that status, and write only if they can   *)
(* acquire the database.                                                   *)
persist_Kept(j, job, cs) ==
  stateDB' = [stateDB EXCEPT ![j] = [status |-> job.status, ForceStop |-> job.ForceStop,
                                     backend |-> j \in cs]]

persist(j, job, cs) ==
  stateDB' = [stateDB EXCEPT ![j] = [status |-> job.status, ForceStop |-> job.ForceStop,
                                     backend |-> job.status \in Active /\ j \in cs]]

SetStatus(j, from, status) ==
  IF jobs[j].status \in from
  THEN /\ jobs' = [jobs EXCEPT ![j].status = status]
       /\ IF Open THEN persist(j, jobs'[j], known) ELSE UNCHANGED stateDB
  ELSE UNCHANGED <<jobs, stateDB>>

SetStatusRunning(j) == SetStatus(j, {"starting"}, "running")
SetStatusDown(j) == SetStatus(j, Active, "down")

-----------------------------------------------------------------------------
(* AddJob: the database is acquired, and released when Run is over, but    *)
(* not when the job is refused.                                            *)
VolumesInUse_Running(j) == j \in Sharing /\ \E k \in Sharing \ {j} : jobs[k].status = "running"

VolumesInUse(j) == j \in Sharing /\ \E k \in Sharing \ {j} : jobs[k].status \in Active

Serving == daemon = "up" /\ \A j \in Jobs : watch[j] # "restored"

AddJob(j) ==
  /\ Serving /\ jobs[j].status = "none" /\ ~VolumesInUse(j)
  /\ dbUsers' = dbUsers + 1
  /\ jobs' = [jobs EXCEPT ![j].status = "starting"]
  /\ persist(j, jobs'[j], known)
  /\ run' = [run EXCEPT ![j] = "begin"]
  /\ UNCHANGED <<daemon, watch, known, changes, stop, stopped, containers, count>>

AddJobRefused(j) ==
  /\ Serving /\ (jobs[j].status # "none" \/ VolumesInUse(j)) /\ count.refused < MaxRefused
  /\ dbUsers' = dbUsers + 1
  /\ count' = [count EXCEPT !.refused = @ + 1]
  /\ UNCHANGED <<memory, stateDB, daemon, stopped, containers>>

(* Run: a job that was stopped is skipped; a container is started, and the *)
(* job written (SetContainerPID) before the goroutine knows the container. *)
RunBegin_Kept(j) ==
  /\ run[j] = "begin"
  /\ run' = [run EXCEPT ![j] = IF jobs[j].ForceStop THEN "none" ELSE "setup"]
  /\ UNCHANGED <<jobs, stateDB, daemon, dbUsers, watch, known, changes, stop, stopped, containers, count>>

RunBegin(j) ==
  /\ run[j] = "begin"
  /\ IF jobs[j].ForceStop THEN run' = [run EXCEPT ![j] = "none"] /\ dbUsers' = dbUsers - 1
                          ELSE run' = [run EXCEPT ![j] = "setup"] /\ UNCHANGED dbUsers
  /\ UNCHANGED <<jobs, stateDB, daemon, watch, known, changes, stop, stopped, containers, count>>

RunFail(j) ==
  /\ run[j] = "setup" /\ run' = [run EXCEPT ![j] = "none"]
  /\ SetStatusDown(j)
  /\ dbUsers' = dbUsers - 1
  /\ UNCHANGED <<daemon, watch, known, changes, stop, stopped, containers, count>>

RunStart(j) ==
  /\ run[j] = "setup" /\ run' = [run EXCEPT ![j] = "none"]
  /\ box' = [box EXCEPT ![j] = "initial"] /\ root' = root \cup {j}
  /\ persist(j, jobs[j], known)
  /\ watch' = [watch EXCEPT ![j] = "connect"]
  /\ dbUsers' = dbUsers - 1
  /\ UNCHANGED <<jobs, daemon, known, changes, stop, stopped, sig, count>>

-----------------------------------------------------------------------------
(* watch: connect to the container, follow its logs, handle its changes.   *)
(* After ten seconds without a connection the job has failed, also when    *)
(* its container is there.                                                 *)
WatchConnect(j) ==
  /\ watch[j] \in {"restored", "connect"}
  /\ \/ /\ box[j] # "gone"
        /\ known' = known \cup {j} /\ watch' = [watch EXCEPT ![j] = "logs"]
        /\ UNCHANGED <<jobs, stateDB, count>>
     \/ /\ box[j] = "gone" \/ Cardinality(count.unreached) < MaxUnreached
        /\ SetStatusDown(j) /\ watch' = [watch EXCEPT ![j] = "end"] /\ UNCHANGED known
        /\ count' = [count EXCEPT !.unreached = IF Alive(j) THEN @ \cup {j} ELSE @]
  /\ UNCHANGED <<daemon, dbUsers, run, changes, stop, stopped, containers>>

(* followLogs fails: watch returns and the status stays what it is. *)
WatchLogs_Down(j) ==
  /\ watch[j] = "logs"
  /\ \/ /\ watch' = [watch EXCEPT ![j] = "stream"]
        /\ changes' = [changes EXCEPT ![j] = <<IF box[j] = "gone" THEN "closed" ELSE box[j]>>]
        /\ UNCHANGED <<jobs, stateDB, count>>
     \/ /\ count.faults < MaxFaults /\ count' = [count EXCEPT !.faults = @ + 1]
        /\ watch' = [watch EXCEPT ![j] = "end"] /\ SetStatusDown(j) /\ UNCHANGED changes
  /\ UNCHANGED <<daemon, dbUsers, run, known, stop, stopped, containers>>

WatchLogs(j) ==
  /\ watch[j] = "logs"
  /\ \/ /\ watch' = [watch EXCEPT ![j] = "stream"]
        /\ changes' = [changes EXCEPT ![j] = <<IF box[j] = "gone" THEN "closed" ELSE box[j]>>]
        /\ UNCHANGED count
     \/ /\ count.faults < MaxFaults /\ count' = [count EXCEPT !.faults = @ + 1]
        /\ watch' = [watch EXCEPT ![j] = "end"] /\ UNCHANGED changes
  /\ UNCHANGED <<jobs, stateDB, daemon, dbUsers, run, known, stop, stopped, containers>>

Taken(j, change) ==
  /\ watch[j] = "stream" /\ changes[j] # <<>> /\ Head(changes[j]) = change

(* The container is resumed: it starts the process or fails to. *)
ChangeInitial(j) ==
  /\ Taken(j, "initial")
  /\ \/ /\ box[j] = "initial"
        /\ \E next \in {"running", "failed"} :
             /\ box' = [box EXCEPT ![j] = next]
             /\ changes' = [changes EXCEPT ![j] = Append(Tail(@), next)]
     \/ box[j] # "initial" /\ changes' = [changes EXCEPT ![j] = Tail(@)] /\ UNCHANGED box
  /\ UNCHANGED <<jobs, stateDB, daemon, dbUsers, run, watch, known, stop, stopped, root, sig, count>>

(* A job that was stopped before it started is sent SIGTERM; the goroutine *)
(* then waits for itself to end, unless the job is down already.           *)

ChangeRunning(j) ==
  /\ Taken(j, "running")
  /\ SetStatusRunning(j)
  /\ changes' = [changes EXCEPT ![j] = Tail(@)]
  /\ IF jobs[j].ForceStop
     THEN /\ sig' = [sig EXCEPT ![j] = "term"]
          /\ watch' = [watch EXCEPT ![j] = IF jobs'[j].status = "down" THEN "stream" ELSE "stopping"]
     ELSE UNCHANGED <<sig, watch>>
  /\ UNCHANGED <<daemon, dbUsers, run, known, stop, stopped, box, root, count>>

(* 30 seconds later. *)
WatchKill(j) ==
  /\ watch[j] = "stopping"
  /\ watch' = [watch EXCEPT ![j] = "stream"] /\ sig' = [sig EXCEPT ![j] = "kill"]
  /\ UNCHANGED <<jobs, stateDB, daemon, dbUsers, run, known, changes, stop, stopped, box, root, count>>

ChangeEnd(j) ==
  /\ \E change \in {"exited", "failed", "closed"} : Taken(j, change)
  /\ SetStatusDown(j)
  /\ changes' = [changes EXCEPT ![j] = <<>>]
  /\ watch' = [watch EXCEPT ![j] = "end"]
  /\ UNCHANGED <<daemon, dbUsers, run, known, stop, stopped, containers, count>>

(* The deferred end: Destroy is tried for 10 seconds and fails while the   *)
(* process runs; then the container is forgotten and cleaned up.           *)
WatchEnd(j) ==
  /\ watch[j] = "end" /\ box[j] \notin {"exited", "failed"}
  /\ watch' = [watch EXCEPT ![j] = "none"] /\ known' = known \ {j}
  /\ root' = IF Alive(j) THEN root ELSE root \ {j}
  /\ UNCHANGED <<jobs, stateDB, daemon, dbUsers, run, changes, stop, stopped, box, sig, count>>

-----------------------------------------------------------------------------
(* StopJob reads the job, and then acts on what it read. *)
StopGet(j) ==
  /\ Serving /\ stop[j] = "none" /\ j \notin stopped
  /\ \/ /\ StopEarly /\ jobs[j].status = "starting"
        /\ stop' = [stop EXCEPT ![j] = "starting"] /\ UNCHANGED sig
     \/ /\ jobs[j].status = "running" /\ j \in known
        /\ stop' = [stop EXCEPT ![j] = "waiting"]
        /\ sig' = [sig EXCEPT ![j] = IF @ = "none" THEN "term" ELSE @]
  /\ dbUsers' = dbUsers + 1
  /\ UNCHANGED <<jobs, stateDB, daemon, run, watch, known, changes, stopped, box, root, count>>

StopStarting(j) ==
  /\ stop[j] = "starting"
  /\ LET status == IF j \notin known /\ jobs[j].status \in Active THEN "down" ELSE jobs[j].status IN
     jobs' = [jobs EXCEPT ![j] = [status |-> status, ForceStop |-> TRUE]]
  /\ persist(j, jobs'[j], known)
  /\ stop' = [stop EXCEPT ![j] = "none"] /\ stopped' = stopped \cup {j}
  /\ dbUsers' = dbUsers - 1
  /\ UNCHANGED <<daemon, run, watch, known, changes, containers, count>>

(* Container.Stop returns when the watch is over, or kills after 30 s. *)
StopWait_NoKill(j) ==
  /\ stop[j] = "waiting"
  /\ stop' = [stop EXCEPT ![j] = "none"] /\ stopped' = stopped \cup {j} /\ UNCHANGED sig
  /\ dbUsers' = dbUsers - 1
  /\ UNCHANGED <<jobs, stateDB, daemon, run, watch, known, changes, box, root, count>>

StopWait(j) ==
  /\ stop[j] = "waiting"
  /\ stop' = [stop EXCEPT ![j] = "none"] /\ stopped' = stopped \cup {j}
  /\ sig' = [sig EXCEPT ![j] = IF watch[j] = "none" THEN @ ELSE "kill"]
  /\ dbUsers' = dbUsers - 1
  /\ UNCHANGED <<jobs, stateDB, daemon, run, watch, known, changes, box, root, count>>

-----------------------------------------------------------------------------
(* The container.  It waits a second for the daemon before it exits. *)
Watched(j) == watch[j] \in {"stream", "stopping"}

BoxExit(j) ==
  /\ box[j] = "running"
  /\ box' = [box EXCEPT ![j] = "exited"]
  /\ changes' = [changes EXCEPT ![j] = IF Watched(j) THEN Append(@, "exited") ELSE @]
  /\ UNCHANGED <<jobs, stateDB, daemon, dbUsers, run, watch, known, stop, stopped, root, sig, count>>

BoxGone(j) ==
  /\ box[j] \in {"exited", "failed"}
  /\ box' = [box EXCEPT ![j] = "gone"]
  /\ UNCHANGED <<memory, stateDB, daemon, dbUsers, stopped, root, sig, count>>

BoxDies(j) ==
  /\ Alive(j)
  /\ box' = [box EXCEPT ![j] = "gone"]
  /\ changes' = [changes EXCEPT ![j] = IF Watched(j) THEN Append(@, "closed") ELSE @]
  /\ UNCHANGED <<jobs, stateDB, daemon, dbUsers, run, watch, known, stop, stopped, root, sig, count>>

-----------------------------------------------------------------------------
(* Update closes the database once nobody uses it and resumes the child,   *)
(* which restores; if that fails the parent opens the database again.      *)
Update ==
  /\ Serving /\ count.updates < MaxUpdates /\ count' = [count EXCEPT !.updates = @ + 1]
  /\ daemon' = "closing"
  /\ UNCHANGED <<memory, stateDB, dbUsers, stopped, containers>>

CloseDB ==
  /\ daemon = "closing" /\ dbUsers = 0
  /\ daemon' = "closed"
  /\ UNCHANGED <<memory, stateDB, dbUsers, stopped, containers, count>>

(* Restore: every container that was written must load; a goroutine        *)
(* connects to each before the daemon serves.                              *)
Loads == \A j \in Jobs : stateDB[j].backend => j \in root

Restore ==
  /\ jobs' = [j \in Jobs |-> [status |-> stateDB[j].status, ForceStop |-> stateDB[j].ForceStop]]
  /\ run' = [j \in Jobs |-> "none"] /\ stop' = [j \in Jobs |-> "none"]
  /\ watch' = [j \in Jobs |-> IF stateDB[j].backend THEN "restored" ELSE "none"]
  /\ known' = {} /\ changes' = [j \in Jobs |-> <<>>]
  /\ daemon' = "up" /\ dbUsers' = 0

Resume ==
  /\ daemon = "closed"
  /\ IF Loads THEN Restore ELSE daemon' = "up" /\ UNCHANGED <<memory, dbUsers>>
  /\ UNCHANGED <<stateDB, stopped, containers, count>>

(* The daemon dies, or is stopped by systemctl restart, and is started     *)
(* again.  Persistent jobs, which it would then add as new ones, are left  *)
(* out.                                                                    *)
Crash ==
  /\ Working /\ count.crashes < MaxCrashes /\ count' = [count EXCEPT !.crashes = @ + 1]
  /\ daemon' = "down" /\ dbUsers' = 0
  /\ jobs' = [j \in Jobs |-> NoJob] /\ run' = [j \in Jobs |-> "none"]
  /\ watch' = [j \in Jobs |-> "none"] /\ stop' = [j \in Jobs |-> "none"]
  /\ known' = {} /\ changes' = [j \in Jobs |-> <<>>]
  /\ UNCHANGED <<stateDB, stopped, containers>>

Start ==
  /\ daemon = "down" /\ Loads
  /\ Restore
  /\ UNCHANGED <<stateDB, stopped, containers, count>>

Next ==
  \/ \E j \in Jobs : \/ AddJob(j) \/ AddJobRefused(j) \/ RunBegin(j) \/ RunFail(j) \/ RunStart(j)
                     \/ WatchConnect(j) \/ WatchLogs(j) \/ ChangeInitial(j) \/ ChangeRunning(j)
                     \/ WatchKill(j) \/ ChangeEnd(j) \/ WatchEnd(j)
                     \/ StopGet(j) \/ StopStarting(j) \/ StopWait(j)
                     \/ BoxExit(j) \/ BoxGone(j) \/ BoxDies(j)
  \/ Update \/ CloseDB \/ Resume \/ Crash \/ Start

Spec == Init /\ [][Next]_vars

(* Goroutines run, setups end, containers react to signals, a daemon that  *)
(* is down is started again.                                               *)
Fairness ==
  /\ WF_vars(CloseDB) /\ WF_vars(Resume) /\ WF_vars(Start)
  /\ \A j \in Jobs :
       /\ WF_vars(RunBegin(j) \/ RunFail(j) \/ RunStart(j))
       /\ WF_vars(WatchConnect(j) \/ WatchLogs(j) \/ ChangeInitial(j) \/ ChangeRunning(j)
                    \/ WatchKill(j) \/ ChangeEnd(j) \/ WatchEnd(j))
       /\ WF_vars(StopStarting(j) \/ StopWait(j)) /\ WF_vars(BoxGone(j))
       /\ WF_vars((sig[j] = "kill" \/ (sig[j] = "term" /\ j \notin Stubborn)) /\ BoxExit(j))

-----------------------------------------------------------------------------
(* Two containers never have the same volume: AddJob refuses a job whose   *)
(* volumes are used by another one.  A job that failed because its         *)
(* container could not be reached goes on with its volume, which is free   *)
(* for the next one: such jobs are left out.                               *)
VolumesExclusive == \A j, k \in Sharing \ count.unreached : Alive(j) /\ Alive(k) => j = k

(* A job that is reported as down has no container that runs: what uses    *)
(* the report, such as the scheduler, may start another one; but for the   *)
(* jobs whose container could not be reached and ran.                      *)
DownIsDown == \A j \in Jobs \ count.unreached : jobs[j].status = "down" => ~Alive(j)

(* A daemon that dies can be started again: every container in the         *)
(* database it leaves exists.  An update during which a job ends, and a    *)
(* log stream that cannot be followed, leave the record of a container     *)
(* that is gone.                                                           *)
Restorable == daemon = "down" /\ count.updates = 0 /\ count.faults = 0 => Loads

(* A job that starts runs or is down in the end, and so does one whose     *)
(* container is gone.                                                      *)
Settles == \A j \in Jobs : /\ jobs[j].status = "starting" ~> jobs[j].status # "starting"
                           /\ jobs[j].status = "running" /\ box[j] = "gone" ~> jobs[j].status = "down"

(* A job whose stop was accepted does not go on running. *)
StopsInTheEnd == \A j \in Jobs : j \in stopped ~> ~Alive(j)

(* An update closes the database: CloseDB waits for requests that end.  It *)
(* waits for ever once a request to add a job was refused, because that    *)
(* does not release the database.                                          *)
Closes == daemon = "closing" /\ count.refused = 0 ~> daemon # "closing"

=============================================================================
