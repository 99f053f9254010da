--------------------------- MODULE HostJobsProofs ---------------------------
(***************************************************************************)
(* Proofs about HostJobs, for any jobs, containers that die or cannot be   *)
(* reached, refused requests, updates and deaths of the daemon: two        *)
(* containers never have one volume, a job reported as down does not run,  *)
(* and a database can be loaded again.  The first two leave out the jobs   *)
(* that failed because their container could not be reached for ten        *)
(* seconds, and it ran.  Jobs are stopped once they run: stopping a job    *)
(* while it starts breaks the first two (the run host_early).              *)
(*                                                                         *)
(* None of the three is inductive.  Recorded says what the job, its record *)
(* in the database and its goroutines know of each other, across deaths of *)
(* the daemon; Exclusive counts the jobs that will start a container.      *)
(***************************************************************************)
EXTENDS HostJobs, TLAPS

(* What is proved of jobs that are stopped once they run. *)
StopsLate == ~StopEarly /\ Sharing \subseteq Jobs

Ends == {"exited", "failed", "closed"}

Counts ==
  [refused : Nat, updates : Nat, crashes : Nat, faults : Nat, unreached : SUBSET Jobs]

Types ==
  /\ jobs \in [Jobs -> [status : Statuses, ForceStop : BOOLEAN]]
  /\ stateDB \in [Jobs -> [status : Statuses, ForceStop : BOOLEAN, backend : BOOLEAN]]
  /\ run \in [Jobs -> {"none", "begin", "setup"}]
  /\ watch \in [Jobs -> {"none", "restored", "connect", "logs", "stream", "stopping", "end"}]
  /\ known \subseteq Jobs
  /\ changes \in [Jobs -> Seq({"initial", "running"} \cup Ends)]
  /\ stop \in [Jobs -> {"none", "waiting"}]
  /\ box \in [Jobs -> {"none", "initial", "running", "exited", "failed", "gone"}]
  /\ daemon \in {"up", "closing", "closed", "down"}
  /\ daemon = "down" => \A j \in Jobs : run[j] = "none" /\ watch[j] = "none"
  /\ count \in Counts

(* A goroutine has yet to handle a change that ends its job. *)
HasEnd(s) == \E i \in 1..Len(s) : s[i] \in Ends
Ending(j) == HasEnd(changes[j])

Recorded(j) ==
  /\ box[j] = "none" =>
       watch[j] = "none" /\ j \notin known /\ changes[j] = <<>> /\ ~stateDB[j].backend
  /\ run[j] # "none" =>
       box[j] = "none" /\ jobs[j].status = "starting" /\ stateDB[j].status = "starting"
  /\ stateDB[j].status = "none" => box[j] = "none"
  /\ Working /\ jobs[j].status = "none" => stateDB[j].status = "none"
  /\ Ending(j) => ~Alive(j)
  /\ "down" \in {jobs[j].status, stateDB[j].status} => ~Alive(j) \/ j \in count.unreached

Holds(j) == (Alive(j) /\ j \notin count.unreached) \/ run[j] # "none"
Exclusive == \A j, k \in Sharing : Holds(j) /\ Holds(k) => j = k

Inv == Types /\ (\A j \in Jobs : Recorded(j)) /\ Exclusive

(* So far no update, during which the status of a job is not written, and  *)
(* no log stream that failed, after which it is not changed.               *)
Smooth == count.updates = 0 /\ count.faults = 0

(* What is written of a job is what the daemon knows, and a container that *)
(* is written or watched has its directory.                                *)
Stored(j) ==
  /\ daemon = "up" => jobs[j].status = stateDB[j].status
  /\ stateDB[j].backend => j \in root /\ stateDB[j].status \in Active
  /\ watch[j] # "none" => j \in root
  /\ j \in known => watch[j] # "none"
  /\ watch[j] = "end" => stateDB[j].status = "down"

AllStored == daemon \in {"up", "down"} /\ \A j \in Jobs : Stored(j)
Loadable == Inv /\ (Smooth => AllStored)

-----------------------------------------------------------------------------
Changes == Seq({"initial", "running"} \cup Ends)

LEMMA HasEndEmpty == ~HasEnd(<<>>)
BY DEF HasEnd

LEMMA HasEndTail ==
  ASSUME NEW s \in Changes, s # <<>>
  PROVE  Tail(s) \in Changes /\ (HasEnd(Tail(s)) => HasEnd(s))
BY DEF HasEnd, Changes

LEMMA HasEndHead ==
  ASSUME NEW s \in Changes, s # <<>>, Head(s) \in Ends PROVE HasEnd(s)
BY DEF HasEnd, Changes

LEMMA HasEndAppend ==
  ASSUME NEW s \in Changes, NEW c \in {"initial", "running"} \cup Ends
  PROVE  Append(s, c) \in Changes /\ (HasEnd(Append(s, c)) => HasEnd(s) \/ c \in Ends)
BY DEF HasEnd, Changes

LEMMA HasEndOne ==
  ASSUME NEW c \in {"initial", "running"} \cup Ends
  PROVE  <<c>> \in Changes /\ (HasEnd(<<c>>) => c \in Ends)
BY DEF HasEnd, Changes

LEMMA CountType ==
  ASSUME count \in Counts,
         \/ UNCHANGED count
         \/ count' = [count EXCEPT !.faults = @ + 1]
         \/ count' = [count EXCEPT !.refused = @ + 1]
         \/ count' = [count EXCEPT !.crashes = @ + 1]
         \/ count' = [count EXCEPT !.updates = @ + 1]
  PROVE  count' \in Counts /\ count'.unreached = count.unreached
BY DEF Counts

(* A step of one job. *)
Only(j) ==
  /\ daemon' = daemon
  /\ \A k \in Jobs \ {j} :
       /\ jobs'[k] = jobs[k] /\ stateDB'[k] = stateDB[k] /\ run'[k] = run[k]
       /\ watch'[k] = watch[k] /\ changes'[k] = changes[k] /\ box'[k] = box[k]
       /\ k \in known' <=> k \in known
       /\ k \in count'.unreached <=> k \in count.unreached

LEMMA OnlyOne ==
  ASSUME StopsLate, Inv, NEW j \in Jobs, Only(j), Types', Recorded(j)',
         Holds(j)' => Holds(j) \/ \A k \in Sharing \ {j} : j \in Sharing => ~Holds(k)
  PROVE  Inv'
<1>1. ASSUME NEW k \in Jobs \ {j} PROVE Recorded(k)' /\ (Holds(k)' <=> Holds(k))
  BY <1>1 DEF Only, Inv, Recorded, Holds, Alive, Working, Ending
<1>2. Exclusive'
  BY <1>1 DEF StopsLate, Inv, Exclusive
<1> QED
  BY <1>1, <1>2 DEF Inv

LEMMA StatusType ==
  ASSUME NEW f \in [Jobs -> [status : Statuses, ForceStop : BOOLEAN]], NEW j \in Jobs,
         NEW st \in Statuses
  PROVE  /\ [f EXCEPT ![j].status = st] \in [Jobs -> [status : Statuses, ForceStop : BOOLEAN]]
         /\ [f EXCEPT ![j].status = st][j].status = st
         /\ \A k \in Jobs \ {j} : [f EXCEPT ![j].status = st][k] = f[k]
<1> DEFINE R == [status : Statuses, ForceStop : BOOLEAN]
<1>1. f[j] \in R
  OBVIOUS
<1>2. [f[j] EXCEPT !.status = st] \in R /\ [f[j] EXCEPT !.status = st].status = st
  BY <1>1
<1>3. PICK r \in R : r = [f[j] EXCEPT !.status = st] /\ r.status = st
  BY <1>2
<1>4. [f EXCEPT ![j].status = st] = [f EXCEPT ![j] = r]
  BY <1>3
<1> HIDE DEF R
<1>5. /\ [f EXCEPT ![j] = r] \in [Jobs -> R] /\ [f EXCEPT ![j] = r][j] = r
      /\ \A k \in Jobs \ {j} : [f EXCEPT ![j] = r][k] = f[k]
  BY DEF R
<1> QED
  BY <1>3, <1>4, <1>5 DEF R

LEMMA SetStatusFacts ==
  ASSUME Types, NEW j \in Jobs, NEW from \in SUBSET Active, NEW st \in {"running", "down"},
         SetStatus(j, from, st)
  PROVE  /\ jobs' \in [Jobs -> [status : Statuses, ForceStop : BOOLEAN]]
         /\ stateDB' \in [Jobs -> [status : Statuses, ForceStop : BOOLEAN, backend : BOOLEAN]]
         /\ \A k \in Jobs \ {j} : jobs'[k] = jobs[k] /\ stateDB'[k] = stateDB[k]
         /\ \/ jobs' = jobs /\ stateDB' = stateDB /\ jobs[j].status \notin from
            \/ /\ jobs[j].status \in from /\ jobs'[j].status = st
               /\ \/ ~Open /\ stateDB' = stateDB
                  \/ /\ Open /\ stateDB'[j].status = st
                     /\ stateDB'[j].backend = (st \in Active /\ j \in known)
<1>1. CASE jobs[j].status \notin from
  BY <1>1 DEF SetStatus, Types
<1>2. CASE jobs[j].status \in from
  <2>1. /\ jobs' = [jobs EXCEPT ![j].status = st]
        /\ IF Open THEN persist(j, jobs'[j], known) ELSE UNCHANGED stateDB
    BY <1>2 DEF SetStatus
  <2>2. /\ jobs' \in [Jobs -> [status : Statuses, ForceStop : BOOLEAN]]
        /\ jobs'[j].status = st /\ \A k \in Jobs \ {j} : jobs'[k] = jobs[k]
    <3>1. st \in Statuses /\ jobs \in [Jobs -> [status : Statuses, ForceStop : BOOLEAN]]
      BY DEF Types, Statuses
    <3> QED
      BY <2>1, <3>1, StatusType, Zenon
  <2>3. CASE Open
    <3>1. stateDB' = [stateDB EXCEPT ![j] =
                        [status |-> st, ForceStop |-> jobs'[j].ForceStop,
                         backend |-> st \in Active /\ j \in known]]
      BY <2>1, <2>2, <2>3 DEF persist
    <3>2. (st \in Active /\ j \in known) \in BOOLEAN /\ jobs'[j].ForceStop \in BOOLEAN
      BY <2>2
    <3>3. /\ stateDB' \in [Jobs -> [status : Statuses, ForceStop : BOOLEAN, backend : BOOLEAN]]
          /\ stateDB'[j].status = st
          /\ stateDB'[j].backend = (st \in Active /\ j \in known)
          /\ \A k \in Jobs \ {j} : stateDB'[k] = stateDB[k]
      BY <3>1, <3>2 DEF Types, Statuses
    <3> QED
      BY <1>2, <2>2, <2>3, <3>3
  <2>4. CASE ~Open
    BY <1>2, <2>1, <2>2, <2>4 DEF Types
  <2> QED
    BY <2>3, <2>4
<1> QED
  BY <1>1, <1>2

LEMMA PersistFacts ==
  ASSUME Types, NEW j \in Jobs,
         NEW job \in [status : Statuses, ForceStop : BOOLEAN], NEW cs, persist(j, job, cs)
  PROVE  /\ stateDB' \in [Jobs -> [status : Statuses, ForceStop : BOOLEAN, backend : BOOLEAN]]
         /\ stateDB'[j].status = job.status
         /\ stateDB'[j].backend = (job.status \in Active /\ j \in cs)
         /\ \A k \in Jobs \ {j} : stateDB'[k] = stateDB[k]
<1>1. (job.status \in Active /\ j \in cs) \in BOOLEAN
  OBVIOUS
<1> QED
  BY <1>1 DEF persist, Types

-----------------------------------------------------------------------------
LEMMA InvInit == ASSUME StopsLate, Init PROVE Inv
<1>1. Types
  BY DEF Init, Types, NoJob, Statuses, Counts
<1>2. ASSUME NEW j \in Jobs PROVE Recorded(j) /\ ~Holds(j)
  BY <1>2, HasEndEmpty DEF Init, Recorded, Ending, Alive, Holds, NoJob
<1>3. Exclusive
  BY <1>2 DEF StopsLate, Exclusive
<1> QED
  BY <1>1, <1>2, <1>3 DEF Inv

LEMMA AddJobStep ==
  ASSUME StopsLate, Inv, NEW j \in Jobs, AddJob(j) PROVE Inv'
<1>1. /\ daemon = "up" /\ jobs[j].status = "none" /\ ~VolumesInUse(j)
      /\ jobs' = [jobs EXCEPT ![j].status = "starting"]
      /\ persist(j, jobs'[j], known) /\ run' = [run EXCEPT ![j] = "begin"]
      /\ UNCHANGED <<daemon, watch, known, changes, stop, box, count>>
  BY DEF AddJob, Serving, containers
<1>2. /\ jobs' \in [Jobs -> [status : Statuses, ForceStop : BOOLEAN]]
      /\ jobs'[j].status = "starting" /\ \A k \in Jobs \ {j} : jobs'[k] = jobs[k]
  <2>1. "starting" \in Statuses /\ jobs \in [Jobs -> [status : Statuses, ForceStop : BOOLEAN]]
    BY DEF Inv, Types, Statuses
  <2> QED
    BY <1>1, <2>1, StatusType, Zenon
<1>3. /\ box[j] = "none" /\ watch[j] = "none" /\ j \notin known /\ changes[j] = <<>>
  BY <1>1 DEF Inv, Recorded, Working
<1>j. PICK job : job = jobs'[j] /\ job \in [status : Statuses, ForceStop : BOOLEAN]
  BY <1>2
<1>4. /\ stateDB' \in [Jobs -> [status : Statuses, ForceStop : BOOLEAN, backend : BOOLEAN]]
      /\ stateDB'[j].status = "starting" /\ ~stateDB'[j].backend
      /\ \A k \in Jobs \ {j} : stateDB'[k] = stateDB[k]
  BY <1>1, <1>2, <1>3, <1>j, PersistFacts DEF Inv, persist
<1>5. Only(j)
  BY <1>1, <1>2, <1>4 DEF Only, Inv, Types
<1>6. Types'
  BY <1>1, <1>2, <1>4 DEF Inv, Types
<1>7. Recorded(j)'
  BY <1>1, <1>2, <1>3, <1>4, HasEndEmpty DEF Recorded, Ending, Alive
<1>8. ASSUME j \in Sharing, NEW k \in Sharing \ {j} PROVE ~Holds(k)
  BY <1>1, <1>8 DEF StopsLate, VolumesInUse, Holds, Inv, Types, Recorded, Working, Alive, Active, Statuses
<1> QED
  BY <1>5, <1>6, <1>7, <1>8, OnlyOne

(* The steps that leave every record and every container alone. *)
LEMMA QuietStep ==
  ASSUME StopsLate, Inv, UNCHANGED <<jobs, stateDB, run, watch, known, changes, box>>,
         stop' \in [Jobs -> {"none", "waiting"}],
         daemon' \in {"up", "closing", "closed"}, daemon # "down",
         count' \in Counts, count'.unreached = count.unreached
  PROVE  Inv'
<1>1. Types'
  BY DEF Inv, Types
<1>2. ASSUME NEW j \in Jobs PROVE Recorded(j)' /\ (Holds(j)' <=> Holds(j))
  BY <1>2 DEF Inv, Recorded, Working, Alive, Ending, Holds
<1> QED
  BY <1>1, <1>2 DEF StopsLate, Inv, Exclusive

LEMMA RunStep ==
  ASSUME StopsLate, Inv, NEW j \in Jobs, RunBegin(j) \/ RunFail(j) \/ RunStart(j)
  PROVE  Inv'
<1>1. /\ box[j] = "none" /\ watch[j] = "none" /\ j \notin known /\ changes[j] = <<>>
      /\ jobs[j].status = "starting" /\ stateDB[j].status = "starting" /\ run[j] # "none"
  BY DEF RunBegin, RunFail, RunStart, Inv, Recorded
<1>2. daemon # "down"
  BY <1>1 DEF Inv, Types
<1>3. Holds(j)
  BY <1>1 DEF Holds
<1>4. CASE RunBegin(j)
  <2>1. /\ run' \in [Jobs -> {"none", "begin", "setup"}]
        /\ \A k \in Jobs \ {j} : run'[k] = run[k]
        /\ UNCHANGED <<jobs, stateDB, daemon, watch, known, changes, stop, box, count>>
    BY <1>4 DEF RunBegin, Inv, Types, containers
  <2>2. Only(j) /\ Types'
    BY <1>2, <2>1 DEF Only, Inv, Types
  <2>3. Recorded(j)'
    BY <1>1, <2>1, HasEndEmpty DEF Inv, Recorded, Ending, Alive, Working
  <2> QED
    BY <1>3, <2>2, <2>3, OnlyOne
<1>5. CASE RunFail(j)
  <2>1. /\ run' = [run EXCEPT ![j] = "none"]
        /\ SetStatus(j, Active, "down")
        /\ UNCHANGED <<daemon, watch, known, changes, stop, box, count>>
    BY <1>5 DEF RunFail, SetStatusDown, containers
  <2>2. /\ jobs' \in [Jobs -> [status : Statuses, ForceStop : BOOLEAN]]
        /\ stateDB' \in [Jobs -> [status : Statuses, ForceStop : BOOLEAN, backend : BOOLEAN]]
        /\ \A k \in Jobs \ {j} : jobs'[k] = jobs[k] /\ stateDB'[k] = stateDB[k]
        /\ jobs'[j].status # "none" /\ stateDB'[j].status # "none"
        /\ ~stateDB[j].backend => ~stateDB'[j].backend
    BY <1>1, <2>1, SetStatusFacts DEF Inv, Active
  <2>3. Only(j) /\ Types'
    BY <1>2, <2>1, <2>2 DEF Only, Inv, Types
  <2>4. Recorded(j)'
    BY <1>1, <2>1, <2>2, HasEndEmpty DEF Inv, Types, Recorded, Ending, Alive, Working
  <2> QED
    BY <1>3, <2>3, <2>4, OnlyOne
<1>6. CASE RunStart(j)
  <2>1. /\ run' = [run EXCEPT ![j] = "none"] /\ box' = [box EXCEPT ![j] = "initial"]
        /\ watch' = [watch EXCEPT ![j] = "connect"]
        /\ persist(j, jobs[j], known)
        /\ UNCHANGED <<jobs, daemon, known, changes, stop, count>>
    BY <1>6 DEF RunStart
  <2>j. PICK job : job = jobs[j] /\ job \in [status : Statuses, ForceStop : BOOLEAN]
    BY DEF Inv, Types
  <2>2. /\ stateDB' \in [Jobs -> [status : Statuses, ForceStop : BOOLEAN, backend : BOOLEAN]]
        /\ stateDB'[j].status = "starting"
        /\ \A k \in Jobs \ {j} : stateDB'[k] = stateDB[k]
    BY <1>1, <2>1, <2>j, PersistFacts DEF Inv, persist
  <2>3. Only(j) /\ Types'
    BY <1>2, <2>1, <2>2 DEF Only, Inv, Types
  <2>4. Recorded(j)'
    BY <1>1, <2>1, <2>2, HasEndEmpty DEF Inv, Types, Recorded, Ending, Alive, Working
  <2> QED
    BY <1>3, <2>3, <2>4, OnlyOne
<1> QED
  BY <1>4, <1>5, <1>6

(* At most one more container could not be reached. *)
CountOf(j) ==
  /\ count' \in Counts /\ count.unreached \subseteq count'.unreached
  /\ count'.unreached \subseteq count.unreached \cup {j}

LEMMA CountSame == ASSUME Inv, NEW j \in Jobs, UNCHANGED count PROVE CountOf(j)
BY DEF Inv, Types, CountOf

(* A goroutine that watches a container ends its job, or does not. *)
LEMMA WatchStep ==
  ASSUME StopsLate, Inv, NEW j \in Jobs, watch[j] # "none",
         watch' \in [Jobs -> {"none", "restored", "connect", "logs", "stream", "stopping", "end"}],
         \A k \in Jobs \ {j} : watch'[k] = watch[k],
         known' \subseteq Jobs, \A k \in Jobs \ {j} : k \in known' <=> k \in known,
         changes' \in [Jobs -> Changes], \A k \in Jobs \ {j} : changes'[k] = changes[k],
         HasEnd(changes'[j]) => ~Alive(j),
         UNCHANGED <<daemon, run, stop, box>>,
         CountOf(j),
         \/ UNCHANGED <<jobs, stateDB>>
         \/ SetStatusRunning(j)
         \/ SetStatusDown(j) /\ (~Alive(j) \/ j \in count'.unreached)
  PROVE  Inv'
<1>1. daemon # "down" /\ box[j] # "none" /\ run[j] = "none"
  BY DEF Inv, Types, Recorded
<1>2. \/ UNCHANGED <<jobs, stateDB>>
      \/ SetStatus(j, {"starting"}, "running")
      \/ SetStatus(j, Active, "down") /\ (~Alive(j) \/ j \in count'.unreached)
  BY DEF SetStatusRunning, SetStatusDown
<1>3. /\ jobs' \in [Jobs -> [status : Statuses, ForceStop : BOOLEAN]]
      /\ stateDB' \in [Jobs -> [status : Statuses, ForceStop : BOOLEAN, backend : BOOLEAN]]
      /\ \A k \in Jobs \ {j} : jobs'[k] = jobs[k] /\ stateDB'[k] = stateDB[k]
      /\ \/ jobs'[j].status \in {jobs[j].status, "running"}
         \/ jobs'[j].status = "down" /\ (~Alive(j) \/ j \in count'.unreached)
      /\ \/ stateDB'[j].status \in {stateDB[j].status, "running"}
         \/ stateDB'[j].status = "down" /\ (~Alive(j) \/ j \in count'.unreached)
      /\ jobs'[j].status = "none" => jobs' = jobs /\ stateDB' = stateDB
  <2>1. CASE UNCHANGED <<jobs, stateDB>>
    BY <2>1 DEF Inv, Types
  <2>2. CASE SetStatus(j, {"starting"}, "running")
    BY <2>2, SetStatusFacts DEF Inv, Active
  <2>3. CASE SetStatus(j, Active, "down") /\ (~Alive(j) \/ j \in count'.unreached)
    BY <2>3, SetStatusFacts DEF Inv, Active
  <2> QED
    BY <1>2, <2>1, <2>2, <2>3
<1>4. Only(j) /\ Types'
  BY <1>1, <1>3 DEF Only, Inv, Types, Changes, CountOf
<1>5. Recorded(j)'
  BY <1>1, <1>3 DEF Inv, Types, Recorded, Ending, Alive, Working, CountOf
<1>6. Holds(j)' => Holds(j)
  BY DEF Holds, Alive, CountOf
<1> QED
  BY <1>4, <1>5, <1>6, OnlyOne

LEMMA WatchConnectStep ==
  ASSUME StopsLate, Inv, NEW j \in Jobs, WatchConnect(j) PROVE Inv'
<1>1. /\ watch[j] # "none" /\ UNCHANGED <<daemon, run, stop, box, changes>>
      /\ \E w \in {"end", "logs"} : watch' = [watch EXCEPT ![j] = w]
      /\ known' \in {known, known \cup {j}}
      /\ \/ UNCHANGED <<jobs, stateDB, count>>
         \/ /\ SetStatusDown(j)
            /\ \/ ~Alive(j) /\ count' = [count EXCEPT !.unreached = @]
               \/ count' = [count EXCEPT !.unreached = @ \cup {j}]
  BY DEF WatchConnect, containers
<1>2. /\ watch' \in [Jobs -> {"none", "restored", "connect", "logs", "stream", "stopping", "end"}]
      /\ \A k \in Jobs \ {j} : watch'[k] = watch[k]
      /\ known' \subseteq Jobs /\ \A k \in Jobs \ {j} : k \in known' <=> k \in known
      /\ changes' \in [Jobs -> Changes]
      /\ HasEnd(changes'[j]) => ~Alive(j)
  BY <1>1 DEF Inv, Types, Recorded, Ending, Changes
<1>3. /\ CountOf(j)
      /\ \/ UNCHANGED <<jobs, stateDB>>
         \/ SetStatusDown(j) /\ (~Alive(j) \/ j \in count'.unreached)
  <2>1. count \in Counts
    BY DEF Inv, Types
  <2>2. UNCHANGED count => CountOf(j)
    BY CountSame
  <2>3. ASSUME \/ count' = [count EXCEPT !.unreached = @]
               \/ count' = [count EXCEPT !.unreached = @ \cup {j}]
        PROVE  CountOf(j)
    <3>1. PICK u \in SUBSET Jobs : /\ count.unreached \subseteq u /\ u \subseteq count.unreached \cup {j}
                                   /\ count' = [count EXCEPT !.unreached = u]
      BY <2>1, <2>3 DEF Counts
    <3>2. count' \in Counts /\ count'.unreached = u
      BY <2>1, <3>1 DEF Counts
    <3> QED
      BY <3>1, <3>2 DEF CountOf
  <2>4. count' = [count EXCEPT !.unreached = @ \cup {j}] => j \in count'.unreached
    BY <2>1 DEF Counts
  <2> QED
    BY <1>1, <2>2, <2>3, <2>4
<1>4. UNCHANGED <<daemon, run, stop, box>> /\ \A k \in Jobs \ {j} : changes'[k] = changes[k]
  BY <1>1
<1> QED
  BY <1>1, <1>2, <1>3, <1>4, WatchStep, Zenon

LEMMA WatchLogsStep ==
  ASSUME StopsLate, Inv, NEW j \in Jobs, WatchLogs(j) PROVE Inv'
<1> DEFINE c == IF box[j] = "gone" THEN "closed" ELSE box[j]
<1>1. /\ watch[j] # "none"
      /\ \E w \in {"end", "stream"} : watch' = [watch EXCEPT ![j] = w]
      /\ changes' = [changes EXCEPT ![j] = <<c>>] \/ changes' = changes
      /\ UNCHANGED <<jobs, stateDB, daemon, run, known, stop, box>>
      /\ UNCHANGED count \/ count' = [count EXCEPT !.faults = @ + 1]
  BY DEF WatchLogs, containers
<1>2. c \in {"initial", "running"} \cup Ends /\ (c \in Ends => ~Alive(j))
  BY <1>1 DEF Inv, Types, Recorded, Alive, Ends
<1> HIDE DEF c
<1>3. <<c>> \in Changes /\ (HasEnd(<<c>>) => ~Alive(j))
  BY <1>2, HasEndOne
<1>4. /\ changes' \in [Jobs -> Changes] /\ \A k \in Jobs \ {j} : changes'[k] = changes[k]
      /\ HasEnd(changes'[j]) => ~Alive(j)
  <2>1. CASE changes' = changes
    BY <2>1 DEF Inv, Types, Changes, Recorded, Ending
  <2>2. CASE changes' = [changes EXCEPT ![j] = <<c>>]
    <3>1. PICK s \in Changes : s = <<c>>
      BY <1>3
    <3>2. /\ changes' \in [Jobs -> Changes] /\ changes'[j] = s
          /\ \A k \in Jobs \ {j} : changes'[k] = changes[k]
      BY <2>2, <3>1 DEF Inv, Types, Changes
    <3> QED
      BY <1>3, <3>1, <3>2
  <2> QED
    BY <1>1, <2>1, <2>2
<1>5. /\ watch' \in [Jobs -> {"none", "restored", "connect", "logs", "stream", "stopping", "end"}]
      /\ \A k \in Jobs \ {j} : watch'[k] = watch[k]
      /\ known' \subseteq Jobs /\ \A k \in Jobs \ {j} : k \in known' <=> k \in known
  BY <1>1 DEF Inv, Types
<1>6. UNCHANGED <<daemon, run, stop, box>> /\ UNCHANGED <<jobs, stateDB>>
  BY <1>1
<1>7. CountOf(j)
  BY <1>1, CountType DEF Inv, Types, CountOf
<1> QED
  BY <1>1, <1>4, <1>5, <1>6, <1>7, WatchStep, Zenon

(* The container is resumed, and its next change follows those there are. *)
LEMMA ChangeInitialStep ==
  ASSUME StopsLate, Inv, NEW j \in Jobs, ChangeInitial(j) PROVE Inv'
<1>1. /\ watch[j] # "none" /\ changes[j] # <<>> /\ changes[j] \in Changes
      /\ UNCHANGED <<jobs, stateDB, daemon, run, watch, known, stop, count>>
  BY DEF ChangeInitial, Taken, Inv, Types, Changes
<1>2. Tail(changes[j]) \in Changes /\ (HasEnd(Tail(changes[j])) => ~Alive(j))
  BY <1>1, HasEndTail DEF Inv, Recorded, Ending
<1>3. CASE UNCHANGED box /\ changes' = [changes EXCEPT ![j] = Tail(@)]
  <2>1. /\ changes' \in [Jobs -> Changes] /\ changes'[j] = Tail(changes[j])
        /\ \A k \in Jobs \ {j} : changes'[k] = changes[k]
    BY <1>2, <1>3 DEF Inv, Types, Changes
  <2>2. /\ watch' \in [Jobs -> {"none", "restored", "connect", "logs", "stream", "stopping", "end"}]
        /\ \A k \in Jobs \ {j} : watch'[k] = watch[k]
        /\ known' \subseteq Jobs /\ \A k \in Jobs \ {j} : k \in known' <=> k \in known
    BY <1>1 DEF Inv, Types
  <2>3. UNCHANGED <<daemon, run, stop, box>> /\ UNCHANGED <<jobs, stateDB>>
    BY <1>1, <1>3
  <2>4. HasEnd(changes'[j]) => ~Alive(j)
    BY <1>2, <2>1
  <2> QED
    BY <1>1, <2>1, <2>2, <2>3, <2>4, CountSame, WatchStep, Zenon
<1>4. ASSUME box[j] = "initial", NEW next \in {"running", "failed"},
             box' = [box EXCEPT ![j] = next],
             changes' = [changes EXCEPT ![j] = Append(Tail(@), next)]
      PROVE  Inv'
  <2>1. next \in {"initial", "running"} \cup Ends /\ (next \in Ends <=> next = "failed")
    BY DEF Ends
  <2>2. /\ Append(Tail(changes[j]), next) \in Changes
        /\ HasEnd(Append(Tail(changes[j]), next)) => next = "failed"
    BY <1>2, <1>4, <2>1, HasEndAppend DEF Alive
  <2>3. /\ changes' \in [Jobs -> Changes] /\ changes'[j] = Append(Tail(changes[j]), next)
        /\ \A k \in Jobs \ {j} : changes'[k] = changes[k]
        /\ box' \in [Jobs -> {"none", "initial", "running", "exited", "failed", "gone"}]
        /\ box'[j] = next /\ \A k \in Jobs \ {j} : box'[k] = box[k]
    BY <1>4, <2>2 DEF Inv, Types, Changes
  <2>4. Only(j) /\ Types'
    BY <1>1, <2>3 DEF Only, Inv, Types, Changes
  <2>5. Recorded(j)'
    BY <1>1, <1>4, <2>2, <2>3 DEF Inv, Recorded, Ending, Alive, Working
  <2>6. Holds(j)' => Holds(j)
    BY <1>1, <1>4 DEF Holds, Alive
  <2> QED
    BY <2>4, <2>5, <2>6, OnlyOne
<1> QED
  BY <1>3, <1>4 DEF ChangeInitial

LEMMA ChangeRunningStep ==
  ASSUME StopsLate, Inv, NEW j \in Jobs, ChangeRunning(j) PROVE Inv'
<1>1. /\ watch[j] # "none" /\ changes[j] # <<>> /\ changes[j] \in Changes
      /\ UNCHANGED <<daemon, run, known, stop, box, count>>
      /\ \E w \in {"stream", "stopping"} : watch' \in {watch, [watch EXCEPT ![j] = w]}
      /\ changes' = [changes EXCEPT ![j] = Tail(@)]
  BY DEF ChangeRunning, Taken, Inv, Types, Changes
<1>2. Tail(changes[j]) \in Changes /\ (HasEnd(Tail(changes[j])) => ~Alive(j))
  BY <1>1, HasEndTail DEF Inv, Recorded, Ending
<1>3. /\ changes' \in [Jobs -> Changes] /\ changes'[j] = Tail(changes[j])
      /\ \A k \in Jobs \ {j} : changes'[k] = changes[k]
  BY <1>1, <1>2 DEF Inv, Types, Changes
<1>4. /\ watch' \in [Jobs -> {"none", "restored", "connect", "logs", "stream", "stopping", "end"}]
      /\ \A k \in Jobs \ {j} : watch'[k] = watch[k]
      /\ known' \subseteq Jobs /\ \A k \in Jobs \ {j} : k \in known' <=> k \in known
  BY <1>1 DEF Inv, Types
<1>5. UNCHANGED <<daemon, run, stop, box>> /\ SetStatusRunning(j)
  BY <1>1 DEF ChangeRunning
<1>6. HasEnd(changes'[j]) => ~Alive(j)
  BY <1>2, <1>3
<1> QED
  BY <1>1, <1>3, <1>4, <1>5, <1>6, CountSame, WatchStep, Zenon

(* Its container has ended, so the job is down. *)
LEMMA ChangeEndStep ==
  ASSUME StopsLate, Inv, NEW j \in Jobs, ChangeEnd(j) PROVE Inv'
<1>1. /\ watch[j] # "none" /\ changes[j] # <<>> /\ Head(changes[j]) \in Ends
      /\ changes[j] \in Changes
      /\ UNCHANGED <<daemon, run, known, stop, box, count>>
      /\ watch' = [watch EXCEPT ![j] = "end"] /\ changes' = [changes EXCEPT ![j] = <<>>]
  BY DEF ChangeEnd, Taken, Ends, Inv, Types, Changes, containers
<1>2. ~Alive(j)
  BY <1>1, HasEndHead DEF Inv, Recorded, Ending
<1>3. /\ changes' \in [Jobs -> Changes] /\ \A k \in Jobs \ {j} : changes'[k] = changes[k]
  BY <1>1 DEF Inv, Types, Changes
<1>4. /\ watch' \in [Jobs -> {"none", "restored", "connect", "logs", "stream", "stopping", "end"}]
      /\ \A k \in Jobs \ {j} : watch'[k] = watch[k]
      /\ known' \subseteq Jobs /\ \A k \in Jobs \ {j} : k \in known' <=> k \in known
  BY <1>1 DEF Inv, Types
<1>5. UNCHANGED <<daemon, run, stop, box>> /\ SetStatusDown(j)
  BY <1>1 DEF ChangeEnd
<1> QED
  BY <1>1, <1>2, <1>3, <1>4, <1>5, CountSame, WatchStep, Zenon

LEMMA WatchKillEndStep ==
  ASSUME StopsLate, Inv, NEW j \in Jobs, WatchKill(j) \/ WatchEnd(j) PROVE Inv'
<1>1. /\ watch[j] # "none" /\ known' \in {known, known \ {j}}
      /\ \E w \in {"stream", "none"} : watch' = [watch EXCEPT ![j] = w]
      /\ UNCHANGED <<jobs, stateDB, daemon, run, changes, stop, box, count>>
  BY DEF WatchKill, WatchEnd
<1>2. /\ changes' \in [Jobs -> Changes] /\ \A k \in Jobs \ {j} : changes'[k] = changes[k]
      /\ HasEnd(changes'[j]) => ~Alive(j)
  BY <1>1 DEF Inv, Types, Changes, Recorded, Ending
<1>3. /\ watch' \in [Jobs -> {"none", "restored", "connect", "logs", "stream", "stopping", "end"}]
      /\ \A k \in Jobs \ {j} : watch'[k] = watch[k]
      /\ known' \subseteq Jobs /\ \A k \in Jobs \ {j} : k \in known' <=> k \in known
  BY <1>1 DEF Inv, Types
<1>4. UNCHANGED <<daemon, run, stop, box>> /\ UNCHANGED <<jobs, stateDB>>
  BY <1>1
<1> QED
  BY <1>1, <1>2, <1>3, <1>4, CountSame, WatchStep, Zenon

(* A container ends by itself. *)
LEMMA BoxStep ==
  ASSUME StopsLate, Inv, NEW j \in Jobs, BoxExit(j) \/ BoxGone(j) \/ BoxDies(j) PROVE Inv'
<1>1. PICK b \in {"exited", "gone"}, c \in {"exited", "closed"} :
        /\ box[j] # "none" /\ box' = [box EXCEPT ![j] = b]
        /\ \/ changes' = [changes EXCEPT ![j] = Append(@, c)]
           \/ changes' = [changes EXCEPT ![j] = @]
           \/ changes' = changes
        /\ UNCHANGED <<jobs, stateDB, daemon, run, watch, known, stop, count>>
  BY DEF BoxExit, BoxGone, BoxDies, Alive, memory
<1>2. /\ box' \in [Jobs -> {"none", "initial", "running", "exited", "failed", "gone"}]
      /\ box'[j] = b /\ \A k \in Jobs \ {j} : box'[k] = box[k]
  BY <1>1 DEF Inv, Types
<1>3. changes' \in [Jobs -> Changes] /\ \A k \in Jobs \ {j} : changes'[k] = changes[k]
  <2>1. changes \in [Jobs -> Changes] /\ changes[j] \in Changes
    BY DEF Inv, Types, Changes
  <2>2. PICK s \in Changes : s = Append(changes[j], c)
    BY <2>1, HasEndAppend DEF Ends
  <2>3. CASE changes' = [changes EXCEPT ![j] = Append(@, c)]
    BY <2>1, <2>2, <2>3
  <2>4. CASE changes' = [changes EXCEPT ![j] = @] \/ changes' = changes
    BY <2>1, <2>4
  <2> QED
    BY <1>1, <2>3, <2>4
<1>4. Only(j) /\ Types'
  BY <1>1, <1>2, <1>3 DEF Only, Inv, Types, Changes
<1>5. ~Alive(j)' /\ run[j] = "none"
  BY <1>1, <1>2 DEF Alive, Inv, Types, Recorded
<1>6. Recorded(j)'
  BY <1>1, <1>2, <1>5 DEF Inv, Recorded, Working
<1> QED
  BY <1>1, <1>4, <1>5, <1>6, OnlyOne DEF Holds

LEMMA StopStep ==
  ASSUME StopsLate, Inv, NEW j \in Jobs,
         StopGet(j) \/ StopStarting(j) \/ StopWait(j) \/ AddJobRefused(j)
  PROVE  Inv'
<1>1. stop[j] # "starting"
  BY DEF Inv, Types
<1>2. /\ UNCHANGED <<jobs, stateDB, run, watch, known, changes, box, daemon>>
      /\ \E s \in {"none", "waiting"} : stop' \in {stop, [stop EXCEPT ![j] = s]}
  BY <1>1 DEF StopsLate, StopGet, StopStarting, StopWait, AddJobRefused, memory, containers
<1>3. stop' \in [Jobs -> {"none", "waiting"}]
  BY <1>2 DEF Inv, Types
<1>6. count' \in Counts /\ count'.unreached = count.unreached
  <2>1. UNCHANGED count \/ count' = [count EXCEPT !.refused = @ + 1]
    BY DEF StopGet, StopStarting, StopWait, AddJobRefused
  <2> QED
    BY <2>1 DEF Inv, Types, Counts
<1>4. CASE daemon # "down"
  BY <1>2, <1>3, <1>4, <1>6, QuietStep DEF Inv, Types
<1>5. CASE daemon = "down"
  <2>1. Types'
    BY <1>2, <1>3, <1>6 DEF Inv, Types
  <2>2. ASSUME NEW k \in Jobs PROVE Recorded(k)' /\ (Holds(k)' <=> Holds(k))
    BY <1>2, <1>6, <2>2 DEF Inv, Recorded, Working, Alive, Ending, Holds
  <2> QED
    BY <2>1, <2>2 DEF StopsLate, Inv, Exclusive
<1> QED
  BY <1>4, <1>5

(* The database is read again: what it says of a container holds. *)
LEMMA RestoreStep ==
  ASSUME StopsLate, Inv, Restore, UNCHANGED <<stateDB, box, count>> PROVE Inv'
<1>1. /\ jobs' = [j \in Jobs |-> [status |-> stateDB[j].status, ForceStop |-> stateDB[j].ForceStop]]
      /\ run' = [j \in Jobs |-> "none"] /\ stop' = [j \in Jobs |-> "none"]
      /\ watch' = [j \in Jobs |-> IF stateDB[j].backend THEN "restored" ELSE "none"]
      /\ known' = {} /\ changes' = [j \in Jobs |-> <<>>] /\ daemon' = "up"
  BY DEF Restore
<1>2. Types'
  <2>1. jobs' \in [Jobs -> [status : Statuses, ForceStop : BOOLEAN]]
    BY <1>1 DEF Inv, Types
  <2>2. changes' \in [Jobs -> Seq({"initial", "running"} \cup Ends)]
    BY <1>1
  <2> QED
    BY <1>1, <2>1, <2>2 DEF Inv, Types
<1>3. ASSUME NEW j \in Jobs PROVE Recorded(j)'
  <2>1. /\ jobs'[j].status = stateDB[j].status /\ run'[j] = "none" /\ changes'[j] = <<>>
        /\ ~stateDB[j].backend => watch'[j] = "none"
    BY <1>1, <1>3
  <2> QED
    BY <1>1, <1>3, <2>1, HasEndEmpty DEF Inv, Recorded, Ending, Alive, Working
<1>4. ASSUME NEW j \in Jobs, Holds(j)' PROVE Holds(j)
  BY <1>1, <1>4 DEF Holds, Alive
<1>5. Exclusive'
  BY <1>4 DEF StopsLate, Inv, Exclusive
<1> QED
  BY <1>2, <1>3, <1>5 DEF Inv

LEMMA CrashStep == ASSUME StopsLate, Inv, Crash PROVE Inv'
<1>1. /\ jobs' = [j \in Jobs |-> NoJob]
      /\ run' = [j \in Jobs |-> "none"] /\ stop' = [j \in Jobs |-> "none"]
      /\ watch' = [j \in Jobs |-> "none"] /\ known' = {}
      /\ changes' = [j \in Jobs |-> <<>>] /\ daemon' = "down"
      /\ UNCHANGED <<stateDB, box>> /\ count' = [count EXCEPT !.crashes = @ + 1]
  BY DEF Crash, containers
<1>6. count' \in Counts /\ count'.unreached = count.unreached
  BY <1>1, CountType DEF Inv, Types
<1>2. Types'
  BY <1>1, <1>6 DEF Inv, Types, NoJob, Statuses
<1>3. ASSUME NEW j \in Jobs PROVE Recorded(j)'
  <2>1. jobs'[j].status = "none" /\ run'[j] = "none" /\ changes'[j] = <<>> /\ watch'[j] = "none"
    BY <1>1, <1>3 DEF NoJob
  <2> QED
    BY <1>1, <1>3, <1>6, <2>1, HasEndEmpty DEF Inv, Recorded, Ending, Alive, Working
<1>4. ASSUME NEW j \in Jobs, Holds(j)' PROVE Holds(j)
  BY <1>1, <1>4, <1>6 DEF Holds, Alive
<1>5. Exclusive'
  BY <1>4 DEF StopsLate, Inv, Exclusive
<1> QED
  BY <1>2, <1>3, <1>5 DEF Inv

LEMMA DaemonStep ==
  ASSUME StopsLate, Inv, Update \/ CloseDB \/ Resume \/ Crash \/ Start PROVE Inv'
<1>1. CASE Update \/ CloseDB \/ (Resume /\ ~Loads)
  <2>1. /\ UNCHANGED <<jobs, stateDB, run, watch, known, changes, stop, box>>
        /\ daemon # "down" /\ daemon' \in {"up", "closing", "closed"}
        /\ UNCHANGED count \/ count' = [count EXCEPT !.updates = @ + 1]
    BY <1>1 DEF Update, CloseDB, Resume, Serving, memory, containers
  <2>2. count' \in Counts /\ count'.unreached = count.unreached
    BY <2>1 DEF Inv, Types, Counts
  <2> QED
    BY <2>1, <2>2, QuietStep DEF Inv, Types
<1>2. CASE Start \/ (Resume /\ Loads)
  BY <1>2, RestoreStep DEF Start, Resume, containers
<1> QED
  BY <1>1, <1>2, CrashStep

LEMMA InvNext == ASSUME StopsLate, Inv, [Next]_vars PROVE Inv'
<1>1. CASE UNCHANGED vars
  <2>1. /\ UNCHANGED <<jobs, stateDB, run, watch, known, changes, box, stop, daemon, count>>
    BY <1>1 DEF vars, memory, containers
  <2>2. Types'
    BY <2>1 DEF Inv, Types
  <2>3. ASSUME NEW k \in Jobs PROVE Recorded(k)' /\ (Holds(k)' <=> Holds(k))
    BY <2>1, <2>3 DEF Inv, Recorded, Working, Alive, Ending, Holds
  <2> QED
    BY <2>2, <2>3 DEF StopsLate, Inv, Exclusive
<1>2. ASSUME NEW j \in Jobs, AddJob(j) \/ RunBegin(j) \/ RunFail(j) \/ RunStart(j)
      PROVE  Inv'
  BY <1>2, AddJobStep, RunStep
<1>3. ASSUME NEW j \in Jobs,
             \/ WatchConnect(j) \/ WatchLogs(j) \/ ChangeInitial(j) \/ ChangeRunning(j)
             \/ WatchKill(j) \/ ChangeEnd(j) \/ WatchEnd(j)
      PROVE  Inv'
  BY <1>3, WatchConnectStep, WatchLogsStep, ChangeInitialStep, ChangeRunningStep,
     ChangeEndStep, WatchKillEndStep
<1>4. ASSUME NEW j \in Jobs,
             \/ StopGet(j) \/ StopStarting(j) \/ StopWait(j) \/ AddJobRefused(j)
             \/ BoxExit(j) \/ BoxGone(j) \/ BoxDies(j)
      PROVE  Inv'
  BY <1>4, StopStep, BoxStep
<1>5. CASE Update \/ CloseDB \/ Resume \/ Crash \/ Start
  BY <1>5, DaemonStep
<1> QED
  BY <1>1, <1>2, <1>3, <1>4, <1>5 DEF Next

(* Two containers never have the same volume, whatever updates and deaths  *)
(* of the daemon come between: AddJob refuses a job whose volumes are used *)
(* by one that is starting or running, and a restored daemon knows those;  *)
(* but for jobs whose container ran when watch gave up connecting to it.   *)
THEOREM VolumesNotShared == ASSUME StopsLate PROVE Spec => []VolumesExclusive
<1>1. Init => Inv
  BY InvInit
<1>2. Inv /\ [Next]_vars => Inv'
  BY InvNext
<1>3. Inv => VolumesExclusive
  BY DEF StopsLate, Inv, Exclusive, Holds, VolumesExclusive
<1> QED
  BY <1>1, <1>2, <1>3, PTL DEF Spec

(* A job that the host reports as down (SetStatusDone, SetStatusFailed)    *)
(* has no container that runs, unless watch gave up connecting to it.      *)
THEOREM ReportedDown == ASSUME StopsLate PROVE Spec => []DownIsDown
<1>1. Init => Inv
  BY InvInit
<1>2. Inv /\ [Next]_vars => Inv'
  BY InvNext
<1>3. Inv => DownIsDown
  BY DEF Inv, Recorded, DownIsDown
<1> QED
  BY <1>1, <1>2, <1>3, PTL DEF Spec

-----------------------------------------------------------------------------
(* The database can be loaded. *)

(* What was counted is not forgotten. *)
LEMMA CountStep ==
  ASSUME count \in Counts, [Next]_vars
  PROVE  count' \in Counts /\ (Smooth' => Smooth)
<1>1. \/ UNCHANGED count
      \/ count' = [count EXCEPT !.refused = @ + 1]
      \/ count' = [count EXCEPT !.updates = @ + 1]
      \/ count' = [count EXCEPT !.crashes = @ + 1]
      \/ count' = [count EXCEPT !.faults = @ + 1]
      \/ \E j \in Jobs : count' = [count EXCEPT !.unreached = IF Alive(j) THEN @ \cup {j} ELSE @]
  <2>1. CASE UNCHANGED vars
    BY <2>1 DEF vars
  <2>2. ASSUME NEW j \in Jobs,
               \/ AddJob(j) \/ AddJobRefused(j) \/ RunBegin(j) \/ RunFail(j) \/ RunStart(j)
               \/ WatchConnect(j) \/ WatchLogs(j) \/ ChangeInitial(j) \/ ChangeRunning(j)
               \/ WatchKill(j) \/ ChangeEnd(j) \/ WatchEnd(j)
               \/ StopGet(j) \/ StopStarting(j) \/ StopWait(j)
               \/ BoxExit(j) \/ BoxGone(j) \/ BoxDies(j)
        PROVE  \/ UNCHANGED count
               \/ count' = [count EXCEPT !.refused = @ + 1]
               \/ count' = [count EXCEPT !.faults = @ + 1]
               \/ count' = [count EXCEPT !.unreached = IF Alive(j) THEN @ \cup {j} ELSE @]
    BY <2>2 DEF AddJob, AddJobRefused, RunBegin, RunFail, RunStart, WatchConnect, WatchLogs,
       ChangeInitial, ChangeRunning, WatchKill, ChangeEnd, WatchEnd, StopGet, StopStarting,
       StopWait, BoxExit, BoxGone, BoxDies
  <2>3. CASE Update \/ CloseDB \/ Resume \/ Crash \/ Start
    BY <2>3 DEF Update, CloseDB, Resume, Crash, Start
  <2> QED
    BY <2>1, <2>2, <2>3 DEF Next
<1> QED
  BY <1>1 DEF Counts, Smooth

(* Goroutines that go on, while what is known of the containers stays. *)
LEMMA CalmStep ==
  ASSUME Inv, AllStored, UNCHANGED <<jobs, stateDB, known, root, daemon>>,
         \A k \in Jobs : /\ watch'[k] = "none" <=> watch[k] = "none"
                         /\ watch'[k] = "end" => watch[k] = "end"
  PROVE  AllStored'
BY DEF AllStored, Stored

(* One job's goroutine changes what is known. *)
LEMMA StoredOnly ==
  ASSUME Inv, AllStored, NEW j \in Jobs, Stored(j)', daemon' = daemon,
         \A k \in Jobs \ {j} :
           /\ jobs'[k] = jobs[k] /\ stateDB'[k] = stateDB[k] /\ watch'[k] = watch[k]
           /\ k \in known' <=> k \in known
           /\ k \in root' <=> k \in root
  PROVE  AllStored'
<1>1. ASSUME NEW k \in Jobs \ {j} PROVE Stored(k)'
  BY <1>1 DEF AllStored, Stored
<1> QED
  BY <1>1 DEF Inv, AllStored

LEMMA StoredAdd ==
  ASSUME Inv, AllStored, NEW j \in Jobs, AddJob(j)
  PROVE  AllStored'
<1>1. /\ daemon = "up" /\ jobs[j].status = "none"
      /\ jobs' = [jobs EXCEPT ![j].status = "starting"]
      /\ persist(j, jobs'[j], known)
      /\ UNCHANGED <<daemon, watch, known, root>>
  BY DEF AddJob, Serving, containers
<1>2. /\ jobs' \in [Jobs -> [status : Statuses, ForceStop : BOOLEAN]]
      /\ jobs'[j].status = "starting" /\ \A k \in Jobs \ {j} : jobs'[k] = jobs[k]
  <2>1. "starting" \in Statuses /\ jobs \in [Jobs -> [status : Statuses, ForceStop : BOOLEAN]]
    BY DEF Inv, Types, Statuses
  <2> QED
    BY <1>1, <2>1, StatusType, Zenon
<1>3. j \notin known /\ watch[j] = "none"
  BY <1>1 DEF Inv, AllStored, Recorded, Working
<1>4. PICK job : job = jobs'[j] /\ job \in [status : Statuses, ForceStop : BOOLEAN]
  BY <1>2
<1>5. /\ stateDB'[j].status = "starting" /\ ~stateDB'[j].backend
      /\ \A k \in Jobs \ {j} : stateDB'[k] = stateDB[k]
  BY <1>1, <1>2, <1>3, <1>4, PersistFacts DEF Inv, persist
<1>6. Stored(j)'
  BY <1>1, <1>2, <1>3, <1>5 DEF Stored
<1> QED
  BY <1>1, <1>2, <1>5, <1>6, StoredOnly

LEMMA StoredRun ==
  ASSUME Inv, AllStored, NEW j \in Jobs, RunFail(j) \/ RunStart(j)
  PROVE  AllStored'
<1>1. /\ daemon = "up" /\ jobs[j].status = "starting" /\ stateDB[j].status = "starting"
      /\ j \notin known /\ watch[j] = "none"
  BY DEF RunFail, RunStart, Inv, AllStored, Types, Recorded
<1>2. CASE RunFail(j)
  <2>1. SetStatus(j, Active, "down") /\ UNCHANGED <<daemon, watch, known, root>>
    BY <1>2 DEF RunFail, SetStatusDown, containers
  <2>2. /\ \A k \in Jobs \ {j} : jobs'[k] = jobs[k] /\ stateDB'[k] = stateDB[k]
        /\ jobs'[j].status = "down" /\ stateDB'[j].status = "down" /\ ~stateDB'[j].backend
    BY <1>1, <2>1, SetStatusFacts DEF Inv, AllStored, Active, Open
  <2>3. Stored(j)'
    BY <1>1, <2>1, <2>2 DEF Stored
  <2> QED
    BY <2>1, <2>2, <2>3, StoredOnly
<1>3. CASE RunStart(j)
  <2>1. /\ persist(j, jobs[j], known) /\ watch' = [watch EXCEPT ![j] = "connect"]
        /\ root' = root \cup {j} /\ UNCHANGED <<jobs, daemon, known>>
    BY <1>3 DEF RunStart
  <2>2. PICK job : job = jobs[j] /\ job \in [status : Statuses, ForceStop : BOOLEAN]
    BY DEF Inv, Types
  <2>3. /\ stateDB'[j].status = "starting" /\ ~stateDB'[j].backend
        /\ \A k \in Jobs \ {j} : stateDB'[k] = stateDB[k]
    BY <1>1, <2>1, <2>2, PersistFacts DEF Inv, persist
  <2>4. watch'[j] = "connect" /\ \A k \in Jobs \ {j} : watch'[k] = watch[k]
    BY <2>1 DEF Inv, Types
  <2>5. Stored(j)'
    BY <1>1, <2>1, <2>3, <2>4 DEF Stored
  <2> QED
    BY <2>1, <2>3, <2>4, <2>5, StoredOnly
<1> QED
  BY <1>2, <1>3

(* A goroutine that ends a job has written that it is down. *)
LEMMA StoredWatch ==
  ASSUME Inv, AllStored, NEW j \in Jobs,
         WatchConnect(j) \/ ChangeRunning(j) \/ ChangeEnd(j) \/ WatchEnd(j)
  PROVE  AllStored'
<1>1. /\ watch[j] # "none" /\ daemon = "up" /\ daemon' = daemon /\ j \in root
      /\ jobs[j].status = stateDB[j].status /\ jobs[j].status # "none"
  BY DEF WatchConnect, ChangeRunning, ChangeEnd, WatchEnd, Taken, Inv, AllStored, Types,
     Recorded, Stored
<1>2. Types
  BY DEF Inv
<1>3. ASSUME SetStatusDown(j)
      PROVE  /\ \A k \in Jobs \ {j} : jobs'[k] = jobs[k] /\ stateDB'[k] = stateDB[k]
             /\ jobs'[j].status = "down" /\ stateDB'[j].status = "down"
             /\ ~stateDB'[j].backend
  <2>1. SetStatus(j, Active, "down")
    BY <1>3 DEF SetStatusDown
  <2>2. jobs[j].status \in Statuses
    BY <1>2 DEF Types
  <2>3. "down" \notin Active
    BY DEF Active
  <2>4. jobs[j].status \notin Active => jobs[j].status = "down" /\ ~stateDB[j].backend
    BY <1>1, <2>2 DEF Statuses, Active, AllStored, Stored
  <2> QED
    BY <1>1, <1>2, <2>1, <2>3, <2>4, SetStatusFacts DEF Open
<1>4. CASE WatchConnect(j)
  <2>1. CASE SetStatusDown(j) /\ watch' = [watch EXCEPT ![j] = "end"] /\ UNCHANGED <<known, root>>
    <3>1. watch'[j] = "end" /\ \A k \in Jobs \ {j} : watch'[k] = watch[k]
      BY <1>2, <2>1 DEF Types
    <3>2. Stored(j)'
      BY <1>1, <1>3, <2>1, <3>1 DEF Stored
    <3> QED
      BY <1>1, <1>3, <2>1, <3>1, <3>2, StoredOnly
  <2>2. CASE known' = known \cup {j} /\ watch' = [watch EXCEPT ![j] = "logs"]
             /\ UNCHANGED <<jobs, stateDB, root>>
    <3>1. watch'[j] = "logs" /\ \A k \in Jobs \ {j} : watch'[k] = watch[k]
      BY <1>2, <2>2 DEF Types
    <3>2. Stored(j)'
      BY <1>1, <2>2, <3>1 DEF AllStored, Stored
    <3> QED
      BY <1>1, <2>2, <3>1, <3>2, StoredOnly
  <2> QED
    BY <1>4, <2>1, <2>2 DEF WatchConnect, containers
<1>5. CASE ChangeRunning(j)
  <2>1. /\ SetStatus(j, {"starting"}, "running") /\ UNCHANGED <<known, root>>
        /\ \E w \in {"stream", "stopping"} : watch' \in {watch, [watch EXCEPT ![j] = w]}
        /\ watch[j] = "stream"
    BY <1>5 DEF ChangeRunning, SetStatusRunning, Taken
  <2>2. /\ watch'[j] \notin {"none", "end"} /\ \A k \in Jobs \ {j} : watch'[k] = watch[k]
    BY <1>2, <2>1 DEF Types
  <2>3. /\ \A k \in Jobs \ {j} : jobs'[k] = jobs[k] /\ stateDB'[k] = stateDB[k]
        /\ jobs'[j].status = stateDB'[j].status
        /\ stateDB'[j].status = "running" \/ stateDB' = stateDB
    BY <1>1, <1>2, <2>1, SetStatusFacts DEF Active, Open
  <2>4. Stored(j)'
    BY <1>1, <2>1, <2>2, <2>3 DEF AllStored, Stored, Active
  <2> QED
    BY <1>1, <2>1, <2>2, <2>3, <2>4, StoredOnly
<1>6. CASE ChangeEnd(j)
  <2>1. SetStatusDown(j) /\ UNCHANGED <<known, root>> /\ watch' = [watch EXCEPT ![j] = "end"]
    BY <1>6 DEF ChangeEnd, containers
  <2>2. watch'[j] = "end" /\ \A k \in Jobs \ {j} : watch'[k] = watch[k]
    BY <1>2, <2>1 DEF Types
  <2>3. Stored(j)'
    BY <1>1, <1>3, <2>1, <2>2 DEF Stored
  <2> QED
    BY <1>1, <1>3, <2>1, <2>2, <2>3, StoredOnly
<1>7. CASE WatchEnd(j)
  <2>1. /\ watch[j] = "end" /\ watch' = [watch EXCEPT ![j] = "none"] /\ known' = known \ {j}
        /\ root' \in {root, root \ {j}} /\ UNCHANGED <<jobs, stateDB>>
    BY <1>7 DEF WatchEnd
  <2>2. watch'[j] = "none" /\ \A k \in Jobs \ {j} : watch'[k] = watch[k]
    BY <1>2, <2>1 DEF Types
  <2>3. ~stateDB[j].backend
    BY <2>1 DEF AllStored, Stored, Active
  <2>4. Stored(j)'
    BY <1>1, <2>1, <2>2, <2>3 DEF Stored
  <2> QED
    BY <1>1, <2>1, <2>2, <2>4, StoredOnly
<1> QED
  BY <1>4, <1>5, <1>6, <1>7

LEMMA StoredNext ==
  ASSUME StopsLate, Inv, AllStored, Smooth', [Next]_vars
  PROVE  AllStored'
<1>1. CASE UNCHANGED vars
  BY <1>1, CalmStep DEF vars, memory, containers
<1>2. ASSUME NEW j \in Jobs,
             \/ AddJobRefused(j) \/ RunBegin(j) \/ ChangeInitial(j) \/ StopGet(j) \/ StopWait(j)
             \/ BoxExit(j) \/ BoxGone(j) \/ BoxDies(j)
      PROVE  AllStored'
  <2>1. UNCHANGED <<jobs, stateDB, known, root, daemon, watch>>
    BY <1>2 DEF AddJobRefused, RunBegin, ChangeInitial, StopGet, StopWait, BoxExit, BoxGone,
       BoxDies, memory, containers
  <2> QED
    BY <2>1, CalmStep
<1>3. ASSUME NEW j \in Jobs, WatchKill(j) \/ WatchLogs(j)
      PROVE  AllStored'
  <2>1. count' # [count EXCEPT !.faults = @ + 1]
    BY DEF Smooth, Counts, Inv, Types
  <2>2. /\ UNCHANGED <<jobs, stateDB, known, root, daemon>>
        /\ watch[j] \notin {"none", "end"} /\ watch' = [watch EXCEPT ![j] = "stream"]
    BY <1>3, <2>1 DEF WatchKill, WatchLogs, containers
  <2>3. \A k \in Jobs : /\ watch'[k] = "none" <=> watch[k] = "none"
                        /\ watch'[k] = "end" => watch[k] = "end"
    BY <2>2 DEF Inv, Types
  <2> QED
    BY <2>2, <2>3, CalmStep
<1>4. ASSUME NEW j \in Jobs PROVE ~StopStarting(j)
  BY <1>4 DEF StopStarting, Inv, Types
<1>5. CASE Update \/ CloseDB \/ Resume
  <2>1. count' # [count EXCEPT !.updates = @ + 1]
    BY DEF Smooth, Counts, Inv, Types
  <2> QED
    BY <1>5, <2>1 DEF AllStored, Update, CloseDB, Resume
<1>6. CASE Crash
  BY <1>6 DEF Crash, containers, AllStored, Stored
<1>7. CASE Start
  <2>1. /\ jobs' = [j \in Jobs |-> [status |-> stateDB[j].status, ForceStop |-> stateDB[j].ForceStop]]
        /\ watch' = [j \in Jobs |-> IF stateDB[j].backend THEN "restored" ELSE "none"]
        /\ known' = {} /\ daemon' = "up" /\ UNCHANGED <<stateDB, root>>
    BY <1>7 DEF Start, Restore, containers
  <2>2. ASSUME NEW k \in Jobs PROVE Stored(k)'
    <3>1. /\ jobs'[k].status = stateDB[k].status
          /\ watch'[k] \in {"restored", "none"} /\ (watch'[k] = "restored" => stateDB[k].backend)
      BY <2>1, <2>2
    <3> QED
      BY <2>1, <2>2, <3>1 DEF AllStored, Stored
  <2> QED
    BY <2>1, <2>2 DEF AllStored
<1> QED
  BY <1>1, <1>2, <1>3, <1>4, <1>5, <1>6, <1>7, StoredAdd, StoredRun, StoredWatch DEF Next

(* A daemon that dies can be started again: every container that persist   *)
(* wrote, and whose record it did not replace since, has its directory     *)
(* (LibcontainerBackend.UnmarshalState).                                   *)
THEOREM DatabaseLoads == ASSUME StopsLate PROVE Spec => []Restorable
<1>1. Init => Loadable
  <2>1. Init => Inv
    BY InvInit
  <2>2. Init => AllStored
    BY DEF Init, AllStored, Stored, NoJob, Counts
  <2> QED
    BY <2>1, <2>2 DEF Loadable
<1>2. Loadable /\ [Next]_vars => Loadable'
  <2>1. Loadable /\ [Next]_vars => Inv'
    BY InvNext DEF Loadable
  <2>2. Loadable /\ [Next]_vars => (Smooth' => Smooth)
    BY CountStep DEF Loadable, Inv, Types
  <2>3. Loadable /\ [Next]_vars /\ Smooth' => AllStored'
    BY <2>2, StoredNext DEF Loadable
  <2> QED
    BY <2>1, <2>2, <2>3 DEF Loadable
<1>3. Loadable => Restorable
  BY DEF Loadable, Smooth, AllStored, Stored, Restorable, Loads
<1> QED
  BY <1>1, <1>2, <1>3, PTL DEF Spec
=============================================================================
