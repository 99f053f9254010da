---------------------------- MODULE ScaleRequests ---------------------------
(***************************************************************************)
(* Scale requests of one formation, from the controller's database         *)
(* (controller/data/formation.go) over the formation stream                *)
(* (controller/formation.go) to the scheduler, which has the cluster run   *)
(* the processes and completes the request (controller/scheduler).         *)
(*                                                                         *)
(* Transactions run with PostgreSQL's default isolation, so each statement *)
(* sees what is committed when it starts, rows that are updated are locked *)
(* until the commit, and now() is the time the transaction began.          *)
(*                                                                         *)
(* Of several pending requests the expanded formation has one; the others  *)
(* follow with the event of its completion.                                *)
(***************************************************************************)
EXTENDS Integers, Sequences, FiniteSets

CONSTANTS Clients,      \* who may have a transaction open at a time
          Types,        \* the process types of the release
          Counts,       \* how many processes may be asked for
          MaxRequests,  \* bound on scale requests
          MaxBreaks,    \* bound on streams that break, and on events that are lost
          MaxErrors,    \* bound on transactions that fail, or whose answer is lost
          Deletes,      \* whether formations are deleted
          Syncs,        \* whether the scheduler's ticker syncs
          Critical      \* whether it may be the only formation of a critical app that runs

VARIABLES
  formation,  \* the row of formations
  requests,   \* the rows of scale_requests, in the order of their commits
  clock,      \* the time
  tx,         \* the transaction of each client
  notify,     \* events the stream has not handled
  current,    \* currentUpdatedAt of the stream
  ch,         \* formations on their way to the scheduler
  since,      \* the UpdatedAt the scheduler has received last
  known,      \* the scheduler's formation
  running,    \* the jobs that run
  stopping,   \* the jobs that were told to stop and have not
  persist,    \* completed requests on their way to the controller
  counts      \* what the bounds count

db == <<formation, requests, clock, tx>>
stream == <<notify, current, ch, since>>
jobs == <<running, stopping>>
sched == <<known, jobs, persist>>
vars == <<db, stream, sched, counts>>

Bounds == [breaks |-> MaxBreaks, errors |-> MaxErrors, lost |-> MaxBreaks]
Count(k) == counts[k] < Bounds[k] /\ counts' = [counts EXCEPT ![k] = @ + 1]

ProcessMaps == [Types -> Counts \cup {0}]
None == [t \in Types |-> 0]
Partial == UNION {[T -> Counts] : T \in SUBSET Types \ {{}}}
Merge(p, new) == [t \in Types |-> IF t \in DOMAIN new THEN new[t] ELSE p[t]]

(* A transaction, and the row it inserts: saw and covers are history, the  *)
(* requests there were when it read the formation, and when it cancelled.  *)
Idle == [pc |-> "idle", at |-> 0, new |-> <<>>, delete |-> FALSE, read |-> None,
         saw |-> 0, covers |-> 0, cancel |-> {}]
Row(t) == [state |-> "pending", old |-> t.read, new |-> t.new, saw |-> t.saw, covers |-> t.covers]

Init ==
  /\ formation \in [procs : [Types -> Counts], at : {0}, deleted : {FALSE}]
  /\ requests = <<>> /\ clock = 0 /\ tx = [c \in Clients |-> Idle]
  /\ notify = <<>> /\ current = 0 /\ ch = <<>> /\ since = 0
  /\ known \in [procs : {formation.procs}, original : {formation.procs}, at : {0}, pending : {0},
                critical : Critical]
  /\ running = formation.procs /\ stopping = None /\ persist = {}
  /\ counts = [k \in DOMAIN Bounds |-> 0]

-----------------------------------------------------------------------------
(* AddScaleRequest: the transaction reads the formation, cancels requests, *)
(* and inserts its own with the formation's new processes.                 *)
OpenTxs == Cardinality({c \in Clients : tx[c].pc # "idle"})

Begin(c, t) ==
  /\ tx[c].pc = "idle" /\ Len(requests) + OpenTxs < MaxRequests
  /\ clock' = clock + 1
  /\ tx' = [tx EXCEPT ![c] = [t EXCEPT !.pc = "begun", !.at = clock']]
  /\ UNCHANGED <<formation, requests, stream, sched, counts>>

(* A request names some of the process types. *)
PutScaleRequest(c) == \E new \in Partial : Begin(c, [Idle EXCEPT !.new = new])

DeleteFormation(c) ==
  /\ Deletes /\ ~formation.deleted
  /\ Begin(c, [Idle EXCEPT !.new = None, !.delete = TRUE])

(* formation_select: a formation that was deleted counts as new. *)
Select(c) ==
  /\ tx[c].pc = "begun"
  /\ tx' = [tx EXCEPT ![c].pc = "read", ![c].saw = Len(requests),
                     ![c].read = IF formation.deleted THEN None ELSE formation.procs]
  /\ UNCHANGED <<formation, requests, clock, stream, sched, counts>>

(* scale_request_cancel looks for the requests that are committed, waits   *)
(* for those that are locked, and cancels all that are not cancelled then. *)
Cancel(c) ==
  /\ tx[c].pc = "read"
  /\ tx' = [tx EXCEPT ![c].pc = "cancel", ![c].covers = Len(requests)]
  /\ UNCHANGED <<formation, requests, clock, stream, sched, counts>>

Locked == UNION {tx[c].cancel : c \in Clients}
Cancelable(c) == {r \in 1..tx[c].covers : requests[r].state # "cancelled"}

CancelRows(c) ==
  /\ tx[c].pc = "cancel" /\ Cancelable(c) \cap Locked = {}
  /\ tx' = [tx EXCEPT ![c].pc = "cancelled", ![c].cancel = Cancelable(c)]
  /\ UNCHANGED <<formation, requests, clock, stream, sched, counts>>

(* Mutant: a count of zero is taken for none. *)
Written_NoZeros(t) ==
  IF ~t.delete
  THEN [procs |-> [type \in Types |-> IF type \in DOMAIN t.new /\ t.new[type] > 0
                                     THEN t.new[type] ELSE t.read[type]],
        at |-> t.at, deleted |-> FALSE]
  ELSE IF formation.deleted THEN formation
  ELSE [procs |-> None, at |-> t.at, deleted |-> TRUE]

(* formation_delete does nothing to a formation that is deleted. *)
Written(t) ==
  IF ~t.delete THEN [procs |-> Merge(t.read, t.new), at |-> t.at, deleted |-> FALSE]
  ELSE IF formation.deleted THEN formation
  ELSE [procs |-> None, at |-> t.at, deleted |-> TRUE]

Commit(c) ==
  LET t == tx[c] IN
  /\ t.pc = "cancelled"
  /\ requests' = Append([r \in DOMAIN requests |->
                           IF r \in t.cancel THEN [requests[r] EXCEPT !.state = "cancelled"]
                           ELSE requests[r]], Row(t))
  /\ formation' = Written(t)
  /\ tx' = [tx EXCEPT ![c] = Idle]
  /\ notify' = Append(notify, Len(requests'))
  /\ UNCHANGED <<clock, current, ch, since, sched, counts>>

Rollback(c) ==
  /\ tx[c].pc # "idle" /\ Count("errors")
  /\ tx' = [tx EXCEPT ![c] = Idle]
  /\ UNCHANGED <<formation, requests, clock, stream, sched>>

-----------------------------------------------------------------------------
(* The expanded formation, with one of its pending requests, if any. *)
Expanded ==
  LET pending == {r \in DOMAIN requests : requests[r].state = "pending"} IN
  {[procs |-> formation.procs, at |-> formation.at, pending |-> r] :
     r \in IF pending = {} THEN {0} ELSE pending}

(* streamFormations: the formation is read again for every event.  When it *)
(* cannot be read, nothing is sent.                                        *)
StreamEvent ==
  /\ notify # <<>> /\ notify' = Tail(notify)
  /\ \/ /\ \E ef \in Expanded :
            IF ef.at < current THEN UNCHANGED <<ch, since>>
            ELSE ch' = Append(ch, ef) /\ since' = ef.at
        /\ UNCHANGED counts
     \/ Count("lost") /\ UNCHANGED <<ch, since>>
  /\ UNCHANGED <<db, current, sched>>

(* What formation_list_since has: the formation, unless it is deleted. *)
ListSince(t) == {ef \in Expanded : ~formation.deleted /\ ef.at >= t}

(* The stream breaks, and streamFormationEvents connects again: the server *)
(* lists what has changed since then.                                      *)
Reconnect ==
  /\ Count("breaks") /\ notify' = <<>>
  /\ \/ ListSince(since) = {} /\ UNCHANGED <<ch, since>> /\ current' = since
     \/ \E ef \in ListSince(since) : ch' = Append(ch, ef) /\ since' = ef.at /\ current' = ef.at
  /\ UNCHANGED <<db, sched>>

-----------------------------------------------------------------------------
(* IsScaleDownOf: some type has no process left, or has none still. *)
IsScaleDown(procs) == \E t \in Types : procs[t] = 0


(* What handleFormation makes of the formation: older ones are ignored,    *)
(* processes only change when they differ from the original ones, and a    *)
(* critical app is not scaled down.                                        *)
handleFormation(f, ef) ==
  LET seen == [f EXCEPT !.at = ef.at, !.pending = ef.pending] IN
  IF f.at > ef.at THEN f
  ELSE IF ef.procs = f.original \/ (f.critical /\ IsScaleDown(ef.procs)) THEN seen
  ELSE [seen EXCEPT !.procs = ef.procs, !.original = ef.procs]

HandleFormationChange ==
  /\ ch # <<>> /\ ch' = Tail(ch)
  /\ known' = handleFormation(known, Head(ch))
  /\ UNCHANGED <<db, notify, current, since, jobs, persist, counts>>

(* Whether formation_list_active has the formation. *)
ListActive == formation.procs # None /\ ~formation.deleted

(* SyncFormations: active formations are handled, others that the          *)
(* scheduler believes active lose their processes, critical or not.        *)
SyncFormations ==
  /\ Syncs
  /\ IF ListActive
     THEN \E ef \in Expanded : known' = handleFormation(known, ef)
     ELSE known' = [known EXCEPT !.procs = None]
  /\ UNCHANGED <<db, stream, jobs, persist, counts>>

(* Mutant: the jobs are not looked at. *)
RectifyFormation_Early ==
  /\ known.pending # 0
  /\ persist' = persist \cup {known.pending} /\ known' = [known EXCEPT !.pending = 0]
  /\ UNCHANGED <<db, stream, jobs, counts>>

(* RectifyFormation: a pending request is complete when the jobs run; jobs *)
(* that are stopping are not in the formation.                             *)
RectifyFormation ==
  /\ known.pending # 0 /\ running = known.procs
  /\ persist' = persist \cup {known.pending} /\ known' = [known EXCEPT !.pending = 0]
  /\ UNCHANGED <<db, stream, jobs, counts>>

(* handleFormationDiff, one job at a time: see SchedulerJobs. *)
StartJob(t) ==
  /\ running[t] < known.procs[t] /\ running' = [running EXCEPT ![t] = @ + 1]
  /\ UNCHANGED <<db, stream, known, stopping, persist, counts>>

StopJob(t) ==
  /\ running[t] > known.procs[t]
  /\ running' = [running EXCEPT ![t] = @ - 1] /\ stopping' = [stopping EXCEPT ![t] = @ + 1]
  /\ UNCHANGED <<db, stream, known, persist, counts>>

JobStops(t) ==
  /\ stopping[t] > 0 /\ stopping' = [stopping EXCEPT ![t] = @ - 1]
  /\ UNCHANGED <<db, stream, known, running, persist, counts>>

(* PutScaleRequest and UpdateScaleRequest: the row is set whatever state   *)
(* it has.  An update whose answer is lost is made again.                  *)
UpdateScaleRequest(r) ==
  /\ r \in persist /\ r \notin Locked
  /\ requests' = [requests EXCEPT ![r].state = "complete"]
  /\ notify' = Append(notify, r)
  /\ \/ persist' = persist \ {r} /\ UNCHANGED counts
     \/ Count("errors") /\ UNCHANGED persist
  /\ UNCHANGED <<formation, clock, tx, current, ch, since, known, jobs>>

Advance(c) == Select(c) \/ Cancel(c) \/ CancelRows(c) \/ Commit(c)
JobsChange == \E t \in Types : StartJob(t) \/ StopJob(t) \/ JobStops(t)

Next ==
  \/ \E c \in Clients : PutScaleRequest(c) \/ DeleteFormation(c) \/ Advance(c) \/ Rollback(c)
  \/ StreamEvent \/ Reconnect \/ HandleFormationChange \/ SyncFormations
  \/ RectifyFormation \/ JobsChange \/ \E r \in persist : UpdateScaleRequest(r)

Spec == Init /\ [][Next]_vars

(* Transactions end, events are handled, jobs start and stop, and the      *)
(* ticker fires.                                                           *)
Fairness ==
  /\ \A c \in Clients : WF_vars(Advance(c))
  /\ WF_vars(StreamEvent) /\ WF_vars(HandleFormationChange) /\ WF_vars(SyncFormations)
  /\ WF_vars(RectifyFormation) /\ WF_vars(JobsChange)
  /\ WF_vars(\E r \in persist : UpdateScaleRequest(r))
FairSpec == Spec /\ Fairness

-----------------------------------------------------------------------------
States == {"pending", "cancelled", "complete"}
Asked == Partial \cup {None}

(* Types; a request the scheduler works on is in the database. *)
TypeOK ==
  /\ formation \in [procs : ProcessMaps, at : Nat, deleted : BOOLEAN]
  /\ \A r \in DOMAIN requests :
       requests[r] \in [state : States, old : ProcessMaps, new : Asked, saw : Nat, covers : Nat]
  /\ {clock, current, since} \subseteq Nat
  /\ \A c \in Clients : tx[c].pc \in {"idle", "begun", "read", "cancel", "cancelled"}
                        /\ tx[c].cancel \subseteq DOMAIN requests
  /\ known \in [procs : ProcessMaps, original : ProcessMaps, at : Nat, pending : 0..Len(requests),
                critical : BOOLEAN]
  /\ {running, stopping} \subseteq [Types -> Nat] /\ persist \subseteq DOMAIN requests

(* AddScaleRequest cancels "any current scale requests for the same        *)
(* formation": two are pending only when the later one was about to cancel *)
(* before the earlier one was committed.                                   *)
OnePending ==
  \A r, s \in DOMAIN requests :
    r < s /\ requests[r].state = "pending" /\ requests[s].state = "pending" => requests[s].covers < r

(* The requests after r could see it when they cancelled, or when they     *)
(* read the formation.                                                     *)
Covered(r) == \A s \in DOMAIN requests : s > r => requests[s].covers >= r
Seen(r) == \A s \in DOMAIN requests : s > r => requests[s].saw >= r

Satisfies(procs, r) == Merge(procs, requests[r].new) = procs

(* The processes a request has made of the formation, which the scheduler  *)
(* of a critical app refuses when it is a scale down.                      *)
Result(r) == Merge(requests[r].old, requests[r].new)
Refused(r) == known.critical /\ IsScaleDown(Result(r))

(* The scheduler completes a request only while the jobs it asked for run, *)
(* and no others of the types it names but jobs that are stopping.  Known  *)
(* not to hold of a request that a later one overtook, of one that a       *)
(* critical app was refused, and while a sync has emptied the formation.   *)
CompleteMeansScaled ==
  [][\A r \in persist' \ persist :
       Covered(r) /\ ~Refused(r) /\ known.procs = known.original => Satisfies(running, r)]_vars

Wanted == IF formation.deleted THEN None ELSE formation.procs

(* What keeps the scheduler from following the formation: a transaction    *)
(* that began before another and was committed after it has the older      *)
(* time, a sync that found the formation inactive empties one of the two   *)
(* copies, and a critical app is not scaled down.                          *)
Ignored == formation.at < known.at
Emptied == known.procs # known.original /\ formation.procs = known.original
Declined == known.critical /\ formation.procs # known.original /\ IsScaleDown(formation.procs)

(* In the end the scheduler runs what the controller's formation says,     *)
(* whichever events were lost, and no other job.                           *)
FollowsFormation == <>[](Ignored \/ Emptied \/ Declined \/ (running = Wanted /\ stopping = None))

(* Every request is complete or cancelled in the end, unless its event was *)
(* lost and no list has the formation because it is inactive.              *)
RequestsEnd ==
  <>[](\/ Ignored
       \/ counts.breaks + counts.lost > 0 /\ ~ListActive
       \/ \A r \in DOMAIN requests : requests[r].state # "pending")

(* The formation has what the last request for each type asked for, unless *)
(* a later one had read the formation before that was committed.           *)
LastWins ==
  \A t \in Types : LET asked == {r \in DOMAIN requests : t \in DOMAIN requests[r].new} IN
    \A r \in asked : (\A s \in asked : s <= r) /\ Seen(r) /\ ~formation.deleted
                       => formation.procs[t] = requests[r].new[t]
=============================================================================
