-------------------------- MODULE SchedulerPersist --------------------------
(***************************************************************************)
(* ControllerPersistLoop of controller/scheduler/scheduler.go: the         *)
(* scheduler sends the states of jobs and volumes and completed scale      *)
(* requests to a channel, and the loop puts them to the controller, a      *)
(* goroutine per put: one at a time and in order for each job or volume,   *)
(* and scale requests after the jobs of their formation.                   *)
(*                                                                         *)
(* A state is its number: the nth state of a job that the scheduler sent.  *)
(* The controller replaces what it has by what is put (an upsert).  An     *)
(* attempt that fails with a retryable error may have been stored; an      *)
(* error that is not retryable, or a minute of errors, ends the attempts.  *)
(* If the connection broke, the controller may still store the abandoned   *)
(* request later.                                                          *)
(***************************************************************************)
EXTENDS Integers, Sequences, FiniteSets

CONSTANTS Jobs, Volumes, Requests,
          formation,   \* the formation of each job and scale request
          MaxStates,   \* bound on the states of a job or volume
          BufferSize,  \* eventBufferSize, the capacity of controllerPersist
          Break        \* whether connections break in the middle of a request

Keys == Jobs \cup Volumes
States == 1..MaxStates
Items == (Keys \X States) \cup (Requests \X {0})

ASSUME PersistAssumption ==
  /\ {MaxStates, BufferSize} \subseteq Nat
  /\ Break \in BOOLEAN
  /\ Keys \cap Requests = {} /\ Jobs \cap Volumes = {}

VARIABLES
  sent,               \* how many states of each key the scheduler has sent
  controllerPersist,  \* the channel
  queue,              \* jobQueue and volQueue
  put,                \* the goroutine that puts the first state of a queue
  scaleRequests,      \* scale requests that wait for jobs
  scaling,            \* scale requests a goroutine is putting
  stored,             \* the state the controller has, 0 for none
  seen,               \* states and scale requests the controller has stored
  lost,               \* states and scale requests whose attempts were given up
  late,               \* abandoned requests the controller may still store
  owed                \* the states sent before each scale request, {} until it is sent

loop == <<controllerPersist, queue, put, scaleRequests>>
controller == <<stored, seen>>
vars == <<sent, loop, scaling, controller, lost, late, owed>>

Of(r) == {j \in Jobs : formation[j] = formation[r]}

TypeOK ==
  /\ sent \in [Keys -> 0..MaxStates]
  /\ controllerPersist \in Seq(Items)
  /\ queue \in [Keys -> Seq(States)]
  /\ put \in [Keys -> {"none", "putting", "done"}]
  /\ \A k \in Keys : put[k] = "none" <=> queue[k] = <<>>
  /\ scaleRequests \subseteq Requests /\ scaling \subseteq Requests
  /\ stored \in [Keys -> 0..MaxStates]
  /\ seen \subseteq Items /\ lost \subseteq Items
  /\ late \subseteq Keys \X States
  /\ owed \in [Requests -> SUBSET ((Jobs \X States) \cup {<<>>})]

Init ==
  /\ sent = [k \in Keys |-> 0]
  /\ controllerPersist = <<>>
  /\ queue = [k \in Keys |-> <<>>] /\ put = [k \in Keys |-> "none"]
  /\ scaleRequests = {} /\ scaling = {}
  /\ stored = [k \in Keys |-> 0] /\ seen = {}
  /\ lost = {} /\ late = {}
  /\ owed = [r \in Requests |-> {}]

-----------------------------------------------------------------------------
(* The scheduler: persistControllerJob and persistVolume,                  *)
(* markScaleRequestAsComplete.                                             *)
persistControllerJob(k) ==
  /\ Len(controllerPersist) < BufferSize /\ sent[k] < MaxStates
  /\ sent' = [sent EXCEPT ![k] = @ + 1]
  /\ controllerPersist' = Append(controllerPersist, <<k, sent[k] + 1>>)
  /\ UNCHANGED <<queue, put, scaleRequests, scaling, controller, lost, late, owed>>

(* <<>> marks a request that was sent. *)
markScaleRequestAsComplete(r) ==
  /\ Len(controllerPersist) < BufferSize /\ owed[r] = {}
  /\ owed' = [owed EXCEPT ![r] = {<<>>} \cup {i \in Jobs \X States : i[1] \in Of(r) /\ i[2] <= sent[i[1]]}]
  /\ controllerPersist' = Append(controllerPersist, <<r, 0>>)
  /\ UNCHANGED <<sent, queue, put, scaleRequests, scaling, controller, lost, late>>

-----------------------------------------------------------------------------
(* The loop. *)
Waits_NoJobs(q, r) == FALSE

Waits(q, r) == \E j \in Of(r) : q[j] # <<>>

ReceiveState_Front(k, n) ==
  /\ queue' = [queue EXCEPT ![k] = <<n>> \o @]
  /\ put' = [put EXCEPT ![k] = IF queue[k] = <<>> THEN "putting" ELSE @]
  /\ UNCHANGED <<scaleRequests, scaling>>

ReceiveState(k, n) ==
  /\ queue' = [queue EXCEPT ![k] = Append(@, n)]
  /\ put' = [put EXCEPT ![k] = IF queue[k] = <<>> THEN "putting" ELSE @]
  /\ UNCHANGED <<scaleRequests, scaling>>

maybePersistScaleRequest(r) ==
  /\ IF Waits(queue, r)
     THEN scaleRequests' = scaleRequests \cup {r} /\ UNCHANGED scaling
     ELSE scaling' = scaling \cup {r} /\ scaleRequests' = scaleRequests \ {r}
  /\ UNCHANGED <<queue, put>>

Receive ==
  /\ controllerPersist # <<>>
  /\ controllerPersist' = Tail(controllerPersist)
  /\ LET i == Head(controllerPersist) IN
     \/ i[1] \in Keys /\ ReceiveState(i[1], i[2])
     \/ i[1] \in Requests /\ maybePersistScaleRequest(i[1])
  /\ UNCHANGED <<sent, controller, lost, late, owed>>

(* volDone does not try the scale requests: none waits for a volume. *)

Done_NoRetry(k) ==
  /\ put[k] = "done"
  /\ queue' = [queue EXCEPT ![k] = Tail(@)]
  /\ put' = [put EXCEPT ![k] = IF Tail(queue[k]) = <<>> THEN "none" ELSE "putting"]
  /\ UNCHANGED <<sent, controllerPersist, controller, lost, late, owed, scaleRequests, scaling>>

Done(k) ==
  /\ put[k] = "done"
  /\ queue' = [queue EXCEPT ![k] = Tail(@)]
  /\ put' = [put EXCEPT ![k] = IF Tail(queue[k]) = <<>> THEN "none" ELSE "putting"]
  /\ LET go == {r \in scaleRequests : k \in Jobs /\ ~Waits(queue', r)} IN
     scaling' = scaling \cup go /\ scaleRequests' = scaleRequests \ go
  /\ UNCHANGED <<sent, controllerPersist, controller, lost, late, owed>>

-----------------------------------------------------------------------------
(* The goroutines: persistJob and persistVolume, and the one of            *)
(* maybePersistScaleRequest.                                               *)
Store(k, n) == stored' = [stored EXCEPT ![k] = n] /\ seen' = seen \cup {<<k, n>>}

Put(k) ==
  /\ put[k] = "putting"
  /\ Store(k, Head(queue[k]))
  /\ \E next \in {"putting", "done"} : put' = [put EXCEPT ![k] = next]
  /\ UNCHANGED <<sent, controllerPersist, queue, scaleRequests, scaling, lost, late, owed>>

GiveUp(k) ==
  /\ put[k] = "putting"
  /\ put' = [put EXCEPT ![k] = "done"]
  /\ lost' = lost \cup {<<k, Head(queue[k])>>}
  /\ \/ UNCHANGED late
     \/ Break /\ late' = late \cup {<<k, Head(queue[k])>>}
  /\ UNCHANGED <<sent, controllerPersist, queue, scaleRequests, scaling, controller, owed>>

PutScaleRequest(r) ==
  /\ r \in scaling
  /\ scaling' = scaling \ {r}
  /\ \/ seen' = seen \cup {<<r, 0>>} /\ UNCHANGED lost
     \/ lost' = lost \cup {<<r, 0>>} /\ UNCHANGED seen
  /\ UNCHANGED <<sent, loop, stored, late, owed>>

(* The controller handles a request whose sender has given up. *)
StoreLate ==
  /\ \E i \in late : Store(i[1], i[2]) /\ late' = late \ {i}
  /\ UNCHANGED <<sent, loop, scaling, lost, owed>>

Next ==
  \/ \E k \in Keys : persistControllerJob(k) \/ Done(k) \/ Put(k) \/ GiveUp(k)
  \/ \E r \in Requests : markScaleRequestAsComplete(r) \/ PutScaleRequest(r)
  \/ Receive
  \/ StoreLate

Spec == Init /\ [][Next]_vars

(* The loop and its goroutines run, and attempts that do not succeed end   *)
(* after a minute.                                                         *)
Fairness ==
  /\ WF_vars(Receive)
  /\ \A k \in Keys : WF_vars(Done(k)) /\ WF_vars(GiveUp(k))
  /\ \A r \in Requests : WF_vars(PutScaleRequest(r))
FairSpec == Spec /\ Fairness

-----------------------------------------------------------------------------
(* The controller never goes back to an earlier state of a job or volume:  *)
(* "to avoid for example a job transitioning from down to up".             *)
NeverBack == [][\A k \in Keys : stored'[k] >= stored[k]]_vars

(* A scale request is put after the jobs: when the controller has it, the  *)
(* states of its formation's jobs sent before it are stored or given up.   *)
ScaleAfterJobs ==
  \A r \in Requests : <<r, 0>> \in seen \cup lost =>
    \A i \in owed[r] \ {<<>>} : i \in seen \cup lost

(* Whatever was sent is stored or given up in the end; no scale request    *)
(* waits for ever for jobs.                                                *)
Persisted ==
  /\ \A k \in Keys, n \in States : sent[k] >= n ~> <<k, n>> \in seen \cup lost
  /\ \A r \in Requests : owed[r] # {} ~> <<r, 0>> \in seen \cup lost

=============================================================================
