-------------------------- MODULE DiscoverdExpiry --------------------------
(***************************************************************************)
(* When discoverd expires instances: the heartbeats that only the raft     *)
(* leader keeps, and outside of raft (AddInstance, EnforceExpiry and       *)
(* monitorLeaderCh of discoverd/server/store.go), against the heartbeater  *)
(* of discoverd/client/heartbeat.go and changes of the raft leader.  The   *)
(* rest of the store's data is in DiscoverdStore.                          *)
(*                                                                         *)
(* Time is the age of things, in heartbeat intervals: an age stops         *)
(* counting where no comparison can tell the difference.                   *)
(***************************************************************************)
EXTENDS Naturals, FiniteSets

CONSTANTS Ids,           \* instances
          Servers,       \* the raft servers
          TTL,           \* InstanceTTL, in heartbeat intervals
          LostNotices,   \* whether monitorLeaderCh may miss a notice
          Restarts,      \* whether a stopped instance may start again
          MaxChanges     \* bound on the changes of the raft leader

VARIABLES
  registered,  \* the instances in the store
  requests,    \* commands handed to raft and not yet applied
  leader,      \* the raft leader, or "none"
  server,      \* each server's heartbeats and leadership
  inst,        \* each instance's heartbeater
  changes      \* how often the raft leader has changed

vars == <<registered, requests, leader, server, inst, changes>>

Old == TTL + 1            \* an age beyond the TTL, or no heartbeat at all
Waited == 2 * TTL         \* a leader that old may expire instances
Never == Waited + 1       \* the zero leaderTime

(* A server keeps the age of each heartbeat, of its own leadership, and    *)
(* the notice of raft that waits for monitorLeaderCh.  A heartbeater is    *)
(* new, alive or ended, and has the age of its last request (0 or 1) and   *)
(* whether the leader heard it.                                            *)
Command ==
  [type : {"add", "remove"}, id : Ids] \cup [type : {"expire"}, ids : SUBSET Ids]

Init ==
  /\ registered = {} /\ requests = {} /\ leader = "none" /\ changes = 0
  /\ server = [s \in Servers |->
       [heartbeats |-> [i \in Ids |-> Old], leaderTime |-> Never, notice |-> "none"]]
  /\ inst = [i \in Ids |-> [run |-> "new", heard |-> FALSE, age |-> 0]]

Alive(i) == inst[i].run = "alive"

-----------------------------------------------------------------------------
StartInstance(i) ==
  /\ inst[i].run \in IF Restarts THEN {"new", "ended"} ELSE {"new"}
  /\ inst' = [inst EXCEPT ![i] = [run |-> "alive", heard |-> FALSE, age |-> 0]]
  /\ UNCHANGED <<registered, requests, leader, server, changes>>

(* Mutant of AddInstance: a heartbeat that is known is not sent to raft.   *)
AddInstance_KnownBeat(i) ==
  /\ Alive(i) /\ leader # "none"
  /\ [type |-> "add", id |-> i] \notin requests
  /\ server' = [server EXCEPT ![leader].heartbeats[i] = 0]
  /\ inst' = [inst EXCEPT ![i].heard = TRUE, ![i].age = 0]
  /\ requests' = IF i \in registered \/ server[leader].heartbeats[i] # Old THEN requests
                 ELSE requests \cup {[type |-> "add", id |-> i]}
  /\ UNCHANGED <<registered, leader, changes>>

(* Registration and heartbeat are the same request.  The time is noted at  *)
(* once; an instance in the store is not sent to raft again.  The          *)
(* heartbeater waits for the answer.                                       *)
AddInstance(i) ==
  /\ Alive(i) /\ leader # "none"
  /\ [type |-> "add", id |-> i] \notin requests
  /\ server' = [server EXCEPT ![leader].heartbeats[i] = 0]
  /\ inst' = [inst EXCEPT ![i].heard = TRUE, ![i].age = 0]
  /\ requests' = IF i \in registered THEN requests
                 ELSE requests \cup {[type |-> "add", id |-> i]}
  /\ UNCHANGED <<registered, leader, changes>>

(* Close deregisters, when it reaches the leader; a crash does not. *)
StopInstance(i) ==
  /\ Alive(i)
  /\ inst' = [inst EXCEPT ![i] = [run |-> "ended", heard |-> FALSE, age |-> 0]]
  /\ \/ requests' = requests \cup {[type |-> "remove", id |-> i]}
     \/ UNCHANGED requests
  /\ UNCHANGED <<registered, leader, server, changes>>

-----------------------------------------------------------------------------
(* The instances that have not been heard within the TTL. *)
Marked(s) == {i \in registered : server[s].heartbeats[i] > TTL}

(* Mutant of MayExpire: a leader does not wait after its election. *)
MayExpire_NoWait(s) == leader = s /\ server[s].leaderTime # Never

MayExpire(s) ==
  /\ leader = s
  /\ server[s].leaderTime # Never /\ server[s].leaderTime >= Waited

(* The instances are marked under the store's lock and the command is      *)
(* applied after it; the time of the marking is not part of the command.   *)
EnforceExpiry(s) ==
  /\ MayExpire(s) /\ Marked(s) # {}
  /\ \A cmd \in requests : cmd.type # "expire"
  /\ requests' = requests \cup {[type |-> "expire", ids |-> Marked(s)]}
  /\ UNCHANGED <<registered, leader, server, inst, changes>>

(* The entry of a request is applied.  Removing an instance, unlike        *)
(* expiring it, also forgets its heartbeat.                                *)
ApplyCommand(cmd) ==
  /\ leader # "none" /\ requests' = requests \ {cmd}
  /\ registered' = CASE cmd.type = "add"    -> registered \cup {cmd.id}
                     [] cmd.type = "remove" -> registered \ {cmd.id}
                     [] cmd.type = "expire" -> registered \ cmd.ids
  /\ server' = IF cmd.type # "remove" THEN server
               ELSE [s \in Servers |-> [server[s] EXCEPT !.heartbeats[cmd.id] = Old]]
  /\ UNCHANGED <<leader, inst, changes>>

-----------------------------------------------------------------------------
(* Raft's asyncNotifyBool: the notice is lost unless monitorLeaderCh is    *)
(* waiting for one, which it is not while it waits for the store's lock.   *)
Notify(s, n) ==
  /\ LostNotices \/ server[s].notice = "none"
  /\ server' = IF server[s].notice = "none"
               THEN [server EXCEPT ![s].notice = n] ELSE server

(* Requests are cut off, or end up in the log of the next leader. *)
LoseLeader ==
  /\ leader # "none" /\ Notify(leader, "false") /\ leader' = "none"
  /\ changes < MaxChanges /\ changes' = changes + 1
  /\ requests' \in SUBSET requests
  /\ UNCHANGED <<registered, inst>>

Elect(s) ==
  /\ leader = "none" /\ Notify(s, "true") /\ leader' = s
  /\ UNCHANGED <<registered, requests, inst, changes>>

monitorLeaderCh(s) ==
  /\ server[s].notice # "none"
  /\ server' = [server EXCEPT
       ![s].leaderTime = IF server[s].notice = "true" THEN 0 ELSE Never,
       ![s].heartbeats = [i \in Ids |-> Old],
       ![s].notice = "none"]
  /\ UNCHANGED <<registered, requests, leader, inst, changes>>

(* Time passes, but not beyond the next heartbeat of an instance that can  *)
(* reach a leader (one that fails is repeated after 200 ms), nor while a   *)
(* leader has a request to apply, which takes it far less than an interval.*)
Overdue(i) == Alive(i) /\ inst[i].age = 1
Tick ==
  /\ leader # "none" => requests = {} /\ \A i \in Ids : ~Overdue(i)
  /\ server' = [s \in Servers |-> [server[s] EXCEPT
       !.heartbeats = [i \in Ids |-> IF @[i] = Old THEN Old ELSE @[i] + 1],
       !.leaderTime = IF @ \in {Never, Waited} THEN @ ELSE @ + 1]]
  /\ inst' = [i \in Ids |-> IF Alive(i) THEN [inst[i] EXCEPT !.age = 1] ELSE inst[i]]
  /\ UNCHANGED <<registered, requests, leader, changes>>

Next ==
  \/ LoseLeader \/ Tick
  \/ \E i \in Ids : StartInstance(i) \/ AddInstance(i) \/ StopInstance(i)
  \/ \E cmd \in requests : ApplyCommand(cmd)
  \/ \E s \in Servers : EnforceExpiry(s) \/ Elect(s) \/ monitorLeaderCh(s)

Spec == Init /\ [][Next]_vars

(* Goroutines that are ready run, requests reach the log of a leader, the  *)
(* servers elect one, and heartbeats are repeated until they are heard.    *)
Fairness ==
  /\ WF_vars(Tick) /\ WF_vars(\E s \in Servers : Elect(s))
  /\ \A cmd \in Command : WF_vars(cmd \in requests /\ ApplyCommand(cmd))
  /\ \A i \in Ids : WF_vars(AddInstance(i))
  /\ \A s \in Servers : WF_vars(EnforceExpiry(s)) /\ WF_vars(monitorLeaderCh(s))
FairSpec == Spec /\ Fairness

-----------------------------------------------------------------------------
(* EnforceExpiry never marks an instance that runs and has been heard: a   *)
(* leader waits for two TTLs after its election because it does not know   *)
(* the heartbeats sent to the leader before it.                            *)
LiveNotMarked ==
  \A s \in Servers, i \in Ids :
    MayExpire(s) /\ Alive(i) /\ inst[i].heard => i \notin Marked(s)

(* The comment at the marking says that the expiry time prevents a race    *)
(* with "instances updating their expiry date while this command is        *)
(* applying": no instance is expired that was heard within the TTL.        *)
ExpiredWereSilent ==
  [][\A cmd \in requests, i \in registered :
       cmd.type = "expire" /\ i \in cmd.ids /\ ApplyCommand(cmd)
         => server[leader].heartbeats[i] > TTL]_vars

(* An instance that has gone without deregistering is expired. *)
DeadExpire ==
  \A i \in Ids : (inst[i].run = "ended" /\ i \in registered) ~> (Alive(i) \/ i \notin registered)

(* An instance that runs ends up registered, also when it was expired      *)
(* while it ran or its registration was cut off by a change of the leader. *)
LiveRegister == \A i \in Ids : Alive(i) ~> (~Alive(i) \/ i \in registered)

(* And it stays registered once the leader stays: a late command can       *)
(* remove it only once.                                                    *)
LiveStays == \A i \in Ids : <>[]Alive(i) => <>[](i \in registered)
=============================================================================
