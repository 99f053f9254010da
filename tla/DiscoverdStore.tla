--------------------------- MODULE DiscoverdStore ---------------------------
(***************************************************************************)
(* The store of discoverd/server/store.go on a group of raft servers, for  *)
(* one service: the commands clients send, the log, the servers that apply *)
(* it at their own pace, snapshots and restarts.  Raft itself is external: *)
(* its log is one sequence of committed entries.  When instances expire is *)
(* the subject of DiscoverdExpiry; here the leader may expire any.         *)
(***************************************************************************)
EXTENDS DiscoverdState

CONSTANTS Servers,       \* the raft servers
          Writers,       \* clients that update the service metadata
          Configs,       \* leader types a service may be added with
          Removals,      \* whether services are removed
          LeaderWrites,  \* whether leaders are set by hand
          MaxLog,        \* bound on the entries of the log
          MaxRequests,   \* bound on the commands waiting for raft
          MaxRestarts    \* bound on the restarts of servers

VARIABLES
  hist,      \* hist[k + 1] is the outcome of the first k entries of the log
  requests,  \* commands handed to raft and not yet in the log
  leader,    \* the raft leader
  server,    \* each server: entries applied, maps that are nil, running or not
  read,      \* the metadata each writer has read
  restarts

vars == <<hist, requests, leader, server, read, restarts>>

ServerState == [applied : Nat \ {0}, nil : SUBSET Maps, up : BOOLEAN]

Committed == hist[Len(hist)].data
DataAt(s) == hist[server[s].applied].data

Init ==
  /\ hist = << Outcome(newRaftData, <<>>, {}) >>
  /\ requests = {} /\ leader \in Servers /\ restarts = 0
  /\ server = [s \in Servers |-> [applied |-> 1, nil |-> {}, up |-> TRUE]]
  /\ read = [w \in Writers |-> NoMeta]

-----------------------------------------------------------------------------
(* What an entry does when it is the index-th of the log. *)
Apply(d, cmd, index) ==
  CASE cmd.type = "addService"     -> applyAddServiceCommand(d, cmd.config)
    [] cmd.type = "removeService"  -> applyRemoveServiceCommand(d)
    [] cmd.type = "addInstance"    -> applyAddInstanceCommand(d, cmd.id, cmd.meta, index)
    [] cmd.type = "removeInstance" -> applyRemoveInstanceCommand(d, cmd.id)
    [] cmd.type = "expire"         -> applyExpireInstancesCommand(d, cmd.ids)
    [] cmd.type = "setMeta"        ->
         applySetServiceMetaCommand(d, cmd.base, cmd.value, cmd.leader, index)
    [] cmd.type = "setLeader"      -> applySetLeaderCommand(d, cmd.id)

(* raftApply: the command waits for its entry, and may be cut off. *)
Request(cmd) ==
  /\ Cardinality(requests \cup {cmd}) <= MaxRequests
  /\ requests' = requests \cup {cmd}
  /\ UNCHANGED <<hist, leader, server, read, restarts>>

CommitRequest(cmd) ==
  /\ Len(hist) <= MaxLog
  /\ hist' = Append(hist, Apply(Committed, cmd, Len(hist)))
  /\ requests' = requests \ {cmd}
  /\ UNCHANGED <<leader, server, read, restarts>>

DropRequest(cmd) ==
  /\ requests' = requests \ {cmd}
  /\ UNCHANGED <<hist, leader, server, read, restarts>>

AddService == \E c \in Configs : Request([type |-> "addService", config |-> c])
RemoveService == Removals /\ Request([type |-> "removeService"])

(* A heartbeat of an instance that has not changed is not sent to raft. *)
AddInstance(i, meta) ==
  /\ DataAt(leader).insts[i].meta # meta
  /\ Request([type |-> "addInstance", id |-> i, meta |-> meta])

RemoveInstance(i) == Request([type |-> "removeInstance", id |-> i])

Orders(S) == {f \in [1..Cardinality(S) -> S] : \A j, k \in DOMAIN f : j # k => f[j] # f[k]}

(* The instances are chosen in the leader's data, before the command. *)
Expire ==
  \E ids \in UNION {Orders(S) : S \in SUBSET Registered(DataAt(leader)) \ {{}}} :
    Request([type |-> "expire", ids |-> ids])

(* The service metadata is read from any server, and written with the      *)
(* index that was read.  A Sirenia primary names the leader as well.       *)
GetMeta(w, s) ==
  /\ server[s].up /\ read' = [read EXCEPT ![w] = DataAt(s).meta]
  /\ UNCHANGED <<hist, requests, leader, server, restarts>>

SetMeta(w) ==
  \E l \in IF LeaderWrites THEN Ids \cup {None} ELSE {None} :
    Request([type |-> "setMeta", base |-> read[w].index,
             value |-> read[w].value + 1, leader |-> l])

(* The handler looks at the configuration of its own server first. *)
SetLeader(s, i) ==
  /\ LeaderWrites /\ server[s].up /\ DataAt(s).config = "manual"
  /\ Request([type |-> "setLeader", id |-> i])

-----------------------------------------------------------------------------
(* Each server applies the log.  Assigning to a nil map is a panic. *)
ApplyEntry(s) ==
  /\ server[s].up /\ server[s].applied < Len(hist)
  /\ LET k == server[s].applied + 1 IN
     server' = [server EXCEPT ![s] =
       IF hist[k].writes \cap @.nil = {} THEN [@ EXCEPT !.applied = k]
       ELSE [@ EXCEPT !.up = FALSE]]
  /\ UNCHANGED <<hist, requests, leader, read, restarts>>

Elect(s) ==
  /\ server[s].up /\ leader' = s /\ leader # s
  /\ UNCHANGED <<hist, requests, server, read, restarts>>

(* A server restarts from the snapshot of an entry it has applied: maps    *)
(* the snapshot leaves out come back as nil.                               *)
Restore(s) ==
  /\ restarts < MaxRestarts /\ restarts' = restarts + 1
  /\ \E k \in 1..server[s].applied :
       server' = [server EXCEPT ![s] =
         [applied |-> k, nil |-> EmptyMaps(hist[k].data), up |-> TRUE]]
  /\ UNCHANGED <<hist, requests, leader, read>>

Next ==
  \/ AddService \/ RemoveService \/ Expire
  \/ \E cmd \in requests : CommitRequest(cmd) \/ DropRequest(cmd)
  \/ \E i \in Ids : RemoveInstance(i) \/ \E m \in InstMetas : AddInstance(i, m)
  \/ \E w \in Writers : SetMeta(w) \/ \E s \in Servers : GetMeta(w, s)
  \/ \E s \in Servers : \/ ApplyEntry(s) \/ Elect(s) \/ Restore(s)
                        \/ \E i \in Ids : SetLeader(s, i)

Spec == Init /\ [][Next]_vars

-----------------------------------------------------------------------------
(* The outcomes of the log, the servers and what writers have read have    *)
(* their types.                                                            *)
TypeOK ==
  /\ Len(hist) \in 1..MaxLog + 1
  /\ \A k \in DOMAIN hist : hist[k].data \in Data /\ hist[k].writes \subseteq Maps
  /\ leader \in Servers /\ server \in [Servers -> ServerState]
  /\ \A s \in Servers : server[s].applied <= Len(hist)
  /\ read \in [Writers -> [index : Nat, value : Nat]] /\ restarts \in 0..MaxRestarts

(* instance.go says of the index that it is unique, does not change as     *)
(* long as the instance does not expire, and sorts in the order of         *)
(* creation.  Precisely: it is the number of the entry before which the    *)
(* instance was absent and since which it has been present, whatever       *)
(* updates, expiries, removals of the service and re-registrations.        *)
IndexIsEpoch ==
  \A k \in DOMAIN hist, i \in Ids :
    LET x == hist[k].data.insts[i].index IN
    x > 0 => /\ x < k /\ hist[x].data.insts[i] = Absent
             /\ \A j \in x+1..k : hist[j].data.insts[i].index = x

(* A metadata write that is accepted replaces the value its writer had     *)
(* read, although reads may be served by a server that lags and the        *)
(* service may be removed and added again in between: each writer adds one *)
(* to what it read, and no increment is lost.                              *)
NoLostUpdate ==
  \A k \in 2..Len(hist) :
    LET old == hist[k - 1].data.meta
        new == hist[k].data.meta
    IN  new = old \/ new = NoMeta \/ new.value = old.value + 1

(* A subscriber that is told leader events only, from the creation of the  *)
(* service on, believes in the leader that the store would return, which   *)
(* is the oldest instance.                                                 *)
LeaderEvents(k) ==
  UNION {{j} \X {n \in DOMAIN hist[j].events : hist[j].events[n].kind = "leader"} : j \in 2..k}
Last(S) == CHOOSE p \in S : \A q \in S : q[1] < p[1] \/ (q[1] = p[1] /\ q[2] <= p[2])
LeaderTold(k) ==
  IF LeaderEvents(k) = {} THEN None
  ELSE hist[Last(LeaderEvents(k))[1]].events[Last(LeaderEvents(k))[2]].id
OldestLeads ==
  \A k \in DOMAIN hist :
    hist[k].data.config = "oldest" =>
      /\ serviceLeader(hist[k].data) = Oldest(hist[k].data)
      /\ LeaderTold(k) = Oldest(hist[k].data)

(* "RemoveService deletes the service from the store": one that is added   *)
(* under the same name starts without instances.                           *)
ServiceStartsEmpty ==
  \A k \in 2..Len(hist) :
    hist[k - 1].data.config = "none" /\ hist[k].data.config # "none"
      => Registered(hist[k].data) = {}

(* The architecture document calls the metadata a "consistent,             *)
(* linearizable storage": what is read is not older than what the leader   *)
(* has answered.                                                           *)
ReadsAreCurrent ==
  [][\A w \in Writers :
       read'[w] # read[w] => read'[w].index >= DataAt(leader).meta.index]_vars

(* A store restored from a snapshot works: no entry makes it panic. *)
RestoredStoreWorks == \A s \in Servers : server[s].up
=============================================================================
