-------------------------- MODULE DiscoverdWatch ---------------------------
(***************************************************************************)
(* How the instances, the leader and the metadata of a service reach a     *)
(* consumer: Subscribe and broadcast of discoverd/server/store.go, the     *)
(* stream of handler.go, the reconnecting Watch of                         *)
(* discoverd/client/watch.go and, at the other end of its channel, which   *)
(* has no buffer, receiveEvents of pkg/sirenia/discoverd/discoverd.go.     *)
(*                                                                         *)
(* The log of the store is written ahead of the servers; the watch is      *)
(* connected to one of two servers, each of which has applied a part of it.*)
(***************************************************************************)
EXTENDS DiscoverdState

CONSTANTS MaxLog,           \* bound on the entries of the log
          BufferSize,       \* StreamBufferSize
          MaxDisconnects,   \* bound on broken connections
          MaxGiveUps,       \* bound on watches that stop reconnecting
          MaxSnapshots      \* bound on snapshots a running server installs

VARIABLES
  hist,      \* hist[k + 1] is the outcome of the first k entries
  server,    \* entries applied by the watch's server and by the other one,
             \* events being broadcast, and whether the store is stuck
  sub,       \* the subscription and its channel
  watch,     \* the client's Watch
  out,       \* the event it is handing over
  adapter,   \* receiveEvents
  faults     \* how many faults of each kind have happened

vars == <<hist, server, sub, watch, out, adapter, faults>>

NoEvent == [kind |-> "none"]
CurrentEvent == [kind |-> "current"]

DataAt == hist[server.applied].data
NewSub(state, buf) == [state |-> state, closing |-> FALSE, buf |-> buf]
NewWatch(state) ==
  [state |-> state, insts |-> [i \in Ids |-> Absent], leader |-> None, meta |-> 0,
   isCurrent |-> FALSE, current |-> {}]

Init ==
  /\ hist = << Outcome([newRaftData EXCEPT !.config = "oldest"], <<>>, {}) >>
  /\ server = [applied |-> 1, other |-> 1, broadcasting |-> <<>>, stuck |-> FALSE]
  /\ sub = NewSub("none", <<>>) /\ watch = NewWatch("disconnected") /\ out = NoEvent
  /\ adapter = [peers |-> <<>>, state |-> 0, initialized |-> FALSE, current |-> FALSE,
                sentPeers |-> <<>>, sentIndex |-> 0]
  /\ faults = [disconnects |-> 0, giveUps |-> 0, snapshots |-> 0]

-----------------------------------------------------------------------------
(* The log grows: instances register, change and leave, and the metadata   *)
(* is replaced.                                                            *)
Commit(outcome) ==
  /\ Len(hist) <= MaxLog /\ hist' = Append(hist, outcome)
  /\ UNCHANGED <<server, sub, watch, out, adapter, faults>>

CommitEntry ==
  LET d == hist[Len(hist)].data
      n == Len(hist)
  IN  \/ \E i \in Ids, m \in InstMetas :
           d.insts[i].meta # m /\ Commit(applyAddInstanceCommand(d, i, m, n))
      \/ \E i \in Registered(d) : Commit(applyRemoveInstanceCommand(d, i))
      \/ \E i, j \in Registered(d) : i # j /\ Commit(applyExpireInstancesCommand(d, <<i, j>>))
      \/ Commit(applySetServiceMetaCommand(d, d.meta.index, 0, None, n))

(* The lock of the store is held while events are broadcast, and by a      *)
(* subscription that cannot send.                                          *)
Unlocked == server.broadcasting = <<>> /\ ~server.stuck

ApplyEntry ==
  /\ Unlocked /\ server.applied < Len(hist)
  /\ server' = [server EXCEPT !.applied = @ + 1,
                              !.broadcasting = hist[server.applied + 1].events]
  /\ UNCHANGED <<hist, sub, watch, out, adapter, faults>>

ApplyOther ==
  /\ server.other < Len(hist) /\ server' = [server EXCEPT !.other = @ + 1]
  /\ UNCHANGED <<hist, sub, watch, out, adapter, faults>>

(* Mutant: a blocked subscriber misses the event and stays. *)
broadcast_Skip ==
  /\ server.broadcasting # <<>>
  /\ server' = [server EXCEPT !.broadcasting = Tail(@)]
  /\ sub' = IF sub.state # "open" \/ Len(sub.buf) >= BufferSize THEN sub
            ELSE [sub EXCEPT !.buf = Append(@, Head(server.broadcasting))]
  /\ UNCHANGED <<hist, watch, out, adapter, faults>>

(* Events are sent one by one, while the channel is being read.  A         *)
(* subscriber that is blocked is closed by another goroutine, and may be   *)
(* sent further events before.                                             *)
broadcast ==
  /\ server.broadcasting # <<>>
  /\ server' = [server EXCEPT !.broadcasting = Tail(@)]
  /\ sub' = IF sub.state # "open" THEN sub
            ELSE IF Len(sub.buf) < BufferSize
            THEN [sub EXCEPT !.buf = Append(@, Head(server.broadcasting))]
            ELSE [sub EXCEPT !.closing = TRUE]
  /\ UNCHANGED <<hist, watch, out, adapter, faults>>

(* The goroutine that closes a subscription drains its channel, next to    *)
(* the stream that reads it, until the channel is closed.                  *)
drain ==
  /\ sub.closing /\ sub.buf # <<>>
  /\ sub' = [sub EXCEPT !.buf = Tail(@)]
  /\ UNCHANGED <<hist, server, watch, out, adapter, faults>>

(* Mutant: the subscription is removed, its channel is not closed. *)
close_Forget ==
  /\ sub.closing /\ sub.state = "open" /\ Unlocked
  /\ sub' = [sub EXCEPT !.state = "removed"]
  /\ UNCHANGED <<hist, server, watch, out, adapter, faults>>

close ==
  /\ sub.closing /\ sub.state = "open" /\ Unlocked
  /\ sub' = [sub EXCEPT !.state = "closed"]
  /\ UNCHANGED <<hist, server, watch, out, adapter, faults>>

(* raft installs a snapshot on a server that is far behind. *)
Restore ==
  /\ Unlocked /\ faults.snapshots < MaxSnapshots
  /\ faults' = [faults EXCEPT !.snapshots = @ + 1]
  /\ \E k \in server.applied + 1..Len(hist) : server' = [server EXCEPT !.applied = k]
  /\ UNCHANGED <<hist, sub, watch, out, adapter>>

-----------------------------------------------------------------------------
(* The current state of the service, as events. *)
Current(d) ==
  LET insts == ServiceInstances(d)
  IN  [k \in DOMAIN insts |-> InstEvent("up", insts[k], d.insts[insts[k]])]
      \o (IF serviceLeader(d) = None THEN <<>> ELSE <<LeaderEvent(d, serviceLeader(d))>>)
      \o (IF d.meta = NoMeta THEN <<>> ELSE <<MetaEvent(d.meta)>>)
      \o << CurrentEvent >>

(* The watch connects to a server, which may not be the one it knew and    *)
(* lag behind it.  Nobody reads the channel yet: a state that does not fit *)
(* blocks the store, which is locked.                                      *)
Subscribe ==
  /\ watch.state = "disconnected" /\ Unlocked
  /\ \E s \in {server, [server EXCEPT !.applied = server.other, !.other = server.applied]} :
       LET now == Current(hist[s.applied].data) IN
       IF Len(now) <= BufferSize
       THEN /\ server' = s /\ sub' = NewSub("open", now)
            /\ watch' = [watch EXCEPT !.state = "connected"]
       ELSE server' = [s EXCEPT !.stuck = TRUE] /\ UNCHANGED <<sub, watch>>
  /\ UNCHANGED <<hist, out, adapter, faults>>

-----------------------------------------------------------------------------
(* What Watch makes of an event: its new state and the event it passes on. *)
(* Instances are compared without their index.                             *)
WatchUp(w, e) ==
  LET known == w.insts[e.id] # Absent
  IN  [watch |-> [w EXCEPT !.insts[e.id] = e.inst,
                           !.current = IF w.isCurrent THEN @ ELSE @ \cup {e.id}],
       out |-> IF w.isCurrent \/ ~known THEN e
               ELSE IF w.insts[e.id].meta = e.inst.meta THEN NoEvent
               ELSE [e EXCEPT !.kind = "update"]]

Watch(w, e) ==
  CASE e.kind = "up"      -> WatchUp(w, e)
    [] e.kind = "current" -> [watch |-> [w EXCEPT !.state = "reporting"], out |-> NoEvent]
    [] e.kind = "update"  -> [watch |-> [w EXCEPT !.insts[e.id] = e.inst], out |-> e]
    [] e.kind = "down"    -> [watch |-> [w EXCEPT !.insts[e.id] = Absent], out |-> e]
    [] e.kind = "leader"  -> IF ~w.isCurrent /\ w.leader = e.id THEN [watch |-> w, out |-> NoEvent]
                             ELSE [watch |-> [w EXCEPT !.leader = e.id], out |-> e]
    [] e.kind = "meta"    -> IF ~w.isCurrent /\ w.meta = e.meta.index
                             THEN [watch |-> w, out |-> NoEvent]
                             ELSE [watch |-> [w EXCEPT !.meta = e.meta.index], out |-> e]

Receive ==
  /\ watch.state = "connected" /\ out = NoEvent /\ sub.buf # <<>>
  /\ LET r == Watch(watch, Head(sub.buf)) IN watch' = r.watch /\ out' = r.out
  /\ sub' = [sub EXCEPT !.buf = Tail(@)]
  /\ UNCHANGED <<hist, server, adapter, faults>>

(* At the current event, the instances that the watch knows and the server *)
(* does not are reported as down, in any order, and then the event.        *)
Gone == {i \in Ids : watch.insts[i] # Absent} \ watch.current
ReportGone ==
  /\ watch.state = "reporting" /\ out = NoEvent
  /\ \/ \E i \in Gone : /\ out' = InstEvent("down", i, watch.insts[i])
                         /\ watch' = [watch EXCEPT !.insts[i] = Absent]
     \/ /\ Gone = {} /\ out' = CurrentEvent
        /\ watch' = [watch EXCEPT !.state = "connected", !.isCurrent = TRUE]
  /\ UNCHANGED <<hist, server, sub, adapter, faults>>

-----------------------------------------------------------------------------
(* The peers of receiveEvents: an instance that is known is replaced where *)
(* it stands, a new one is added and all are sorted by their index.        *)
Known(peers, i) == {k \in DOMAIN peers : peers[k].id = i}
SortedByIndex(peers) ==
  {[k \in DOMAIN peers |-> peers[f[k]]] :
     f \in {g \in [DOMAIN peers -> DOMAIN peers] :
             /\ \A k \in DOMAIN peers : \E j \in DOMAIN peers : g[j] = k
             /\ \A j, k \in DOMAIN peers : j < k => peers[g[j]].index <= peers[g[k]].index}}
addPeer(peers, e) ==
  LET p == [id |-> e.id, index |-> e.inst.index]
  IN  IF Known(peers, e.id) = {} THEN SortedByIndex(Append(peers, p))
      ELSE {[k \in DOMAIN peers |-> IF peers[k].id = e.id THEN p ELSE peers[k]]}
delPeer(peers, e) == Subsequence(peers, DOMAIN peers \ Known(peers, e.id))

IdsOf(peers) == [k \in DOMAIN peers |-> peers[k].id]

(* The state machine is sent what has changed. *)
maybeEvent(a) ==
  IF ~a.current THEN a
  ELSE [a EXCEPT !.initialized = TRUE, !.sentPeers = IdsOf(a.peers),
                 !.sentIndex = IF a.initialized /\ a.state <= @ THEN @ ELSE a.state]

receiveEvents ==
  /\ out # NoEvent /\ out' = NoEvent
  /\ \/ /\ out.kind \in {"up", "update"}
        /\ \E peers \in addPeer(adapter.peers, out) :
             LET a == [adapter EXCEPT !.peers = peers]
             IN  adapter' = IF out.kind = "up" THEN maybeEvent(a) ELSE a
     \/ /\ out.kind = "down"
        /\ adapter' = maybeEvent([adapter EXCEPT !.peers = delPeer(@, out)])
     \/ /\ out.kind = "current"
        /\ adapter' = maybeEvent([adapter EXCEPT !.current = TRUE])
     \/ /\ out.kind = "meta"
        /\ adapter' = IF out.meta.index <= adapter.state THEN adapter
                      ELSE maybeEvent([adapter EXCEPT !.state = out.meta.index])
     \/ out.kind = "leader" /\ UNCHANGED adapter
  /\ UNCHANGED <<hist, server, sub, watch, faults>>

-----------------------------------------------------------------------------
Disconnected(w) == [w EXCEPT !.state = "disconnected", !.isCurrent = FALSE, !.current = {}]

(* The stream ends when the subscription has been closed ... *)
EndOfStream ==
  /\ watch.state = "connected" /\ out = NoEvent /\ sub.state = "closed" /\ sub.buf = <<>>
  /\ watch' = Disconnected(watch) /\ sub' = NewSub("none", <<>>)
  /\ UNCHANGED <<hist, server, out, adapter, faults>>

(* ... or at any time when the connection breaks or the server stops. *)
Disconnect ==
  /\ watch.state = "connected" /\ out = NoEvent /\ faults.disconnects < MaxDisconnects
  /\ faults' = [faults EXCEPT !.disconnects = @ + 1]
  /\ watch' = Disconnected(watch) /\ sub' = NewSub("none", <<>>)
  /\ UNCHANGED <<hist, server, out, adapter>>

(* Mutant: receiveEvents starts from nothing with each watch. *)
GiveUp_Forget ==
  /\ watch.state = "disconnected" /\ faults.giveUps < MaxGiveUps
  /\ faults' = [faults EXCEPT !.giveUps = @ + 1]
  /\ watch' = NewWatch("disconnected")
  /\ adapter' = [adapter EXCEPT !.current = FALSE, !.peers = <<>>, !.state = 0, !.sentIndex = 0]
  /\ UNCHANGED <<hist, server, sub, out>>

(* Watch gives up after 30 seconds without a server, and receiveEvents     *)
(* starts another one.                                                     *)
GiveUp ==
  /\ watch.state = "disconnected" /\ faults.giveUps < MaxGiveUps
  /\ faults' = [faults EXCEPT !.giveUps = @ + 1]
  /\ watch' = NewWatch("disconnected") /\ adapter' = [adapter EXCEPT !.current = FALSE]
  /\ UNCHANGED <<hist, server, sub, out>>

Next ==
  \/ CommitEntry \/ ApplyEntry \/ ApplyOther \/ broadcast \/ drain \/ close \/ Restore
  \/ Subscribe \/ Receive \/ ReportGone \/ receiveEvents \/ EndOfStream \/ Disconnect \/ GiveUp

Spec == Init /\ [][Next]_vars

(* Goroutines that are ready run, streams are read and the watch           *)
(* reconnects; nothing is assumed of the log or of the faults.             *)
Fairness ==
  /\ WF_vars(ApplyEntry) /\ WF_vars(ApplyOther) /\ WF_vars(broadcast) /\ WF_vars(close)
  /\ WF_vars(Subscribe) /\ WF_vars(Receive) /\ WF_vars(ReportGone) /\ WF_vars(receiveEvents)
  /\ WF_vars(EndOfStream)
FairSpec == Spec /\ Fairness

-----------------------------------------------------------------------------
(* Everything the server has said has been heard. *)
Heard ==
  /\ watch.state = "connected" /\ watch.isCurrent /\ sub.buf = <<>> /\ out = NoEvent
  /\ ~sub.closing /\ Unlocked

(* When everything has been heard, Watch holds the instances and the       *)
(* metadata of its server, whatever was missed in between, and Sirenia's   *)
(* peer has been sent its instances and at least its metadata.  A server   *)
(* that installs a snapshot tells nobody what it skipped, and a watch that *)
(* replaces another one does not know whom to report as down.              *)
Sent == {adapter.sentPeers[k] : k \in DOMAIN adapter.sentPeers}
InSync ==
  Heard /\ faults.snapshots = 0 =>
    /\ watch.insts = DataAt.insts
    /\ DataAt.meta # NoMeta => watch.meta = DataAt.meta.index
    /\ Registered(DataAt) \subseteq Sent
    /\ faults.giveUps = 0 => Sent = Registered(DataAt)
    /\ adapter.sentIndex >= DataAt.meta.index

(* The adapter never sends a state older than one it has sent, also when   *)
(* the watch, or a new one, reaches a server that lags.                    *)
NeverBack == [][adapter'.sentIndex >= adapter.sentIndex]_vars

(* In the end the peer knows the last instances and the last metadata. *)
CatchesUp ==
  <>[](LET d == hist[Len(hist)].data
       IN  Sent = Registered(d) /\ adapter.sentIndex = d.meta.index)

(* Watch "generates any events which were missed by comparing local state  *)
(* to the current state": its leader is the server's.                      *)
LeaderInSync == Heard => watch.leader = serviceLeader(DataAt)

(* An instance is only left out of the events when it has not "changed in  *)
(* some way": the peers are in the order of the server's indexes.          *)
PeersInOrder == Heard => IdsOf(adapter.peers) = ServiceInstances(DataAt)

(* A list of peers sent to the state machine holds no instance that the    *)
(* server, whose current state has been received, does not have.           *)
NoGhostPeers == Heard => Sent \subseteq Registered(DataAt)

(* The channel is drained "to prevent deadlocks": no subscriber blocks the *)
(* store.                                                                  *)
StoreNeverStuck == ~server.stuck
=============================================================================
