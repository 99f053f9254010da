--------------------------- MODULE DiscoverdState ---------------------------
(***************************************************************************)
(* The replicated state machine of discoverd for one service: raftData and *)
(* the apply...Command functions of discoverd/server/store.go, with the    *)
(* events each entry broadcasts and the maps of raftData it assigns to.    *)
(***************************************************************************)
EXTENDS Naturals, Sequences, FiniteSets, Subsequences

CONSTANTS Ids,         \* instance IDs of the service
          InstMetas    \* what an instance may say about itself

None == "none"
Absent == [index |-> 0, meta |-> None]
NoMeta == [index |-> 0, value |-> 0]
Inst == [index : Nat, meta : InstMetas \cup {None}]

(* The maps of raftData; one decoded from an empty snapshot field is nil.  *)
Maps == {"Services", "Metas", "Leaders", "Instances"}

(* config is "none" when the service does not exist; known says that the   *)
(* service has a map of instances; leader is "unset" without an entry.     *)
Data ==
  [config : {"none", "oldest", "manual"}, insts : [Ids -> Inst], known : BOOLEAN,
   leader : Ids \cup {"unset", None}, meta : [index : Nat, value : Nat]]

newRaftData ==
  [config |-> "none", insts |-> [i \in Ids |-> Absent], known |-> FALSE,
   leader |-> "unset", meta |-> NoMeta]

Registered(d) == {i \in Ids : d.insts[i] # Absent}

(* The maps a snapshot of d holds no entry of: "omitempty" drops them and  *)
(* Restore decodes nil maps.                                               *)
EmptyMaps(d) ==
  {m \in Maps : \/ m = "Services" /\ d.config = "none"
                \/ m = "Metas" /\ d.meta = NoMeta
                \/ m = "Leaders" /\ d.leader = "unset"
                \/ m = "Instances" /\ ~d.known}

(* The instances in the order of their index. *)
ServiceInstances(d) ==
  [k \in 1..Cardinality(Registered(d)) |->
     CHOOSE i \in Registered(d) :
       Cardinality({j \in Registered(d) : d.insts[j].index < d.insts[i].index}) = k - 1]

InstEvent(kind, i, inst) == [kind |-> kind, id |-> i, inst |-> inst]
LeaderEvent(d, i) ==
  InstEvent("leader", i, IF i \in Ids THEN d.insts[i] ELSE Absent)
MetaEvent(m) == [kind |-> "meta", meta |-> m]

(* What an entry of the log does: the new data, what is broadcast and the  *)
(* maps assigned to.                                                       *)
Outcome(d, events, writes) == [data |-> d, events |-> events, writes |-> writes]
Refused(d) == Outcome(d, <<>>, {})

(* The leader as subscribers and serveGetLeader see it. *)
serviceLeader(d) == IF d.leader \in Registered(d) THEN d.leader ELSE None

Oldest(d) ==
  IF Registered(d) = {} THEN None
  ELSE CHOOSE i \in Registered(d) :
         \A j \in Registered(d) : d.insts[i].index <= d.insts[j].index

(* Mutant: no event when the last instance has gone. *)
invalidateServiceLeader_Silent(d, events, writes) ==
  IF d.config \in {"none", "manual"} THEN Outcome(d, events, writes)
  ELSE LET n == [d EXCEPT !.leader = Oldest(d)]
           prev == IF d.leader = "unset" THEN None ELSE d.leader
       IN  Outcome(n, IF n.leader \in {prev, None} THEN events
                      ELSE Append(events, LeaderEvent(n, n.leader)),
                   writes \cup {"Leaders"})

(* events were broadcast and d is the data before the leader is chosen. *)
invalidateServiceLeader(d, events, writes) ==
  IF d.config \in {"none", "manual"} THEN Outcome(d, events, writes)
  ELSE LET n == [d EXCEPT !.leader = Oldest(d)]
           prev == IF d.leader = "unset" THEN None ELSE d.leader
       IN  Outcome(n, IF n.leader = prev THEN events ELSE Append(events, LeaderEvent(n, n.leader)),
                   writes \cup {"Leaders"})

applyAddServiceCommand(d, config) ==
  IF d.config # "none" THEN Refused(d)
  ELSE Outcome([d EXCEPT !.config = config], <<>>, {"Services"})

(* The instances and the leader stay in the store. *)
applyRemoveServiceCommand(d) ==
  IF d.config = "none" THEN Refused(d)
  ELSE LET insts == ServiceInstances(d)
       IN  Outcome([d EXCEPT !.config = "none", !.meta = NoMeta],
                   [k \in DOMAIN insts |-> InstEvent("down", insts[k], d.insts[insts[k]])], {})

applyAddInstanceCommand(d, i, meta, index) ==
  IF d.config = "none" THEN Refused(d)
  ELSE LET prev == d.insts[i]
           inst == [index |-> IF prev = Absent THEN index ELSE prev.index, meta |-> meta]
           kind == IF prev = Absent THEN {"up"} ELSE IF prev.meta # meta THEN {"update"} ELSE {}
       IN  invalidateServiceLeader(
             [d EXCEPT !.insts[i] = inst, !.known = TRUE],
             IF kind = {} THEN <<>> ELSE <<InstEvent(CHOOSE k \in kind : TRUE, i, inst)>>,
             IF d.known THEN {} ELSE {"Instances"})

applyRemoveInstanceCommand(d, i) ==
  IF ~d.known THEN Refused(d)
  ELSE invalidateServiceLeader(
         [d EXCEPT !.insts[i] = Absent],
         IF d.insts[i] = Absent THEN <<>> ELSE <<InstEvent("down", i, d.insts[i])>>, {})

(* ids is a sequence, as the command lists them. *)
applyExpireInstancesCommand(d, ids) ==
  LET gone == Subsequence(ids, {k \in DOMAIN ids : d.insts[ids[k]] # Absent})
      n == [d EXCEPT !.insts = [i \in Ids |->
                        IF \E k \in DOMAIN gone : gone[k] = i THEN Absent ELSE d.insts[i]]]
  IN  IF gone = <<>> THEN Refused(d)
      ELSE invalidateServiceLeader(
             n, [k \in DOMAIN gone |-> InstEvent("down", gone[k], d.insts[gone[k]])], {})

(* Mutant: the index that was read is not compared. *)
applySetServiceMetaCommand_AnyIndex(d, base, value, leader, index) ==
  IF d.config = "none" THEN Refused(d)
  ELSE LET m == [index |-> index, value |-> value]
       IN  Outcome([d EXCEPT !.meta = m], <<MetaEvent(m)>>, {"Metas"})

(* index is the one the writer read; leader may be None. *)
applySetServiceMetaCommand(d, base, value, leader, index) ==
  IF d.config = "none" \/ base # d.meta.index THEN Refused(d)
  ELSE LET m == [index |-> index, value |-> value]
           n == [d EXCEPT !.meta = m, !.leader = IF leader = None THEN @ ELSE leader]
           told == leader # None /\ leader \in Registered(d)
       IN  Outcome(n, <<MetaEvent(m)>> \o (IF told THEN <<LeaderEvent(n, leader)>> ELSE <<>>),
                   {"Metas"} \cup (IF leader = None THEN {} ELSE {"Leaders"}))

applySetLeaderCommand(d, i) ==
  LET n == [d EXCEPT !.leader = i]
  IN  Outcome(n, IF i \in Registered(d) THEN <<LeaderEvent(n, i)>> ELSE <<>>, {"Leaders"})
=============================================================================
