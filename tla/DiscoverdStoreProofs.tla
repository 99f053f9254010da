------------------------ MODULE DiscoverdStoreProofs ------------------------
(***************************************************************************)
(* Proofs about Discoverd, for any servers, instances, clients and lengths *)
(* of the log.                                                             *)
(*                                                                         *)
(* The store: what every entry does to the data, that the index of an      *)
(* instance is the entry that registered it, that no update of the         *)
(* metadata is lost, and, while the service is not removed and no leader   *)
(* is set by hand, that the oldest instance leads and subscribers know it. *)
(* NoLostUpdate needs that the index of the metadata identifies its value  *)
(* in the whole log, and that what clients have read, or are about to      *)
(* write, is in the log.  OldestLeads needs what subscribers were told     *)
(* last to be the stored leader, after every entry.                        *)
(*                                                                         *)
(* The watch: what is in the channel and what is being broadcast are taken *)
(* as one queue, whose last event about an instance says what the server   *)
(* has; an instance no event is about is known to the watch.  The peers of *)
(* receiveEvents follow the watch up to the event that is handed over.     *)
(***************************************************************************)
EXTENDS Discoverd, FiniteSetTheorems, WellFoundedInduction, TLAPS

(* What the store says for "no leader" and "none stored" is no instance,   *)
(* and finitely many instances exist.                                      *)
Setting ==
  /\ IsFiniteSet(Ids) /\ None \notin Ids /\ "unset" \notin Ids
  /\ Configs \subseteq {"oldest", "manual"}
  /\ MaxLog \in Nat /\ MaxRestarts \in Nat

Meta == [index : Nat, value : Nat]
IsSeq(s) == \E S : s \in Seq(S)
Applied(o) == o.data \in Data /\ o.writes \in SUBSET Maps

Command ==
  [type : {"addService"}, config : {"oldest", "manual"}]
    \cup [type : {"removeService"}]
    \cup [type : {"addInstance"}, id : Ids, meta : InstMetas]
    \cup [type : {"removeInstance"}, id : Ids]
    \cup [type : {"expire"}, ids : Seq(Ids)]
    \cup [type : {"setMeta"}, base : Nat, value : Nat, leader : Ids \cup {None}]
    \cup [type : {"setLeader"}, id : Ids]

Types ==
  /\ IsSeq(hist) /\ Len(hist) >= 1 /\ hist[1] = Outcome(newRaftData, <<>>, {})
  /\ \A k \in 1..Len(hist) : Applied(hist[k])
  /\ requests \subseteq Command
  /\ leader \in Servers /\ server \in [Servers -> ServerState]
  /\ \A s \in Servers : server[s].applied <= Len(hist)
  /\ read \in [Writers -> Meta]
  /\ Len(hist) <= MaxLog + 1 /\ restarts \in 0..MaxRestarts

-----------------------------------------------------------------------------
(* The oldest instance exists, and depends on the instances only. *)

(* Every non-empty set of numbers has a least element. *)
LEMMA Least ==
  ASSUME NEW K \in SUBSET Nat, K # {}
  PROVE  \E k \in K : \A j \in K : k <= j
<1> DEFINE R == {ss \in Nat \X Nat : ss[1] < ss[2]}
<1>1. IsWellFoundedOn(R, Nat)
  BY NatLessThanWellFounded, Zenon DEF OpToRel
<1> HIDE DEF R
<1>2. PICK k \in K : \A j \in K : ~ (<<j, k>> \in R)
  BY <1>1, WFMin
<1>3. \A j \in K : ~ (j < k)
  BY <1>2 DEF R
<1> QED
  BY <1>3

LEMMA OldestType ==
  ASSUME NEW d \in Data
  PROVE  /\ Oldest(d) \in Registered(d) \cup {None}
         /\ Registered(d) # {} => Oldest(d) \in Registered(d)
<1> DEFINE K == {d.insts[i].index : i \in Registered(d)}
<1>1. CASE Registered(d) = {}
  BY <1>1 DEF Oldest
<1>2. CASE Registered(d) # {}
  <2>1. K \in SUBSET Nat /\ K # {}
    BY <1>2 DEF Registered, Data, Inst
  <2>2. PICK k \in K : \A j \in K : k <= j
    BY <2>1, Least
  <2>3. \E i \in Registered(d) : \A j \in Registered(d) : d.insts[i].index <= d.insts[j].index
    BY <2>2
  <2> QED
    BY <1>2, <2>3, Zenon DEF Oldest
<1> QED
  BY <1>1, <1>2

OldestOf(insts) ==
  IF {i \in Ids : insts[i] # Absent} = {} THEN None
  ELSE CHOOSE i \in {i \in Ids : insts[i] # Absent} :
         \A j \in {j \in Ids : insts[j] # Absent} : insts[i].index <= insts[j].index

LEMMA OldestSame ==
  ASSUME NEW d, NEW e, d.insts = e.insts
  PROVE  Oldest(d) = Oldest(e) /\ Registered(d) = Registered(e)
<1>1. Oldest(d) = OldestOf(d.insts) /\ Oldest(e) = OldestOf(e.insts)
  BY Zenon DEF Oldest, OldestOf, Registered
<1>2. Registered(d) = Registered(e)
  BY DEF Registered
<1> QED
  BY <1>1, <1>2

-----------------------------------------------------------------------------
(* What an entry does. *)

Prev(d) == IF d.leader = "unset" THEN None ELSE d.leader
Silent(events) == \A n \in 1..Len(events) : events[n].kind # "leader"
Announces(o) ==
  /\ Len(o.events) >= 1 /\ o.events[Len(o.events)].id = o.data.leader
  /\ \A n \in 1..Len(o.events) : o.events[n].kind = "leader" <=> n = Len(o.events)

(* The data keeps its type, an instance keeps its index until it leaves,   *)
(* and the metadata changes only for a writer that read it.                *)
Effect(d, cmd, index, o) ==
  /\ Applied(o)
  /\ \A i \in Ids :
       \/ o.data.insts[i] = Absent
       \/ o.data.insts[i].index = d.insts[i].index
       \/ d.insts[i] = Absent /\ o.data.insts[i].index = index
  /\ \/ o.data.meta = d.meta
     \/ o.data.meta = NoMeta
     \/ /\ cmd.type = "setMeta" /\ cmd.base = d.meta.index
        /\ o.data.meta = [index |-> index, value |-> cmd.value]

(* Without removals and leaders set by hand: the leader is left alone, or  *)
(* the oldest instance leads and is announced if it did not before.        *)
LeaderEffect(d, o) ==
  /\ IsSeq(o.events)
  /\ \/ /\ Silent(o.events) /\ o.data.insts = d.insts /\ o.data.leader = d.leader
        /\ o.data.config = d.config \/ d.config = "none"
     \/ /\ d.config # "oldest" /\ Silent(o.events) /\ o.data.config = d.config
        /\ o.data.leader = d.leader
        /\ d.config = "none" /\ Registered(d) = {} => Registered(o.data) = {}
     \/ /\ d.config = "oldest" /\ o.data.config = "oldest" /\ o.data.leader = Oldest(o.data)
        /\ IF o.data.leader = Prev(d) THEN Silent(o.events) ELSE Announces(o)

LEMMA Appended ==
  ASSUME NEW s, IsSeq(s), NEW e
  PROVE  /\ Len(s) \in Nat /\ DOMAIN s = 1..Len(s)
         /\ IsSeq(Append(s, e)) /\ Len(Append(s, e)) = Len(s) + 1
         /\ \A k \in 1..Len(s) : Append(s, e)[k] = s[k]
         /\ Append(s, e)[Len(s) + 1] = e
<1>1. PICK S : s \in Seq(S)
  BY DEF IsSeq
<1>2. s \in Seq(S \cup {e}) /\ e \in S \cup {e}
  BY <1>1
<1>3. Append(s, e) \in Seq(S \cup {e})
  BY <1>2
<1> QED
  BY <1>2, <1>3 DEF IsSeq

LEMMA Short ==
  /\ IsSeq(<<>>) /\ Silent(<<>>)
  /\ \A e : IsSeq(<<e>>) /\ (e.kind # "leader" => Silent(<<e>>))
<1>1. <<>> \in Seq({})
  OBVIOUS
<1>2. ASSUME NEW e PROVE <<e>> \in Seq({e})
  OBVIOUS
<1>3. ASSUME NEW e PROVE Len(<<e>>) = 1 /\ <<e>>[1] = e
  OBVIOUS
<1>4. Silent(<<>>)
  BY DEF Silent
<1>5. ASSUME NEW e, e.kind # "leader" PROVE Silent(<<e>>)
  BY <1>3, <1>5 DEF Silent
<1> QED
  BY <1>1, <1>2, <1>4, <1>5 DEF IsSeq

LEMMA InstEventKind ==
  ASSUME NEW k, NEW i, NEW inst
  PROVE  InstEvent(k, i, inst).kind = k /\ InstEvent(k, i, inst).id = i
BY DEF InstEvent

LEMMA RefusedEffect ==
  ASSUME NEW d \in Data, NEW cmd, NEW index
  PROVE  Effect(d, cmd, index, Refused(d)) /\ LeaderEffect(d, Refused(d))
BY Short DEF Refused, Outcome, Effect, LeaderEffect, Applied

LEMMA AbsentType == Absent \in Inst /\ NoMeta \in Meta /\ newRaftData \in Data
BY DEF Absent, Inst, NoMeta, Meta, newRaftData, Data, None

(* invalidateServiceLeader, after events that tell no leader. *)
LEMMA InvalidateEffect ==
  ASSUME Setting, NEW d \in Data, NEW events, IsSeq(events), Silent(events),
         NEW writes \in SUBSET Maps, NEW o, o = invalidateServiceLeader(d, events, writes)
  PROVE  /\ Applied(o) /\ IsSeq(o.events) /\ o.data.insts = d.insts /\ o.data.meta = d.meta
         /\ o.data.config = d.config
         /\ \/ d.config # "oldest" /\ o.data.leader = d.leader /\ Silent(o.events)
            \/ /\ d.config = "oldest" /\ o.data.leader = Oldest(o.data)
               /\ IF o.data.leader = Prev(d) THEN Silent(o.events) ELSE Announces(o)
<1>1. CASE d.config \in {"none", "manual"}
  <2>1. o = [data |-> d, events |-> events, writes |-> writes]
    BY <1>1 DEF invalidateServiceLeader, Outcome
  <2> QED
    BY <1>1, <2>1 DEF Applied
<1>2. CASE d.config \notin {"none", "manual"}
  <2> DEFINE n == [d EXCEPT !.leader = Oldest(d)]
             e == LeaderEvent(n, n.leader)
             evs == IF n.leader = Prev(d) THEN events ELSE Append(events, e)
  <2>1. d.config = "oldest"
    BY <1>2 DEF Data
  <2>2. o = [data |-> n, events |-> evs, writes |-> writes \cup {"Leaders"}]
    BY <1>2 DEF invalidateServiceLeader, Outcome, Prev
  <2>3. Oldest(d) \in Ids \cup {None}
    BY OldestType DEF Registered
  <2>4. n \in Data /\ n.leader = Oldest(d) /\ n.insts = d.insts /\ n.meta = d.meta
        /\ n.config = d.config
    BY <2>3 DEF Data
  <2>5. Oldest(n) = Oldest(d)
    BY <2>4, OldestSame
  <2> HIDE DEF n
  <2>6. e.kind = "leader" /\ e.id = n.leader
    BY InstEventKind DEF LeaderEvent
  <2> HIDE DEF e
  <2>7. IsSeq(evs)
    BY Appended
  <2>8. IF n.leader = Prev(d) THEN Silent(evs) ELSE
          /\ Len(evs) >= 1 /\ evs[Len(evs)].id = n.leader
          /\ \A m \in 1..Len(evs) : evs[m].kind = "leader" <=> m = Len(evs)
    BY <2>6, Appended DEF Silent
  <2> HIDE DEF evs
  <2>9. writes \cup {"Leaders"} \in SUBSET Maps
    BY DEF Maps
  <2> QED
    BY <2>1, <2>2, <2>4, <2>5, <2>7, <2>8, <2>9 DEF Applied, Announces
<1> QED
  BY <1>1, <1>2

(* The command leaves the leader to the store. *)
Elects(cmd) ==
  /\ cmd.type \notin {"removeService", "setLeader"}
  /\ cmd.type = "setMeta" => cmd.leader = None

LEMMA AddServiceEffect ==
  ASSUME NEW d \in Data, NEW config \in {"oldest", "manual"}, NEW cmd, NEW index, NEW o,
         o = applyAddServiceCommand(d, config)
  PROVE  Effect(d, cmd, index, o) /\ LeaderEffect(d, o)
<1>1. CASE d.config # "none"
  BY <1>1, RefusedEffect DEF applyAddServiceCommand
<1>2. CASE d.config = "none"
  <2> DEFINE n == [d EXCEPT !.config = config]
  <2>1. o = [data |-> n, events |-> <<>>, writes |-> {"Services"}]
    BY <1>2 DEF applyAddServiceCommand, Outcome
  <2>2. n \in Data /\ n.insts = d.insts /\ n.leader = d.leader /\ n.meta = d.meta
    BY DEF Data
  <2> HIDE DEF n
  <2> QED
    BY <1>2, <2>1, <2>2, Short DEF Effect, LeaderEffect, Applied, Maps
<1> QED
  BY <1>1, <1>2

LEMMA RemoveServiceEffect ==
  ASSUME NEW d \in Data, NEW cmd, NEW index, NEW o, o = applyRemoveServiceCommand(d)
  PROVE  Effect(d, cmd, index, o)
<1>1. CASE d.config = "none"
  BY <1>1, RefusedEffect DEF applyRemoveServiceCommand
<1>2. CASE d.config # "none"
  <2> DEFINE n == [d EXCEPT !.config = "none", !.meta = NoMeta]
  <2>1. o.data = n /\ o.writes = {}
    BY <1>2 DEF applyRemoveServiceCommand, Outcome
  <2>2. n \in Data /\ n.insts = d.insts /\ n.meta = NoMeta
    BY AbsentType DEF Data, Meta
  <2> HIDE DEF n
  <2> QED
    BY <2>1, <2>2 DEF Effect, Applied
<1> QED
  BY <1>1, <1>2

LEMMA AddInstanceEffect ==
  ASSUME Setting, NEW d \in Data, NEW i \in Ids, NEW meta \in InstMetas, NEW cmd,
         NEW index \in Nat, NEW o, o = applyAddInstanceCommand(d, i, meta, index)
  PROVE  Effect(d, cmd, index, o) /\ LeaderEffect(d, o)
<1>1. CASE d.config = "none"
  BY <1>1, RefusedEffect DEF applyAddInstanceCommand
<1>2. CASE d.config # "none"
  <2> DEFINE inst == [index |-> IF d.insts[i] = Absent THEN index ELSE d.insts[i].index,
                      meta |-> meta]
             kind == IF d.insts[i] = Absent THEN {"up"}
                     ELSE IF d.insts[i].meta # meta THEN {"update"} ELSE {}
             n == [d EXCEPT !.insts[i] = inst, !.known = TRUE]
             c == CHOOSE k \in kind : TRUE
             evs == IF kind = {} THEN <<>> ELSE <<InstEvent(c, i, inst)>>
             w == IF d.known THEN {} ELSE {"Instances"}
  <2>1. o = invalidateServiceLeader(n, evs, w)
    BY <1>2 DEF applyAddInstanceCommand
  <2>2. d.insts \in [Ids -> Inst] /\ inst \in Inst
        /\ inst.index = IF d.insts[i] = Absent THEN index ELSE d.insts[i].index
    BY DEF Data, Inst
  <2>3. kind # {} => c \in {"up", "update"}
    OBVIOUS
  <2> HIDE DEF inst, kind, c
  <2>4. n \in Data /\ n.leader = d.leader /\ n.meta = d.meta /\ n.config = d.config
        /\ n.insts = [d.insts EXCEPT ![i] = inst]
    BY <2>2 DEF Data
  <2> HIDE DEF n
  <2>5. IsSeq(evs) /\ Silent(evs)
    <3>1. kind # {} => InstEvent(c, i, inst).kind # "leader"
      BY <2>3, InstEventKind
    <3> QED
      BY <3>1, Short
  <2> HIDE DEF evs
  <2>6. w \in SUBSET Maps
    BY DEF Maps
  <2> HIDE DEF w
  <2>7. /\ Applied(o) /\ IsSeq(o.events) /\ o.data.insts = n.insts
        /\ o.data.meta = n.meta /\ o.data.config = n.config
        /\ \/ n.config # "oldest" /\ o.data.leader = n.leader /\ Silent(o.events)
           \/ /\ n.config = "oldest" /\ o.data.leader = Oldest(o.data)
              /\ IF o.data.leader = Prev(n) THEN Silent(o.events) ELSE Announces(o)
    BY <2>1, <2>4, <2>5, <2>6, InvalidateEffect
  <2>8. Effect(d, cmd, index, o)
    BY <2>2, <2>4, <2>7 DEF Effect
  <2>9. LeaderEffect(d, o)
    BY <1>2, <2>4, <2>7 DEF LeaderEffect, Prev
  <2> QED
    BY <2>8, <2>9
<1> QED
  BY <1>1, <1>2

(* Instances leave, which is announced, and the leader is chosen again. *)
LEMMA LeaveEffect ==
  ASSUME Setting, NEW d \in Data, NEW insts \in [Ids -> Inst],
         \A i \in Ids : insts[i] \in {Absent, d.insts[i]},
         NEW events, IsSeq(events), Silent(events), NEW cmd, NEW index, NEW o,
         o = invalidateServiceLeader([d EXCEPT !.insts = insts], events, {})
  PROVE  Effect(d, cmd, index, o) /\ LeaderEffect(d, o)
<1> DEFINE n == [d EXCEPT !.insts = insts]
<1>1. n \in Data /\ n.leader = d.leader /\ n.meta = d.meta /\ n.config = d.config
      /\ n.insts = insts
  BY DEF Data
<1>2. o = invalidateServiceLeader(n, events, {})
  OBVIOUS
<1> HIDE DEF n
<1>3. /\ Applied(o) /\ IsSeq(o.events) /\ o.data.insts = n.insts
      /\ o.data.meta = n.meta /\ o.data.config = n.config
      /\ \/ n.config # "oldest" /\ o.data.leader = n.leader /\ Silent(o.events)
         \/ /\ n.config = "oldest" /\ o.data.leader = Oldest(o.data)
            /\ IF o.data.leader = Prev(n) THEN Silent(o.events) ELSE Announces(o)
  BY <1>1, <1>2, InvalidateEffect
<1>4. Effect(d, cmd, index, o)
  BY <1>1, <1>3 DEF Effect
<1>5. Registered(d) = {} => Registered(o.data) = {}
  BY <1>1, <1>3 DEF Registered
<1>6. LeaderEffect(d, o)
  BY <1>1, <1>3, <1>5 DEF LeaderEffect, Prev
<1> QED
  BY <1>4, <1>6

LEMMA RemoveInstanceEffect ==
  ASSUME Setting, NEW d \in Data, NEW i \in Ids, NEW cmd, NEW index, NEW o,
         o = applyRemoveInstanceCommand(d, i)
  PROVE  Effect(d, cmd, index, o) /\ LeaderEffect(d, o)
<1>1. CASE ~d.known
  BY <1>1, RefusedEffect DEF applyRemoveInstanceCommand
<1>2. CASE d.known
  <2> DEFINE insts == [d.insts EXCEPT ![i] = Absent]
             evs == IF d.insts[i] = Absent THEN <<>> ELSE <<InstEvent("down", i, d.insts[i])>>
  <2>1. d.insts \in [Ids -> Inst]
    BY DEF Data
  <2>2. insts \in [Ids -> Inst] /\ \A k \in Ids : insts[k] \in {Absent, d.insts[k]}
    BY <2>1, AbsentType
  <2>3. IsSeq(evs) /\ Silent(evs)
    BY InstEventKind, Short
  <2>4. [d EXCEPT !.insts[i] = Absent] = [d EXCEPT !.insts = insts]
    BY DEF Data
  <2>5. o = invalidateServiceLeader([d EXCEPT !.insts = insts], evs, {})
    BY <1>2, <2>4 DEF applyRemoveInstanceCommand
  <2> HIDE DEF insts, evs
  <2> QED
    BY <2>2, <2>3, <2>5, LeaveEffect
<1> QED
  BY <1>1, <1>2

LEMMA ExpireEffect ==
  ASSUME Setting, NEW d \in Data, NEW ids \in Seq(Ids), NEW cmd, NEW index, NEW o,
         o = applyExpireInstancesCommand(d, ids)
  PROVE  Effect(d, cmd, index, o) /\ LeaderEffect(d, o)
<1> DEFINE K == {k \in DOMAIN ids : d.insts[ids[k]] # Absent}
           gone == Subsequence(ids, K)
           insts == [i \in Ids |-> IF \E k \in DOMAIN gone : gone[k] = i
                                  THEN Absent ELSE d.insts[i]]
           evs == [k \in DOMAIN gone |-> InstEvent("down", gone[k], d.insts[gone[k]])]
<1>1. CASE gone = <<>>
  BY <1>1, RefusedEffect DEF applyExpireInstancesCommand
<1>2. CASE gone # <<>>
  <2>1. Cardinality(K) \in Nat /\ DOMAIN gone = 1..Cardinality(K)
    <3>1. K \in SUBSET Nat /\ Len(ids) \in Nat /\ \A k \in K : k <= Len(ids)
      OBVIOUS
    <3> HIDE DEF K
    <3>2. IsFiniteSet(K)
      BY <3>1, FS_BoundedSetOfNaturals
    <3>3. Cardinality(K) \in Nat
      BY <3>2, FS_CardinalityType
    <3> QED
      BY <3>3 DEF Subsequence
  <2>3. d.insts \in [Ids -> Inst]
    BY DEF Data
  <2>4. insts \in [Ids -> Inst] /\ \A i \in Ids : insts[i] \in {Absent, d.insts[i]}
    BY <2>3, AbsentType
  <2>5. o = invalidateServiceLeader([d EXCEPT !.insts = insts], evs, {})
    BY <1>2 DEF applyExpireInstancesCommand
  <2> HIDE DEF gone, insts
  <2>6. IsSeq(evs) /\ Silent(evs)
    <3>1. \A k \in 1..Cardinality(K) : evs[k].kind = "down"
      BY <2>1, InstEventKind
    <3>2. evs \in [1..Cardinality(K) -> {evs[k] : k \in 1..Cardinality(K)}]
      BY <2>1
    <3> HIDE DEF evs, K
    <3>3. evs \in Seq({evs[k] : k \in 1..Cardinality(K)}) /\ Len(evs) = Cardinality(K)
      BY <2>1, <3>2
    <3> QED
      BY <3>1, <3>3 DEF Silent, IsSeq
  <2> HIDE DEF evs
  <2> QED
    BY <2>4, <2>5, <2>6, LeaveEffect
<1> QED
  BY <1>1, <1>2

LEMMA SetMetaEffect ==
  ASSUME Setting, NEW d \in Data, NEW cmd, cmd.type = "setMeta", cmd.base \in Nat,
         cmd.value \in Nat, cmd.leader \in Ids \cup {None}, NEW index \in Nat, NEW o,
         o = applySetServiceMetaCommand(d, cmd.base, cmd.value, cmd.leader, index)
  PROVE  Effect(d, cmd, index, o) /\ (cmd.leader = None => LeaderEffect(d, o))
<1>1. CASE d.config = "none" \/ cmd.base # d.meta.index
  BY <1>1, RefusedEffect DEF applySetServiceMetaCommand
<1>2. CASE ~(d.config = "none" \/ cmd.base # d.meta.index)
  <2> DEFINE m == [index |-> index, value |-> cmd.value]
             n == [d EXCEPT !.meta = m,
                            !.leader = IF cmd.leader = None THEN @ ELSE cmd.leader]
             t == cmd.leader # None /\ cmd.leader \in Registered(d)
             evs == <<MetaEvent(m)>> \o (IF t THEN <<LeaderEvent(n, cmd.leader)>> ELSE <<>>)
             w == {"Metas"} \cup (IF cmd.leader = None THEN {} ELSE {"Leaders"})
  <2>1. o = [data |-> n, events |-> evs, writes |-> w]
    BY <1>2 DEF applySetServiceMetaCommand, Outcome
  <2>2. m \in Meta
    BY DEF Meta
  <2>3. /\ n \in Data /\ n.insts = d.insts /\ n.meta = m /\ n.config = d.config
        /\ cmd.leader = None => n.leader = d.leader
    BY <2>2 DEF Data, Meta
  <2>4. w \in SUBSET Maps
    BY DEF Maps
  <2>5. cmd.leader = None => IsSeq(evs) /\ Silent(evs)
    <3>1. MetaEvent(m).kind = "meta"
      BY DEF MetaEvent
    <3>2. PICK e : e = MetaEvent(m)
      OBVIOUS
    <3>3. <<e>> \in Seq({e})
      OBVIOUS
    <3>4. cmd.leader = None => evs = <<e>>
      BY <3>2, <3>3
    <3> QED
      BY <3>1, <3>2, <3>4, Short
  <2>6. n.meta = [index |-> index, value |-> cmd.value] /\ cmd.base = d.meta.index
    BY <1>2, <2>3
  <2> HIDE DEF m, n, evs, w
  <2>7. Effect(d, cmd, index, o)
    BY <2>1, <2>3, <2>4, <2>6 DEF Effect, Applied
  <2>8. cmd.leader = None => LeaderEffect(d, o)
    BY <2>1, <2>3, <2>5 DEF LeaderEffect
  <2> QED
    BY <2>7, <2>8
<1> QED
  BY <1>1, <1>2

LEMMA SetLeaderEffect ==
  ASSUME NEW d \in Data, NEW i \in Ids, NEW cmd, NEW index, NEW o,
         o = applySetLeaderCommand(d, i)
  PROVE  Effect(d, cmd, index, o)
<1> DEFINE n == [d EXCEPT !.leader = i]
<1>1. o.data = n /\ o.writes = {"Leaders"}
  BY DEF applySetLeaderCommand, Outcome
<1>2. n \in Data /\ n.insts = d.insts /\ n.meta = d.meta
  BY DEF Data
<1> HIDE DEF n
<1> QED
  BY <1>1, <1>2 DEF Effect, Applied, Maps

(* What any entry does to the data. *)
LEMMA ApplyEffect ==
  ASSUME Setting, NEW d \in Data, NEW cmd \in Command, NEW index \in Nat, NEW o,
         o = Apply(d, cmd, index)
  PROVE  Effect(d, cmd, index, o) /\ (Elects(cmd) => LeaderEffect(d, o))
<1>1. CASE cmd \in [type : {"addService"}, config : {"oldest", "manual"}]
  BY <1>1, AddServiceEffect DEF Apply
<1>2. CASE cmd \in [type : {"removeService"}]
  BY <1>2, RemoveServiceEffect DEF Apply, Elects
<1>3. CASE cmd \in [type : {"addInstance"}, id : Ids, meta : InstMetas]
  BY <1>3, AddInstanceEffect DEF Apply
<1>4. CASE cmd \in [type : {"removeInstance"}, id : Ids]
  BY <1>4, RemoveInstanceEffect DEF Apply
<1>5. CASE cmd \in [type : {"expire"}, ids : Seq(Ids)]
  BY <1>5, ExpireEffect DEF Apply
<1>6. CASE cmd \in [type : {"setMeta"}, base : Nat, value : Nat, leader : Ids \cup {None}]
  BY <1>6, SetMetaEffect DEF Apply, Elects
<1>7. CASE cmd \in [type : {"setLeader"}, id : Ids]
  BY <1>7, SetLeaderEffect DEF Apply, Elects
<1> QED
  BY <1>1, <1>2, <1>3, <1>4, <1>5, <1>6, <1>7 DEF Command

-----------------------------------------------------------------------------
(* The steps, by what they change. *)

(* What a client may ask for, by what it has read. *)
Asked(cmd) ==
  /\ cmd \in Command
  /\ cmd.type = "setMeta" =>
       \E w \in Writers : cmd.base = read[w].index /\ cmd.value = read[w].value + 1
  /\ cmd.type = "removeService" => Removals
  /\ cmd.type = "setLeader" \/ (cmd.type = "setMeta" /\ cmd.leader # None) => LeaderWrites

LEMMA OrdersType ==
  ASSUME Setting, NEW S \in SUBSET Ids, NEW ids \in Orders(S) PROVE ids \in Seq(Ids)
<1>1. Cardinality(S) \in Nat
  BY FS_Subset, FS_CardinalityType DEF Setting
<1>2. ids \in [1..Cardinality(S) -> Ids]
  BY DEF Orders
<1> QED
  BY <1>1, <1>2

LEMMA StepSplit ==
  ASSUME Setting, Types, [Next]_vars
  PROVE  \/ UNCHANGED vars
         \/ \E cmd : Asked(cmd) /\ Request(cmd)
         \/ \E cmd \in requests : CommitRequest(cmd) \/ DropRequest(cmd)
         \/ \E w \in Writers, s \in Servers : GetMeta(w, s)
         \/ \E s \in Servers : ApplyEntry(s) \/ Elect(s) \/ Restore(s)
<1>1. CASE AddService
  <2>1. PICK c \in Configs : Request([type |-> "addService", config |-> c])
    BY <1>1 DEF AddService
  <2>2. Asked([type |-> "addService", config |-> c])
    BY DEF Asked, Command, Setting
  <2> QED
    BY <2>1, <2>2
<1>2. CASE RemoveService
  <2>1. Asked([type |-> "removeService"])
    BY <1>2 DEF Asked, Command, RemoveService
  <2> QED
    BY <1>2, <2>1 DEF RemoveService
<1>3. CASE Expire
  <2>1. PICK S \in SUBSET Registered(DataAt(leader)) :
          \E ids \in Orders(S) : Request([type |-> "expire", ids |-> ids])
    BY <1>3 DEF Expire
  <2>2. PICK ids \in Orders(S) : Request([type |-> "expire", ids |-> ids])
    BY <2>1
  <2>4. ids \in Seq(Ids)
    BY <2>2, OrdersType DEF Registered
  <2>3. Asked([type |-> "expire", ids |-> ids])
    BY <2>4 DEF Asked, Command
  <2> QED
    BY <2>2, <2>3
<1>4. ASSUME NEW i \in Ids, RemoveInstance(i) PROVE \E cmd : Asked(cmd) /\ Request(cmd)
  <2>1. Asked([type |-> "removeInstance", id |-> i])
    BY DEF Asked, Command
  <2> QED
    BY <1>4, <2>1 DEF RemoveInstance
<1>5. ASSUME NEW i \in Ids, NEW m \in InstMetas, AddInstance(i, m)
      PROVE  \E cmd : Asked(cmd) /\ Request(cmd)
  <2>1. Asked([type |-> "addInstance", id |-> i, meta |-> m])
    BY DEF Asked, Command
  <2> QED
    BY <1>5, <2>1 DEF AddInstance
<1>6. ASSUME NEW w \in Writers, SetMeta(w) PROVE \E cmd : Asked(cmd) /\ Request(cmd)
  <2>1. PICK l \in Ids \cup {None} :
          /\ Request([type |-> "setMeta", base |-> read[w].index,
                      value |-> read[w].value + 1, leader |-> l])
          /\ l # None => LeaderWrites
    BY <1>6 DEF SetMeta
  <2>2. read[w].index \in Nat /\ read[w].value + 1 \in Nat
    BY DEF Types, Meta
  <2>3. Asked([type |-> "setMeta", base |-> read[w].index,
               value |-> read[w].value + 1, leader |-> l])
    BY <2>1, <2>2 DEF Asked, Command
  <2> QED
    BY <2>1, <2>3
<1>7. ASSUME NEW s \in Servers, NEW i \in Ids, SetLeader(s, i)
      PROVE  \E cmd : Asked(cmd) /\ Request(cmd)
  <2>1. Asked([type |-> "setLeader", id |-> i])
    BY <1>7 DEF Asked, Command, SetLeader
  <2> QED
    BY <1>7, <2>1 DEF SetLeader
<1> QED
  BY <1>1, <1>2, <1>3, <1>4, <1>5, <1>6, <1>7, Zenon DEF Next

LEMMA LogFacts ==
  ASSUME Types
  PROVE  /\ Len(hist) \in Nat /\ Len(hist) >= 1 /\ DOMAIN hist = 1..Len(hist)
         /\ Committed \in Data
         /\ \A k \in 1..Len(hist) : hist[k].data \in Data /\ hist[k].data.meta \in Meta
  <1>1. IsSeq(hist) /\ Len(hist) >= 1
    BY DEF Types
  <1>2. Len(hist) \in Nat /\ DOMAIN hist = 1..Len(hist)
    BY <1>1, Appended
  <1> QED
    BY <1>1, <1>2 DEF Types, Applied, Committed, Data, Meta

(* An entry is appended to the log. *)
LEMMA Commits ==
  ASSUME Setting, Types, NEW cmd \in requests, CommitRequest(cmd)
  PROVE  \E o : /\ Effect(Committed, cmd, Len(hist), o)
                /\ Elects(cmd) => LeaderEffect(Committed, o)
                /\ IsSeq(hist') /\ Len(hist') = Len(hist) + 1
                /\ \A k \in 1..Len(hist) : hist'[k] = hist[k]
                /\ hist'[Len(hist) + 1] = o
<1>1. PICK o : o = Apply(Committed, cmd, Len(hist))
  OBVIOUS
<1>2. hist' = Append(hist, o)
  BY <1>1 DEF CommitRequest
<1>3. Committed \in Data /\ cmd \in Command /\ Len(hist) \in Nat
  BY LogFacts DEF Types
<1>4. Effect(Committed, cmd, Len(hist), o) /\ (Elects(cmd) => LeaderEffect(Committed, o))
  <2>1. PICK d \in Data, n \in Nat : d = Committed /\ n = Len(hist)
    BY <1>3
  <2>2. Effect(d, cmd, n, o) /\ (Elects(cmd) => LeaderEffect(d, o))
    BY <1>1, <1>3, <2>1, ApplyEffect
  <2> QED
    BY <2>1, <2>2
<1>5. IsSeq(hist)
  BY DEF Types
<1> QED
  BY <1>2, <1>4, <1>5, Appended

LEMMA TypesNext == ASSUME Setting, Types, [Next]_vars PROVE Types'
<1>1. CASE UNCHANGED vars
  BY <1>1 DEF vars, Types
<1>2. ASSUME NEW cmd, Asked(cmd), Request(cmd) PROVE Types'
  BY <1>2 DEF Request, Asked, Types
<1>3. ASSUME NEW cmd \in requests, DropRequest(cmd) PROVE Types'
  BY <1>3 DEF DropRequest, Types
<1>4. ASSUME NEW cmd \in requests, CommitRequest(cmd) PROVE Types'
  <2>1. PICK o : /\ Effect(Committed, cmd, Len(hist), o)
                 /\ IsSeq(hist') /\ Len(hist') = Len(hist) + 1
                 /\ \A k \in 1..Len(hist) : hist'[k] = hist[k]
                 /\ hist'[Len(hist) + 1] = o
    BY <1>4, Commits
  <2>2. UNCHANGED <<leader, server, read, restarts>> /\ requests' \subseteq requests
        /\ Len(hist) <= MaxLog
    BY <1>4 DEF CommitRequest
  <2>3. Len(hist) \in Nat /\ Len(hist) >= 1
    BY LogFacts
  <2>4. \A k \in 1..Len(hist') : Applied(hist'[k])
    BY <2>1, <2>3 DEF Types, Effect
  <2>5. \A s \in Servers : server'[s].applied <= Len(hist')
    BY <2>1, <2>2, <2>3 DEF Types, ServerState
  <2> QED
    BY <2>1, <2>2, <2>3, <2>4, <2>5 DEF Types, Setting
<1>5. ASSUME NEW w \in Writers, NEW s \in Servers, GetMeta(w, s) PROVE Types'
  <2>1. DataAt(s).meta \in Meta
    BY LogFacts DEF Types, ServerState, DataAt
  <2> QED
    BY <1>5, <2>1 DEF GetMeta, Types
<1>6. ASSUME NEW s \in Servers, ApplyEntry(s) \/ Elect(s) \/ Restore(s) PROVE Types'
  <2>1. UNCHANGED <<hist, requests, read>> /\ leader' \in Servers
    BY <1>6 DEF ApplyEntry, Elect, Restore, Types
  <2>2. server' \in [Servers -> ServerState] /\ \A t \in Servers : server'[t].applied <= Len(hist)
    <3>0. Len(hist) \in Nat /\ server \in [Servers -> ServerState] /\ server[s].applied <= Len(hist)
      BY LogFacts DEF Types
    <3>1. CASE Elect(s)
      BY <3>1 DEF Elect, Types
    <3>2. CASE ApplyEntry(s)
      <4>1. PICK x \in ServerState : server' = [server EXCEPT ![s] = x] /\ x.applied <= Len(hist)
        <5> DEFINE y == server[s]
                   a == [y EXCEPT !.applied = server[s].applied + 1]
                   b == [y EXCEPT !.up = FALSE]
        <5>1. server' = [server EXCEPT ![s] = a] \/ server' = [server EXCEPT ![s] = b]
          BY <3>2 DEF ApplyEntry
        <5>2. y \in ServerState
          BY <3>0
        <5>3. b \in ServerState /\ b.applied = y.applied
          BY <5>2 DEF ServerState
        <5>4. y.applied + 1 \in Nat \ {0} /\ y.applied + 1 <= Len(hist)
          BY <3>0, <3>2, <5>2 DEF ApplyEntry, ServerState
        <5>5. a \in ServerState /\ a.applied = y.applied + 1
          BY <5>2, <5>4 DEF ServerState
        <5> HIDE DEF a, b
        <5> QED
          BY <3>0, <5>1, <5>3, <5>4, <5>5
      <4> QED
        BY <3>0, <4>1 DEF Types
    <3>3. CASE Restore(s)
      <4>1. PICK k \in 1..server[s].applied :
              server' = [server EXCEPT ![s] =
                          [applied |-> k, nil |-> EmptyMaps(hist[k].data), up |-> TRUE]]
        BY <3>3 DEF Restore
      <4>2. EmptyMaps(hist[k].data) \in SUBSET Maps
        BY DEF EmptyMaps
      <4>3. PICK x \in ServerState : server' = [server EXCEPT ![s] = x] /\ x.applied <= Len(hist)
        <5>1. k \in Nat \ {0} /\ k <= Len(hist)
          BY <3>0 DEF ServerState
        <5> DEFINE x == [applied |-> k, nil |-> EmptyMaps(hist[k].data), up |-> TRUE]
        <5>2. x \in ServerState /\ x.applied = k
          BY <4>2, <5>1 DEF ServerState
        <5>3. server' = [server EXCEPT ![s] = x]
          BY <4>1
        <5> HIDE DEF x
        <5> QED
          BY <5>1, <5>2, <5>3
      <4> QED
        BY <3>0, <4>3 DEF Types
    <3> QED
      BY <1>6, <3>1, <3>2, <3>3
  <2>3. restarts' \in 0..MaxRestarts
    BY <1>6 DEF ApplyEntry, Elect, Restore, Types, Setting
  <2> QED
    BY <2>1, <2>2, <2>3 DEF Types
<1> QED
  BY <1>1, <1>2, <1>3, <1>4, <1>5, <1>6, StepSplit

LEMMA TypesInit == ASSUME Setting, Init PROVE Types
<1>1. hist = <<Outcome(newRaftData, <<>>, {})>>
  BY DEF Init
<1>2. Len(hist) = 1 /\ hist[1] = Outcome(newRaftData, <<>>, {}) /\ IsSeq(hist)
  BY <1>1, Short
<1>3. Applied(hist[1])
  BY <1>2, AbsentType DEF Applied, Outcome
<1>4. server \in [Servers -> ServerState] /\ \A s \in Servers : server[s].applied = 1
  <2>1. [applied |-> 1, nil |-> {}, up |-> TRUE] \in ServerState
    BY DEF ServerState
  <2> QED
    BY <2>1 DEF Init
<1>5. read \in [Writers -> Meta] /\ requests = {} /\ leader \in Servers /\ restarts = 0
  BY AbsentType DEF Init
<1> QED
  BY <1>2, <1>3, <1>4, <1>5 DEF Types, Setting

-----------------------------------------------------------------------------
(* The index of an instance, and the metadata. *)

Epoch(k) ==
  \A i \in Ids :
    LET x == hist[k].data.insts[i].index IN
    x > 0 => /\ x < k /\ hist[x].data.insts[i] = Absent
             /\ \A j \in x+1..k : hist[j].data.insts[i].index = x

(* The index of the metadata is an earlier entry's, and says what it is. *)
Identified(k) ==
  /\ hist[k].data.meta.index < k
  /\ \A j \in 1..Len(hist) :
       hist[j].data.meta.index = hist[k].data.meta.index => hist[j].data.meta = hist[k].data.meta

Was(base, value) ==
  \E k \in 1..Len(hist) : hist[k].data.meta.index = base /\ hist[k].data.meta.value = value

Follows(k) ==
  LET old == hist[k - 1].data.meta
      new == hist[k].data.meta
  IN  new = old \/ new = NoMeta \/ new.value = old.value + 1

Inv ==
  /\ Types
  /\ \A k \in 1..Len(hist) : Epoch(k) /\ Identified(k) /\ (k > 1 => Follows(k))
  /\ \A w \in Writers : Was(read[w].index, read[w].value)
  /\ \A cmd \in requests : cmd.type = "setMeta" =>
       \E v \in Nat : cmd.value = v + 1 /\ Was(cmd.base, v)

LEMMA InvInit == ASSUME Setting, Init PROVE Inv
<1>1. Types
  BY TypesInit
<1>2. Len(hist) = 1 /\ hist[1].data = newRaftData
  BY DEF Init, Outcome
<1>3. /\ hist[1].data.meta = NoMeta /\ \A i \in Ids : hist[1].data.insts[i] = Absent
  BY <1>2 DEF newRaftData
<1>4. Epoch(1) /\ Identified(1)
  BY <1>2, <1>3 DEF Epoch, Identified, NoMeta, Absent
<1>5. Was(0, 0) /\ NoMeta.index = 0 /\ NoMeta.value = 0
  BY <1>2, <1>3 DEF Was, NoMeta
<1>6. requests = {} /\ \A w \in Writers : read[w] = NoMeta
  BY DEF Init
<1> QED
  BY <1>1, <1>2, <1>4, <1>5, <1>6 DEF Inv

(* A step that leaves the log alone. *)
LEMMA Unlogged ==
  ASSUME Inv, Types', UNCHANGED hist,
         \A w \in Writers : Was(read'[w].index, read'[w].value),
         \A cmd \in requests' : cmd.type = "setMeta" =>
           \E v \in Nat : cmd.value = v + 1 /\ Was(cmd.base, v)
  PROVE  Inv'
<1>1. \A k \in 1..Len(hist') : Epoch(k)' /\ Identified(k)' /\ (k > 1 => Follows(k)')
  BY DEF Inv, Epoch, Identified, Follows
<1>2. \A w \in Writers : Was(read[w].index, read[w].value)'
  BY DEF Was
<1>3. \A cmd \in requests' : cmd.type = "setMeta" =>
           \E v \in Nat : cmd.value = v + 1 /\ Was(cmd.base, v)'
  BY DEF Was
<1> QED
  BY <1>1, <1>2, <1>3 DEF Inv

LEMMA CommitStep ==
  ASSUME Setting, Inv, Types', NEW cmd \in requests, CommitRequest(cmd) PROVE Inv'
<1>0. PICK L : L = Len(hist)
  OBVIOUS
<1>1. Types
  BY DEF Inv
<1>2. PICK o : /\ Effect(Committed, cmd, L, o)
               /\ Len(hist') = L + 1 /\ \A k \in 1..L : hist'[k] = hist[k]
               /\ hist'[L + 1] = o
  BY <1>0, <1>1, Commits
<1>3. L \in Nat /\ L >= 1 /\ Committed = hist[L].data
  BY <1>0, <1>1, LogFacts DEF Committed
<1>4. UNCHANGED read /\ requests' \subseteq requests
  BY DEF CommitRequest
<1>5. /\ \A k \in 1..L : hist[k].data \in Data /\ hist[k].data.meta \in Meta
      /\ o.data \in Data /\ o.data.meta \in Meta
  BY <1>0, <1>1, <1>2, LogFacts DEF Effect, Applied, Data, Meta
<1>6. ASSUME NEW k \in 1..L PROVE Epoch(k)'
  <2>1. Epoch(k)
    BY <1>0, <1>6 DEF Inv
  <2>2. ASSUME NEW i \in Ids, hist[k].data.insts[i].index > 0
        PROVE  /\ hist'[k].data.insts[i].index = hist[k].data.insts[i].index
               /\ hist[k].data.insts[i].index \in 1..L
               /\ \A j \in hist[k].data.insts[i].index + 1 .. k : j \in 1..L
    BY <1>2, <1>3, <1>5, <1>6, <2>1, <2>2 DEF Epoch, Data, Inst
  <2> QED
    BY <1>2, <1>6, <2>1, <2>2 DEF Epoch
<1>7. Epoch(L + 1)'
  <2> SUFFICES ASSUME NEW i \in Ids, o.data.insts[i].index > 0
               PROVE  LET x == o.data.insts[i].index IN
                      /\ x < L + 1 /\ hist'[x].data.insts[i] = Absent
                      /\ \A j \in x+1..L+1 : hist'[j].data.insts[i].index = x
    BY <1>2 DEF Epoch
  <2>1. CASE o.data.insts[i].index = Committed.insts[i].index
    <3>1. PICK x : x = o.data.insts[i].index
      OBVIOUS
    <3>2. /\ x < L /\ hist[x].data.insts[i] = Absent
          /\ \A j \in x+1..L : hist[j].data.insts[i].index = x
      <4>1. Epoch(L)
        BY <1>0, <1>3 DEF Inv
      <4>2. hist[L].data.insts[i].index = x /\ x > 0
        BY <1>3, <2>1, <3>1
      <4> QED
        BY <4>1, <4>2 DEF Epoch
    <3>3. x \in Nat /\ x > 0
      BY <1>5, <3>1 DEF Data, Inst
    <3>4. hist'[x] = hist[x] /\ \A j \in x+1..L : hist'[j] = hist[j]
      BY <1>2, <1>3, <3>2, <3>3
    <3> QED
      BY <1>2, <1>3, <3>1, <3>2, <3>3, <3>4
  <2>2. CASE Committed.insts[i] = Absent /\ o.data.insts[i].index = L
    BY <1>2, <1>3, <2>2
  <2>3. o.data.insts[i] # Absent
    BY DEF Absent
  <2> QED
    BY <1>2, <2>1, <2>2, <2>3 DEF Effect
<1>8. \/ o.data.meta = hist[L].data.meta
      \/ o.data.meta = hist[1].data.meta /\ o.data.meta = NoMeta
      \/ /\ o.data.meta.index = L /\ o.data.meta.value = hist[L].data.meta.value + 1
  <2>1. hist[1].data.meta = NoMeta
    BY <1>1 DEF Types, Outcome, newRaftData
  <2>2. ASSUME cmd.type = "setMeta", cmd.base = Committed.meta.index,
               o.data.meta = [index |-> L, value |-> cmd.value]
        PROVE  o.data.meta.index = L /\ o.data.meta.value = hist[L].data.meta.value + 1
    <3>1. PICK v \in Nat : cmd.value = v + 1 /\ Was(cmd.base, v)
      BY <2>2 DEF Inv
    <3>2. PICK k \in 1..L : hist[k].data.meta.index = cmd.base /\ hist[k].data.meta.value = v
      BY <1>0, <3>1 DEF Was
    <3>3. Identified(L) /\ k \in 1..Len(hist) /\ hist[k].data.meta.index = hist[L].data.meta.index
      BY <1>0, <1>3, <2>2, <3>2 DEF Inv
    <3>4. hist[k].data.meta = hist[L].data.meta
      BY <3>3 DEF Identified
    <3> QED
      BY <2>2, <3>1, <3>2, <3>4
  <2> QED
    BY <1>2, <1>3, <2>1, <2>2 DEF Effect
<1>9. Follows(L + 1)' /\ \A k \in 2..L : Follows(k)'
  <2>1. Follows(L + 1)'
    BY <1>2, <1>3, <1>8 DEF Follows
  <2>2. ASSUME NEW k \in 2..L PROVE Follows(k)'
    <3>1. Follows(k) /\ k \in 1..L /\ k - 1 \in 1..L
      BY <1>0, <1>3, <2>2 DEF Inv
    <3> QED
      BY <1>2, <3>1 DEF Follows
  <2> QED
    BY <2>1, <2>2
<1>10. ASSUME NEW k \in 1..L PROVE hist[k].data.meta.index \in Nat /\ hist[k].data.meta.index < L
  BY <1>0, <1>3, <1>5, <1>10 DEF Inv, Identified, Meta
<1>11. \A k \in 1..L + 1 : Identified(k)'
  <2>1. ASSUME NEW k \in 1..L, NEW j \in 1..L, hist[j].data.meta.index = hist[k].data.meta.index
        PROVE  hist[j].data.meta = hist[k].data.meta
    BY <1>0, <2>1 DEF Inv, Identified
  <2>2. ASSUME NEW k \in 1..L, hist[k].data.meta.index = o.data.meta.index
        PROVE  hist[k].data.meta = o.data.meta
    BY <1>3, <1>8, <1>10, <2>1, <2>2
  <2>3. o.data.meta.index < L + 1
    BY <1>3, <1>5, <1>8, <1>10 DEF Meta
  <2>4. ASSUME NEW k \in 1..L PROVE hist[k].data.meta.index < k
    BY <1>0, <2>4 DEF Inv, Identified
  <2>5. \A k \in 1..L + 1 : k \in 1..L \/ k = L + 1
    BY <1>3
  <2> QED
    BY <1>2, <1>3, <2>1, <2>2, <2>3, <2>4, <2>5 DEF Identified
<1>12. \A base, value : Was(base, value) => Was(base, value)'
  BY <1>0, <1>2, <1>3 DEF Was
<1>13. \A k \in 1..L + 1 : Epoch(k)' /\ Identified(k)' /\ (k > 1 => Follows(k)')
  <2>1. \A k \in 1..L + 1 : k \in 1..L \/ k = L + 1
    BY <1>3
  <2>2. \A k \in 1..L + 1 : k > 1 => k \in 2..L \/ k = L + 1
    BY <1>3
  <2> QED
    BY <1>6, <1>7, <1>9, <1>11, <2>1, <2>2
<1>14. \A w \in Writers : Was(read[w].index, read[w].value)'
  BY <1>4, <1>12, <1>5 DEF Inv
<1>15. \A c \in requests' : c.type = "setMeta" =>
         \E v \in Nat : c.value = v + 1 /\ Was(c.base, v)'
  BY <1>4, <1>12 DEF Inv
<1> QED
  BY <1>0, <1>2, <1>13, <1>14, <1>15 DEF Inv

LEMMA InvNext == ASSUME Setting, Inv, [Next]_vars PROVE Inv'
<1>1. Types /\ Types'
  BY TypesNext DEF Inv
<1>2. CASE UNCHANGED vars
  BY <1>1, <1>2, Unlogged DEF Inv, vars
<1>3. ASSUME NEW cmd, Asked(cmd), Request(cmd) PROVE Inv'
  <2>1. UNCHANGED <<hist, read>> /\ requests' = requests \cup {cmd}
    BY <1>3 DEF Request
  <2>2. cmd.type = "setMeta" => \E v \in Nat : cmd.value = v + 1 /\ Was(cmd.base, v)
    BY <1>1, <1>3 DEF Asked, Inv, Types, Meta
  <2> QED
    BY <1>1, <2>1, <2>2, Unlogged DEF Inv
<1>4. ASSUME NEW cmd \in requests, DropRequest(cmd) PROVE Inv'
  BY <1>1, <1>4, Unlogged DEF Inv, DropRequest
<1>5. ASSUME NEW cmd \in requests, CommitRequest(cmd) PROVE Inv'
  BY <1>1, <1>5, CommitStep
<1>6. ASSUME NEW w \in Writers, NEW s \in Servers, GetMeta(w, s) PROVE Inv'
  <2>1. UNCHANGED <<hist, requests>> /\ read' = [read EXCEPT ![w] = DataAt(s).meta]
    BY <1>6 DEF GetMeta
  <2>2. server[s].applied \in 1..Len(hist)
    BY <1>1, LogFacts DEF Types, ServerState
  <2>3. Was(DataAt(s).meta.index, DataAt(s).meta.value)
    BY <2>2 DEF Was, DataAt
  <2>4. \A v \in Writers : read'[v] = IF v = w THEN DataAt(s).meta ELSE read[v]
    BY <1>1, <2>1 DEF Types
  <2> QED
    BY <1>1, <2>1, <2>3, <2>4, Unlogged DEF Inv
<1>7. ASSUME NEW s \in Servers, ApplyEntry(s) \/ Elect(s) \/ Restore(s) PROVE Inv'
  BY <1>1, <1>7, Unlogged DEF Inv, ApplyEntry, Elect, Restore
<1> QED
  BY <1>1, <1>2, <1>3, <1>4, <1>5, <1>6, <1>7, StepSplit

(* Entries of the log, servers and what writers have read keep their types, *)
(* whatever commands raftApply orders and wherever servers restart.        *)
THEOREM StoreTypes == ASSUME Setting PROVE Spec => []TypeOK
<1>1. Init => Types
  BY TypesInit
<1>2. Types /\ [Next]_vars => Types'
  BY TypesNext
<1>3. Types => TypeOK
  BY LogFacts DEF Types, TypeOK, Applied, Meta, Setting
<1> QED
  BY <1>1, <1>2, <1>3, PTL DEF Spec

(* The index of an instance is the entry that registered it, which no      *)
(* update changes (applyAddInstanceCommand), until the instance leaves.    *)
THEOREM InstanceIndex == ASSUME Setting PROVE Spec => []IndexIsEpoch
<1>1. Init => Inv
  BY InvInit
<1>2. Inv /\ [Next]_vars => Inv'
  BY InvNext
<1>3. Inv => IndexIsEpoch
  BY LogFacts DEF Inv, Epoch, IndexIsEpoch
<1> QED
  BY <1>1, <1>2, <1>3, PTL DEF Spec

(* applySetServiceMetaCommand accepts only a write that replaces what its  *)
(* writer had read, although servers lag and services are removed and      *)
(* added again: no increment is lost.                                      *)
THEOREM MetadataKept == ASSUME Setting PROVE Spec => []NoLostUpdate
<1>1. Init => Inv
  BY InvInit
<1>2. Inv /\ [Next]_vars => Inv'
  BY InvNext
<1>3. Inv => NoLostUpdate
  BY LogFacts DEF Inv, Follows, NoLostUpdate
<1> QED
  BY <1>1, <1>2, <1>3, PTL DEF Spec

-----------------------------------------------------------------------------
(* The leader. *)

(* The service is not removed, and no leader is set by hand. *)
Steered == Setting /\ ~Removals /\ ~LeaderWrites

Leads(d) == d.leader = Oldest(d) \/ (d.leader = "unset" /\ Registered(d) = {})

(* Subscribers were told last what the store would answer. *)
Sound(k) ==
  LET d == hist[k].data IN
  /\ IsSeq(hist[k].events)
  /\ LeaderEvents(k) = {} \/ Last(LeaderEvents(k)) \in LeaderEvents(k)
  /\ d.config = "oldest" => Leads(d) /\ LeaderTold(k) = Oldest(d)
  /\ d.config = "none" => Registered(d) = {} /\ d.leader = "unset" /\ LeaderTold(k) = None

LeaderInv ==
  /\ Types
  /\ \A cmd \in requests : Elects(cmd)
  /\ \A k \in 1..Len(hist) : Sound(k)

LEMMA LastNew ==
  ASSUME NEW S, NEW a \in Nat, NEW b \in Nat, \A p \in S : p[1] \in Nat /\ p[1] < a
  PROVE  Last(S \cup {<<a, b>>}) = <<a, b>>
<1> DEFINE T == S \cup {<<a, b>>}
           P(p) == \A q \in T : q[1] < p[1] \/ (q[1] = p[1] /\ q[2] <= p[2])
<1>1. P(<<a, b>>)
  OBVIOUS
<1>2. ASSUME NEW p \in T, P(p) PROVE p = <<a, b>>
  <2>1. <<a, b>> \in T /\ <<a, b>>[1] = a /\ <<a, b>>[2] = b
    OBVIOUS
  <2>2. a < p[1] \/ a = p[1]
    BY <1>2, <2>1, Zenon
  <2>3. p \notin S
    <3>1. SUFFICES ASSUME p \in S PROVE FALSE
      OBVIOUS
    <3>2. p[1] \in Nat /\ p[1] < a
      BY <3>1
    <3> HIDE DEF P, T
    <3> QED
      BY <2>2, <3>2
  <2> QED
    BY <1>2, <2>3
<1> HIDE DEF P
<1>3. (CHOOSE p \in T : P(p)) = <<a, b>>
  BY <1>1, <1>2
<1> QED
  BY <1>3, Zenon DEF Last, P

(* Leader events that are in the log stay what they are. *)
LEMMA ToldSame ==
  ASSUME Types, NEW k \in 1..Len(hist), \A j \in 1..Len(hist) : hist'[j] = hist[j]
  PROVE  /\ LeaderEvents(k)' = LeaderEvents(k)
         /\ LeaderEvents(k) = {} \/ Last(LeaderEvents(k)) \in LeaderEvents(k) =>
              LeaderTold(k)' = LeaderTold(k)
<1>1. \A j \in 2..k : hist'[j] = hist[j]
  BY LogFacts
<1>2. LeaderEvents(k)' = LeaderEvents(k)
  BY <1>1 DEF LeaderEvents
<1>3. ASSUME Last(LeaderEvents(k)) \in LeaderEvents(k)
      PROVE  hist'[Last(LeaderEvents(k))[1]] = hist[Last(LeaderEvents(k))[1]]
  <2>1. \A p \in LeaderEvents(k) : p[1] \in 2..k
    BY DEF LeaderEvents
  <2> QED
    BY <1>1, <1>3, <2>1
<1>4. Last(LeaderEvents(k))' = Last(LeaderEvents(k))
  BY <1>2 DEF Last
<1>5. CASE LeaderEvents(k) = {}
  BY <1>2, <1>5 DEF LeaderTold
<1>6. CASE LeaderEvents(k) # {}
  BY <1>2, <1>3, <1>4, <1>6 DEF LeaderTold
<1> QED
  BY <1>2, <1>5, <1>6

LEMMA OldestIsLeader ==
  ASSUME Setting, NEW d \in Data, Leads(d)
  PROVE  Prev(d) = Oldest(d) /\ serviceLeader(d) = Oldest(d)
<1>1. Oldest(d) # "unset" /\ None \notin Registered(d)
  BY OldestType DEF Registered, Setting, None
<1>2. Registered(d) = {} => Oldest(d) = None
  BY DEF Oldest
<1> QED
  BY <1>1, <1>2, OldestType DEF Leads, Prev, serviceLeader

LEMMA LeaderCommit ==
  ASSUME Steered, LeaderInv, Types', NEW cmd \in requests, CommitRequest(cmd)
  PROVE  LeaderInv'
<1>0. PICK L : L = Len(hist)
  OBVIOUS
<1>1. Types /\ Setting /\ Elects(cmd)
  BY DEF LeaderInv, Steered
<1>2. PICK d : d = Committed
  OBVIOUS
<1>3. PICK o : /\ Effect(d, cmd, L, o) /\ LeaderEffect(d, o)
               /\ Len(hist') = L + 1 /\ \A k \in 1..L : hist'[k] = hist[k]
               /\ hist'[L + 1] = o
  BY <1>0, <1>1, <1>2, Commits
<1>4. /\ L \in Nat /\ L >= 1 /\ d = hist[L].data /\ d \in Data /\ o.data \in Data
  BY <1>0, <1>1, <1>2, <1>3, LogFacts DEF Committed, Effect, Applied
<1>5. ASSUME NEW k \in 1..L PROVE Sound(k)'
  <2>1. Sound(k) /\ hist'[k] = hist[k]
    BY <1>0, <1>3, <1>5 DEF LeaderInv
  <2>2. LeaderEvents(k)' = LeaderEvents(k) /\ LeaderTold(k)' = LeaderTold(k)
    BY <1>0, <1>1, <1>3, <1>5, <2>1, ToldSame DEF Sound
  <2>3. Last(LeaderEvents(k))' = Last(LeaderEvents(k))
    BY <2>2 DEF Last
  <2> QED
    BY <2>1, <2>2, <2>3 DEF Sound
<1>6. /\ Sound(L)
      /\ LeaderEvents(L)' = LeaderEvents(L) /\ LeaderTold(L)' = LeaderTold(L)
  <2>1. L \in 1..Len(hist) /\ Sound(L)
    BY <1>0, <1>4 DEF LeaderInv
  <2> QED
    BY <1>0, <1>1, <1>3, <2>1, ToldSame DEF Sound
<1> DEFINE E == LeaderEvents(L)
           New == {n \in DOMAIN o.events : o.events[n].kind = "leader"}
<1>7. IsSeq(o.events) /\ Len(o.events) \in Nat /\ DOMAIN o.events = 1..Len(o.events)
  BY <1>3, Appended DEF LeaderEffect
<1>8. PICK m : m = L + 1 /\ m \in Nat /\ m - 1 = L
  BY <1>4
<1>9. LeaderEvents(m)' = LeaderEvents(L)' \cup ({m} \X New)
  <2>1. \A j : j \in 2..m <=> j \in 2..L \/ j = m
    BY <1>4, <1>8
  <2>2. hist'[m] = o
    BY <1>3, <1>8
  <2> QED
    BY <2>1, <2>2 DEF LeaderEvents
<1>10. ASSUME Silent(o.events)
       PROVE  /\ LeaderEvents(m)' = LeaderEvents(L)
              /\ LeaderTold(m)' = LeaderTold(L)
  <2>1. New = {}
    BY <1>7, <1>10 DEF Silent
  <2>2. LeaderEvents(m)' = LeaderEvents(L)'
    BY <1>9, <2>1
  <2>3. LeaderTold(m)' = LeaderTold(L)'
    BY <2>2 DEF LeaderTold
  <2> QED
    BY <1>6, <2>2, <2>3
<1>11. ASSUME Announces(o)
       PROVE  /\ Last(LeaderEvents(m)') \in LeaderEvents(m)'
              /\ LeaderTold(m)' = o.data.leader
  <2>1. New = {Len(o.events)}
    BY <1>7, <1>11 DEF Announces
  <2>2. LeaderEvents(m)' = LeaderEvents(L) \cup {<<m, Len(o.events)>>}
    BY <1>6, <1>9, <2>1
  <2>3. \A p \in LeaderEvents(L) : p[1] \in Nat /\ p[1] < m
    BY <1>4, <1>8 DEF LeaderEvents
  <2>4. PICK S : S = LeaderEvents(L)
    OBVIOUS
  <2>5. Last(S \cup {<<m, Len(o.events)>>}) = <<m, Len(o.events)>>
    BY <1>7, <1>8, <2>3, <2>4, LastNew
  <2>6. LeaderEvents(m)' = S \cup {<<m, Len(o.events)>>} /\ LeaderEvents(m)' # {}
    BY <2>2, <2>4
  <2>7. Last(LeaderEvents(m)') = <<m, Len(o.events)>>
    BY <2>5, <2>6
  <2>8. LeaderTold(m)' = hist'[m].events[Len(o.events)].id
    BY <2>6, <2>7 DEF LeaderTold
  <2> QED
    BY <1>3, <1>8, <1>11, <2>6, <2>7, <2>8 DEF Announces
<1> HIDE DEF New, E
<1>12. hist'[m] = o
  BY <1>3, <1>8
<1>13. /\ d.config = "oldest" => Leads(d) /\ LeaderTold(L) = Oldest(d) /\ Prev(d) = Oldest(d)
       /\ d.config = "none" =>
            Registered(d) = {} /\ d.leader = "unset" /\ LeaderTold(L) = None
       /\ LeaderEvents(L) = {} \/ Last(LeaderEvents(L)) \in LeaderEvents(L)
  BY <1>1, <1>4, <1>6, OldestIsLeader DEF Sound
<1>14. Sound(m)'
  <2>1. CASE Silent(o.events) /\ o.data.insts = d.insts /\ o.data.leader = d.leader
             /\ (o.data.config = d.config \/ d.config = "none")
    <3>1. Oldest(o.data) = Oldest(d) /\ Registered(o.data) = Registered(d)
      BY <2>1, OldestSame
    <3>2. Registered(d) = {} => Oldest(d) = None
      BY DEF Oldest
    <3> QED
      BY <1>7, <1>10, <1>12, <1>13, <2>1, <3>1, <3>2 DEF Sound, Leads
  <2>2. CASE d.config # "oldest" /\ Silent(o.events) /\ o.data.config = d.config
             /\ o.data.leader = d.leader
             /\ (d.config = "none" /\ Registered(d) = {} => Registered(o.data) = {})
    BY <1>7, <1>10, <1>12, <1>13, <2>2 DEF Sound
  <2>3. CASE d.config = "oldest" /\ o.data.config = "oldest" /\ o.data.leader = Oldest(o.data)
             /\ IF o.data.leader = Prev(d) THEN Silent(o.events) ELSE Announces(o)
    BY <1>7, <1>10, <1>11, <1>12, <1>13, <2>3 DEF Sound, Leads
  <2> QED
    BY <1>3, <2>1, <2>2, <2>3 DEF LeaderEffect
<1>15. \A k \in 1..Len(hist') : Sound(k)'
  <2>1. \A k \in 1..Len(hist') : k \in 1..L \/ k = m
    BY <1>3, <1>4, <1>8
  <2> QED
    BY <1>5, <1>14, <2>1
<1>16. requests' \subseteq requests
  BY DEF CommitRequest
<1> QED
  BY <1>15, <1>16 DEF LeaderInv

LEMMA LeaderNext == ASSUME Steered, LeaderInv, [Next]_vars PROVE LeaderInv'
<1>1. Types /\ Types' /\ Setting
  BY TypesNext DEF LeaderInv, Steered
<1>2. ASSUME UNCHANGED hist, \A cmd \in requests' : Elects(cmd) PROVE LeaderInv'
  <2>1. ASSUME NEW k \in 1..Len(hist) PROVE Sound(k)'
    <3>1. Sound(k) /\ hist'[k] = hist[k]
      BY <1>2, <2>1 DEF LeaderInv
    <3>2. LeaderEvents(k)' = LeaderEvents(k) /\ LeaderTold(k)' = LeaderTold(k)
      BY <1>1, <1>2, <2>1, <3>1, ToldSame DEF Sound
    <3>3. Last(LeaderEvents(k))' = Last(LeaderEvents(k))
      BY <3>2 DEF Last
    <3> QED
      BY <3>1, <3>2, <3>3 DEF Sound
  <2> QED
    BY <1>1, <1>2, <2>1 DEF LeaderInv
<1>3. ASSUME NEW cmd, Asked(cmd), Request(cmd) PROVE LeaderInv'
  <2>1. UNCHANGED hist /\ requests' = requests \cup {cmd}
    BY <1>3 DEF Request
  <2>2. Elects(cmd)
    BY <1>3 DEF Steered, Asked, Elects
  <2> QED
    BY <1>2, <2>1, <2>2 DEF LeaderInv
<1>4. ASSUME NEW cmd \in requests, CommitRequest(cmd) PROVE LeaderInv'
  BY <1>1, <1>4, LeaderCommit
<1>5. CASE \/ UNCHANGED vars
           \/ \E cmd \in requests : DropRequest(cmd)
           \/ \E w \in Writers, s \in Servers : GetMeta(w, s)
           \/ \E s \in Servers : ApplyEntry(s) \/ Elect(s) \/ Restore(s)
  <2>1. UNCHANGED hist /\ requests' \subseteq requests
    BY <1>5 DEF vars, DropRequest, GetMeta, ApplyEntry, Elect, Restore
  <2> QED
    BY <1>2, <2>1 DEF LeaderInv
<1> QED
  BY <1>1, <1>3, <1>4, <1>5, StepSplit

(* Without removals and leaders set by hand, invalidateServiceLeader makes *)
(* the oldest instance the leader after every entry, and a subscriber that *)
(* is told leader events only knows it.                                    *)
THEOREM LeaderIsOldest == ASSUME Steered PROVE Spec => []OldestLeads
<1>1. Init => LeaderInv
  <2> SUFFICES ASSUME Init PROVE LeaderInv
    OBVIOUS
  <2>1. Types /\ requests = {}
    BY TypesInit DEF Steered, Init
  <2>2. Len(hist) = 1 /\ hist[1].data = newRaftData /\ hist[1].events = <<>>
    BY DEF Init, Outcome
  <2>3. LeaderEvents(1) = {}
    BY DEF LeaderEvents
  <2>4. /\ newRaftData.config = "none" /\ newRaftData.leader = "unset"
        /\ Registered(newRaftData) = {}
    BY DEF newRaftData, Registered
  <2>5. Sound(1)
    BY <2>2, <2>3, <2>4, Short DEF Sound, LeaderTold
  <2> QED
    BY <2>1, <2>2, <2>5 DEF LeaderInv
<1>2. LeaderInv /\ [Next]_vars => LeaderInv'
  BY LeaderNext
<1>3. LeaderInv => OldestLeads
  BY LogFacts, OldestIsLeader DEF LeaderInv, Sound, OldestLeads, Steered
<1> QED
  BY <1>1, <1>2, <1>3, PTL DEF Spec

-----------------------------------------------------------------------------
(* The commands of the watch's log are those of the store. *)

LEMMA SameRegistered == ASSUME NEW d PROVE Watch!Registered(d) = Registered(d)
BY DEF Watch!Registered, Registered, Watch!Absent, Absent, Watch!None, None

LEMMA SameInvalidate ==
  ASSUME NEW d, NEW events, NEW writes
  PROVE  Watch!invalidateServiceLeader(d, events, writes) = invalidateServiceLeader(d, events, writes)
<1>1. Watch!Oldest(d) = Oldest(d)
  BY Zenon DEF Watch!Oldest, Oldest, Watch!None, None, Watch!Registered, Registered, Watch!Absent,
     Absent
<1>2. ASSUME NEW m, NEW i PROVE Watch!LeaderEvent(m, i) = LeaderEvent(m, i)
  BY Zenon DEF Watch!LeaderEvent, LeaderEvent, Watch!InstEvent, InstEvent, Watch!Absent, Absent,
     Watch!None, None
<1>3. ASSUME NEW m, NEW e, NEW w PROVE Watch!Outcome(m, e, w) = Outcome(m, e, w)
  BY Zenon DEF Watch!Outcome, Outcome
<1>4. Watch!None = None
  BY DEF Watch!None, None
<1> DEFINE n == [d EXCEPT !.leader = Oldest(d)]
           prev == IF d.leader = "unset" THEN None ELSE d.leader
           e == LeaderEvent(n, n.leader)
           told == IF n.leader = prev THEN events ELSE Append(events, e)
<1>5. CASE d.config \in {"none", "manual"}
  BY <1>3, <1>5, Zenon DEF Watch!invalidateServiceLeader, invalidateServiceLeader
<1>6. CASE d.config \notin {"none", "manual"}
  <2>1. invalidateServiceLeader(d, events, writes) = Outcome(n, told, writes \cup {"Leaders"})
    BY <1>6 DEF invalidateServiceLeader
  <2>2. Watch!invalidateServiceLeader(d, events, writes) =
          Watch!Outcome([d EXCEPT !.leader = Watch!Oldest(d)],
            IF [d EXCEPT !.leader = Watch!Oldest(d)].leader =
                 IF d.leader = "unset" THEN Watch!None ELSE d.leader
            THEN events
            ELSE Append(events, Watch!LeaderEvent([d EXCEPT !.leader = Watch!Oldest(d)],
                                                  [d EXCEPT !.leader = Watch!Oldest(d)].leader)),
            writes \cup {"Leaders"})
    BY <1>6 DEF Watch!invalidateServiceLeader
  <2>3. [d EXCEPT !.leader = Watch!Oldest(d)] = n
    BY <1>1
  <2> HIDE DEF n
  <2> QED
    BY <1>2, <1>3, <1>4, <2>1, <2>2, <2>3
<1> QED
  BY <1>5, <1>6

LEMMA SameAdd ==
  ASSUME NEW d, NEW i, NEW m, NEW n
  PROVE  Watch!applyAddInstanceCommand(d, i, m, n) = applyAddInstanceCommand(d, i, m, n)
<1> DEFINE inst == [index |-> IF d.insts[i] = Absent THEN n ELSE d.insts[i].index, meta |-> m]
           kind == IF d.insts[i] = Absent THEN {"up"}
                   ELSE IF d.insts[i].meta # m THEN {"update"} ELSE {}
           new == [d EXCEPT !.insts[i] = inst, !.known = TRUE]
           evs == IF kind = {} THEN <<>> ELSE <<InstEvent(CHOOSE k \in kind : TRUE, i, inst)>>
           w == IF d.known THEN {} ELSE {"Instances"}
<1>1. applyAddInstanceCommand(d, i, m, n) =
        IF d.config = "none" THEN Refused(d) ELSE invalidateServiceLeader(new, evs, w)
  BY Zenon DEF applyAddInstanceCommand
<1>2. Watch!applyAddInstanceCommand(d, i, m, n) =
        IF d.config = "none" THEN Refused(d) ELSE Watch!invalidateServiceLeader(new, evs, w)
  BY Zenon DEF Watch!applyAddInstanceCommand, Watch!None, None, Watch!Refused, Refused,
     Watch!Outcome, Outcome, Watch!InstEvent, InstEvent, Watch!Absent, Absent
<1>3. Watch!invalidateServiceLeader(new, evs, w) = invalidateServiceLeader(new, evs, w)
  BY SameInvalidate, Zenon
<1> HIDE DEF new, evs, w
<1> QED
  BY <1>1, <1>2, <1>3

LEMMA SameRemove ==
  ASSUME NEW d, NEW i
  PROVE  Watch!applyRemoveInstanceCommand(d, i) = applyRemoveInstanceCommand(d, i)
BY SameInvalidate, Zenon DEF Watch!applyRemoveInstanceCommand, applyRemoveInstanceCommand,
   Watch!None, None, Watch!Refused, Refused, Watch!Outcome, Outcome, Watch!InstEvent, InstEvent,
   Watch!Absent, Absent

LEMMA SameSubsequence == ASSUME NEW s, NEW K PROVE Watch!Subsequence(s, K) = Subsequence(s, K)
<1>1. ASSUME NEW n PROVE Watch!Nth(K, n) = Nth(K, n)
  BY Zenon DEF Watch!Nth, Nth, Watch!Rank, Rank, Watch!Cardinality, Cardinality
<1>2. Watch!Cardinality(K) = Cardinality(K)
  BY DEF Watch!Cardinality, Cardinality
<1> QED
  BY <1>1, <1>2 DEF Watch!Subsequence, Subsequence

LEMMA SameExpire ==
  ASSUME NEW d, NEW ids
  PROVE  Watch!applyExpireInstancesCommand(d, ids) = applyExpireInstancesCommand(d, ids)
<1> DEFINE K == {k \in DOMAIN ids : d.insts[ids[k]] # Absent}
           gone == Subsequence(ids, K)
           n == [d EXCEPT !.insts = [i \in Ids |->
                   IF \E k \in DOMAIN gone : gone[k] = i THEN Absent ELSE d.insts[i]]]
           evs == [k \in DOMAIN gone |-> InstEvent("down", gone[k], d.insts[gone[k]])]
<1>1. applyExpireInstancesCommand(d, ids) =
        IF gone = <<>> THEN Refused(d) ELSE invalidateServiceLeader(n, evs, {})
  BY Zenon DEF applyExpireInstancesCommand
<1>2. Watch!applyExpireInstancesCommand(d, ids) =
        IF gone = <<>> THEN Refused(d) ELSE Watch!invalidateServiceLeader(n, evs, {})
  BY SameSubsequence, Zenon DEF Watch!applyExpireInstancesCommand, Watch!None, None, Watch!Absent, Absent,
     Watch!InstEvent, InstEvent, Watch!Refused, Refused, Watch!Outcome, Outcome
<1> QED
  BY <1>1, <1>2, SameInvalidate, Zenon

LEMMA SameSetMeta ==
  ASSUME NEW d, NEW b, NEW v, NEW n
  PROVE  Watch!applySetServiceMetaCommand(d, b, v, None, n) = applySetServiceMetaCommand(d, b, v, None, n)
BY SameRegistered, Zenon DEF Watch!applySetServiceMetaCommand, applySetServiceMetaCommand,
   Watch!None, None, Watch!Refused, Refused, Watch!Outcome, Outcome, Watch!LeaderEvent, LeaderEvent,
   Watch!InstEvent, InstEvent, Watch!Absent, Absent, Watch!MetaEvent, MetaEvent

-----------------------------------------------------------------------------
(* The inductive invariant of the watch. *)

(* The events on their way to the watch: those in the channel and those    *)
(* that are still being broadcast.                                         *)
Joining(b, t) ==
  [p \in 1..Len(b) + Len(t) |-> IF p <= Len(b) THEN b[p] ELSE t[p - Len(b)]]
Queue == Joining(wSub.buf, wServer.broadcasting)

WEvent ==
  [kind : {"up", "update"}, id : Ids, inst : Inst \ {Absent}]
    \cup [kind : {"down"}, id : Ids, inst : Inst]
    \cup [kind : {"leader"}, id : Ids \cup {None}, inst : Inst]
    \cup [kind : {"meta"}, meta : Meta] \cup [kind : {"current"}]

About(e, i) == e.kind \in {"up", "update", "down"} /\ e.id = i
Value(e) == IF e.kind = "down" THEN Absent ELSE e.inst
Unspoken(q, i) == \A p \in DOMAIN q : ~About(q[p], i)
LastAbout(q, p, i) == About(q[p], i) /\ \A r \in DOMAIN q : About(q[r], i) => r <= p

(* What the watch has of an instance once the current event has come. *)
Holds(w, i) == IF w.isCurrent \/ i \in w.current THEN w.insts[i] ELSE Absent

(* The last event about an instance says what the server has, and if there *)
(* is none, the watch has it.                                              *)
Instances(q, w, d) ==
  \A i \in Ids :
    /\ \A p \in DOMAIN q : LastAbout(q, p, i) => Value(q[p]) = d.insts[i]
    /\ Unspoken(q, i) => Holds(w, i) = d.insts[i]

(* An instance is updated while it is there. *)
Before(q, r, p, i) ==
  r < p /\ About(q[r], i) /\ \A s \in DOMAIN q : r < s /\ s < p => ~About(q[s], i)
Updates(q, w) ==
  \A p \in DOMAIN q : q[p].kind = "update" =>
    /\ \/ Holds(w, q[p].id) # Absent
       \/ \E r \in DOMAIN q : r < p /\ About(q[r], q[p].id)
    /\ \A r \in DOMAIN q : Before(q, r, p, q[p].id) => q[r].kind # "down"

Told(q, w, d) ==
  /\ \A p \in DOMAIN q :
       q[p].kind = "meta" /\ (\A r \in DOMAIN q : q[r].kind = "meta" => r <= p) => q[p].meta = d.meta
  /\ (\A p \in DOMAIN q : q[p].kind # "meta") /\ d.meta # NoMeta => w.meta = d.meta.index

Marked(q, w) ==
  IF w.state = "connected" /\ ~w.isCurrent
  THEN \E c \in DOMAIN q :
         /\ q[c].kind = "current"
         /\ \A p \in DOMAIN q : /\ p < c => q[p].kind \in {"up", "leader", "meta"}
                                /\ p > c => q[p].kind # "current"
  ELSE \A p \in DOMAIN q : q[p].kind # "current"

QueueInv(q, w, d) == Instances(q, w, d) /\ Updates(q, w) /\ Told(q, w, d) /\ Marked(q, w)

(* What an entry of the log broadcasts is what it changes. *)
Linked(d, o) ==
  /\ o.data \in Data /\ o.events \in Seq(WEvent)
  /\ \A p \in DOMAIN o.events :
       /\ o.events[p].kind # "current"
       /\ \A i \in Ids : About(o.events[p], i) => Value(o.events[p]) = o.data.insts[i]
       /\ o.events[p].kind = "update" => d.insts[o.events[p].id] # Absent
       /\ o.events[p].kind = "meta" => o.events[p].meta = o.data.meta
  /\ \A i \in Ids : Unspoken(o.events, i) => o.data.insts[i] = d.insts[i]
  /\ \A i \in Ids, p, r \in DOMAIN o.events : About(o.events[p], i) /\ About(o.events[r], i) => p = r
  /\ (\A p \in DOMAIN o.events : o.events[p].kind # "meta") => o.data.meta = d.meta

(* Instances have different indexes. *)
Distinct(d, k) ==
  \A i \in Registered(d) :
    /\ 0 < d.insts[i].index /\ d.insts[i].index < k
    /\ \A j \in Registered(d) : i # j => d.insts[i].index # d.insts[j].index

HistInv ==
  /\ IsSeq(wHist) /\ Len(wHist) >= 1
  /\ \A k \in 1..Len(wHist) : wHist[k].data \in Data /\ Distinct(wHist[k].data, k)
  /\ \A k \in 2..Len(wHist) : Linked(wHist[k - 1].data, wHist[k])

Peer == [id : Ids, index : Nat]
WatchTypes ==
  /\ wServer \in [applied : Nat, other : Nat, broadcasting : Seq(WEvent), stuck : BOOLEAN]
  /\ {wServer.applied, wServer.other} \subseteq 1..Len(wHist)
  /\ wSub \in [state : {"none", "open", "closed"}, closing : BOOLEAN, buf : Seq(WEvent)]
  /\ wWatch \in [state : {"disconnected", "connected", "reporting"}, insts : [Ids -> Inst],
                 leader : Ids \cup {None}, meta : Nat, isCurrent : BOOLEAN, current : SUBSET Ids]
  /\ wOut \in WEvent \cup {Watch!NoEvent}
  /\ wAdapter \in [peers : Seq(Peer), state : Nat, initialized : BOOLEAN, current : BOOLEAN,
                   sentPeers : Seq(Ids), sentIndex : Nat]
  /\ wFaults \in [disconnects : Nat, giveUps : Nat, snapshots : Nat]

(* The watch has missed nothing. *)
Live == wWatch.state # "disconnected" /\ ~wSub.closing /\ wFaults.snapshots = 0

Modes ==
  /\ Live /\ wWatch.isCurrent => wWatch.state = "connected"
  /\ wWatch.state = "disconnected" =>
       ~wWatch.isCurrent /\ wWatch.current = {} /\ wOut = Watch!NoEvent
  /\ wWatch.state # "disconnected" /\ ~wSub.closing => wSub.state = "open"
QueueOK == Live => QueueInv(Queue, wWatch, wHist[wServer.applied].data)

PeerIds(peers) == {peers[k].id : k \in DOMAIN peers}

(* What receiveEvents has, up to the event that is handed over. *)
Passed ==
  /\ wOut.kind \in {"up", "update"} => wWatch.insts[wOut.id] # Absent
  /\ wOut.kind = "down" => wWatch.insts[wOut.id] = Absent
  /\ \A i \in Ids : wWatch.insts[i] # Absent =>
       i \in PeerIds(wAdapter.peers) \/ (wOut.kind \in {"up", "update"} /\ wOut.id = i)
  /\ wFaults.giveUps = 0 => \A i \in PeerIds(wAdapter.peers) :
       wWatch.insts[i] # Absent \/ (wOut.kind = "down" /\ wOut.id = i)
  /\ IF wOut.kind = "meta" THEN wOut.meta.index = wWatch.meta ELSE wAdapter.state >= wWatch.meta

PeersSent ==
  /\ ~wAdapter.initialized => wAdapter.sentIndex = 0
  /\ wAdapter.current => wAdapter.sentIndex >= wAdapter.state
  /\ wWatch.isCurrent => wAdapter.current \/ wOut.kind = "current"
  /\ Live /\ wWatch.isCurrent /\ wOut.kind # "current" =>
       /\ wAdapter.sentPeers = Watch!IdsOf(wAdapter.peers)
       /\ wOut.kind = "update" => wOut.id \in PeerIds(wAdapter.peers)

WatchInv == HistInv /\ WatchTypes /\ Modes /\ QueueOK /\ Passed /\ PeersSent

-----------------------------------------------------------------------------
(* What an entry broadcasts is what it changes. *)

LEMMA EventTypes ==
  ASSUME NEW i \in Ids, NEW inst \in Inst
  PROVE  /\ InstEvent("down", i, inst) \in WEvent
         /\ inst # Absent => \A k \in {"up", "update"} : InstEvent(k, i, inst) \in WEvent
BY DEF InstEvent, WEvent

LEMMA LinkRefused == ASSUME NEW d \in Data PROVE Linked(d, Refused(d))
BY DEF Linked, Refused, Outcome

(* The leader is chosen after what is announced. *)
LEMMA LinkInvalidate ==
  ASSUME Setting, NEW d \in Data, NEW n \in Data, NEW events, NEW writes, NEW o,
         o = invalidateServiceLeader(n, events, writes),
         Linked(d, Outcome(n, events, writes))
  PROVE  Linked(d, o) /\ o.data.insts = n.insts
<1>1. events \in Seq(WEvent)
  BY DEF Linked, Outcome
<1>2. CASE n.config \in {"none", "manual"}
  BY <1>2 DEF invalidateServiceLeader, Outcome
<1>3. CASE n.config \notin {"none", "manual"}
  <2> DEFINE m == [n EXCEPT !.leader = Oldest(n)]
             e == LeaderEvent(m, m.leader)
             evs == IF m.leader = Prev(n) THEN events ELSE Append(events, e)
  <2>1. o = [data |-> m, events |-> evs, writes |-> writes \cup {"Leaders"}]
    BY <1>3 DEF invalidateServiceLeader, Outcome, Prev
  <2>2. Oldest(n) \in Ids \cup {None}
    BY OldestType DEF Registered
  <2>3. m \in Data /\ m.leader = Oldest(n) /\ m.insts = n.insts /\ m.meta = n.meta
    BY <2>2 DEF Data
  <2>4. e \in WEvent /\ e.kind = "leader"
    <3>1. m.insts \in [Ids -> Inst]
      BY <2>3 DEF Data
    <3> HIDE DEF m
    <3> QED
      BY <2>2, <2>3, <3>1, AbsentType DEF LeaderEvent, InstEvent, WEvent
  <2> HIDE DEF m, e
  <2>5. /\ evs \in Seq(WEvent) /\ Len(events) \in Nat
        /\ \A p \in DOMAIN evs : (p \in DOMAIN events /\ evs[p] = events[p]) \/ evs[p] = e
        /\ \A p \in DOMAIN events : p \in DOMAIN evs /\ evs[p] = events[p]
    BY <1>1, <2>4
  <2> HIDE DEF evs
  <2>6. /\ \A p \in DOMAIN events :
             /\ events[p].kind # "current"
             /\ \A i \in Ids : About(events[p], i) => Value(events[p]) = n.insts[i]
             /\ events[p].kind = "update" => d.insts[events[p].id] # Absent
             /\ events[p].kind = "meta" => events[p].meta = n.meta
        /\ \A i \in Ids : Unspoken(events, i) => n.insts[i] = d.insts[i]
        /\ \A i \in Ids, p, r \in DOMAIN events :
             About(events[p], i) /\ About(events[r], i) => p = r
        /\ (\A p \in DOMAIN events : events[p].kind # "meta") => n.meta = d.meta
    BY DEF Linked, Outcome
  <2>7. ~(\E i \in Ids : About(e, i))
    BY <2>4 DEF About
  <2>8. \A p \in DOMAIN evs :
          /\ evs[p].kind # "current"
          /\ \A i \in Ids : About(evs[p], i) => Value(evs[p]) = m.insts[i]
          /\ evs[p].kind = "update" => d.insts[evs[p].id] # Absent
          /\ evs[p].kind = "meta" => evs[p].meta = m.meta
    BY <2>3, <2>4, <2>5, <2>6, <2>7
  <2>9. \A i \in Ids : Unspoken(evs, i) => m.insts[i] = d.insts[i]
    BY <2>3, <2>5, <2>6 DEF Unspoken
  <2>10. \A i \in Ids, p, r \in DOMAIN evs : About(evs[p], i) /\ About(evs[r], i) => p = r
    BY <2>5, <2>6, <2>7
  <2>11. (\A p \in DOMAIN evs : evs[p].kind # "meta") => m.meta = d.meta
    BY <2>3, <2>5, <2>6
  <2> QED
    BY <2>1, <2>3, <2>5, <2>8, <2>9, <2>10, <2>11 DEF Linked
<1> QED
  BY <1>2, <1>3

(* One event about one instance. *)
LEMMA LinkOne ==
  ASSUME NEW d \in Data, NEW n \in Data, NEW e \in WEvent, NEW writes, NEW i \in Ids,
         About(e, i), Value(e) = n.insts[i], e.kind = "update" => d.insts[i] # Absent,
         \A j \in Ids : j # i => n.insts[j] = d.insts[j], n.meta = d.meta
  PROVE  Linked(d, Outcome(n, <<e>>, writes))
<1>1. /\ <<e>> \in Seq(WEvent) /\ DOMAIN <<e>> = {1} /\ <<e>>[1] = e
  OBVIOUS
<1>2. PICK evs : evs = <<e>>
  OBVIOUS
<1>3. e.kind \notin {"current", "meta"} /\ e.id = i /\ \A j \in Ids : About(e, j) <=> j = i
  BY DEF About
<1>4. Outcome(n, evs, writes).data = n /\ Outcome(n, evs, writes).events = evs
  BY DEF Outcome
<1>5. \A j \in Ids : Unspoken(evs, j) => j # i
  BY <1>1, <1>2, <1>3 DEF Unspoken
<1> QED
  BY <1>1, <1>2, <1>3, <1>4, <1>5 DEF Linked

LEMMA LinkAdd ==
  ASSUME Setting, NEW d \in Data, NEW i \in Ids, NEW m \in InstMetas, NEW n \in Nat \ {0},
         Distinct(d, n), d.insts[i].meta # m, NEW o, o = applyAddInstanceCommand(d, i, m, n)
  PROVE  Linked(d, o) /\ Distinct(o.data, n + 1)
<1>1. CASE d.config = "none"
  <2>1. o = Refused(d)
    BY <1>1 DEF applyAddInstanceCommand
  <2>2. o.data = d
    BY <2>1 DEF Refused, Outcome
  <2>3. d.insts \in [Ids -> Inst]
    BY DEF Data
  <2> QED
    BY <2>1, <2>2, <2>3, LinkRefused DEF Distinct, Inst, Registered
<1>2. CASE d.config # "none"
  <2> DEFINE inst == [index |-> IF d.insts[i] = Absent THEN n ELSE d.insts[i].index, meta |-> m]
             k == IF d.insts[i] = Absent THEN "up" ELSE "update"
             new == [d EXCEPT !.insts[i] = inst, !.known = TRUE]
             e == InstEvent(k, i, inst)
             w == IF d.known THEN {} ELSE {"Instances"}
  <2>1. d.insts \in [Ids -> Inst] /\ inst \in Inst /\ inst.index > 0 /\ inst # Absent
    <3>1. d.insts \in [Ids -> Inst] /\ inst \in Inst
      BY DEF Data, Inst
    <3>2. inst.index > 0
      BY <3>1 DEF Distinct, Registered
    <3> QED
      BY <3>1, <3>2 DEF Absent
  <2>2. o = invalidateServiceLeader(new, <<e>>, w)
    BY <1>2 DEF applyAddInstanceCommand
  <2>3. inst.index = IF d.insts[i] = Absent THEN n ELSE d.insts[i].index
    OBVIOUS
  <2> HIDE DEF inst
  <2>4. new \in Data /\ new.insts = [d.insts EXCEPT ![i] = inst] /\ new.meta = d.meta
    BY <2>1 DEF Data
  <2> HIDE DEF new
  <2>5. e \in WEvent /\ About(e, i) /\ Value(e) = inst /\ e.kind = k
    <3>1. e.kind = k /\ e.id = i /\ e.inst = inst /\ k \in {"up", "update"}
      BY DEF InstEvent
    <3>2. e \in WEvent
      BY <2>1, <3>1, EventTypes
    <3> QED
      BY <3>1, <3>2 DEF About, Value
  <2> HIDE DEF e
  <2>6. Linked(d, Outcome(new, <<e>>, w))
    <3>1. Value(e) = new.insts[i] /\ \A j \in Ids : j # i => new.insts[j] = d.insts[j]
      BY <2>1, <2>4, <2>5
    <3>2. e.kind = "update" => d.insts[i] # Absent
      BY <2>5
    <3> QED
      BY <2>4, <2>5, <3>1, <3>2, LinkOne
  <2>7. Linked(d, o) /\ o.data.insts = new.insts
    BY <2>2, <2>4, <2>6, LinkInvalidate
  <2>8. Distinct(o.data, n + 1)
    <3>1. \A j \in Ids : o.data.insts[j] = IF j = i THEN inst ELSE d.insts[j]
      BY <2>1, <2>4, <2>7
    <3>2. \A j \in Registered(o.data) : j = i \/ (j \in Registered(d) /\ o.data.insts[j] = d.insts[j])
      BY <3>1 DEF Registered
    <3>3. \A j \in Registered(d) : d.insts[j].index \in Nat
      BY <2>1 DEF Registered, Inst
    <3>4. o.data.insts[i].index = IF i \in Registered(d) THEN d.insts[i].index ELSE n
      BY <2>3, <3>1 DEF Registered
    <3>5. /\ \A j \in Registered(d) : 0 < d.insts[j].index /\ d.insts[j].index < n
          /\ \A j, l \in Registered(d) : j # l => d.insts[j].index # d.insts[l].index
      BY DEF Distinct
    <3> QED
      BY <3>2, <3>3, <3>4, <3>5 DEF Distinct
  <2> QED
    BY <2>7, <2>8
<1> QED
  BY <1>1, <1>2

(* Instances that leave. *)
LEMMA LeaveDistinct ==
  ASSUME NEW d \in Data, NEW e \in Data, NEW n \in Nat, Distinct(d, n),
         \A i \in Ids : e.insts[i] \in {Absent, d.insts[i]}
  PROVE  Distinct(e, n + 1)
<1>1. \A i \in Registered(e) : i \in Registered(d) /\ e.insts[i] = d.insts[i]
  BY DEF Registered
<1>2. \A i \in Registered(d) : d.insts[i].index \in Nat
  BY DEF Registered, Data, Inst
<1> QED
  BY <1>1, <1>2 DEF Distinct

LEMMA LinkRemove ==
  ASSUME Setting, NEW d \in Data, NEW n \in Nat, Distinct(d, n), NEW i \in Registered(d),
         NEW o, o = applyRemoveInstanceCommand(d, i)
  PROVE  Linked(d, o) /\ Distinct(o.data, n + 1)
<1>1. CASE ~d.known
  <2>1. o = Refused(d)
    BY <1>1 DEF applyRemoveInstanceCommand
  <2>2. o.data = d
    BY <2>1 DEF Refused, Outcome
  <2> QED
    BY <2>1, <2>2, LinkRefused, LeaveDistinct
<1>2. CASE d.known
  <2> DEFINE new == [d EXCEPT !.insts[i] = Absent]
             e == InstEvent("down", i, d.insts[i])
  <2>1. d.insts \in [Ids -> Inst] /\ i \in Ids /\ d.insts[i] # Absent
    BY DEF Data, Registered
  <2>2. o = invalidateServiceLeader(new, <<e>>, {})
    BY <1>2, <2>1 DEF applyRemoveInstanceCommand
  <2>3. new \in Data /\ new.insts = [d.insts EXCEPT ![i] = Absent] /\ new.meta = d.meta
    BY <2>1, AbsentType DEF Data
  <2> HIDE DEF new
  <2>4. e \in WEvent /\ About(e, i) /\ Value(e) = Absent /\ e.kind = "down"
    <3>1. e.kind = "down" /\ e.id = i
      BY DEF InstEvent
    <3>2. e \in WEvent
      BY <2>1, EventTypes
    <3> QED
      BY <3>1, <3>2 DEF About, Value
  <2> HIDE DEF e
  <2>5. Value(e) = new.insts[i] /\ \A j \in Ids : j # i => new.insts[j] = d.insts[j]
    BY <2>1, <2>3, <2>4
  <2>6. Linked(d, Outcome(new, <<e>>, {}))
    BY <2>1, <2>3, <2>4, <2>5, LinkOne
  <2>7. Linked(d, o) /\ o.data.insts = new.insts
    BY <2>2, <2>3, <2>6, LinkInvalidate
  <2>8. o.data \in Data /\ \A j \in Ids : o.data.insts[j] \in {Absent, d.insts[j]}
    BY <2>1, <2>3, <2>7 DEF Linked
  <2> QED
    BY <2>7, <2>8, LeaveDistinct
<1> QED
  BY <1>1, <1>2

LEMMA ShortSeqs ==
  ASSUME NEW S, NEW x \in S, NEW y \in S
  PROVE  /\ <<x>> \in Seq(S) /\ DOMAIN <<x>> = {1} /\ <<x>>[1] = x
         /\ <<x, y>> \in Seq(S)
OBVIOUS

LEMMA PairBoth ==
  ASSUME NEW S, NEW x \in S, NEW y \in S
  PROVE  Subsequence(<<x, y>>, {1, 2}) = <<x, y>>
<1>1. IsFiniteSet({}) /\ Cardinality({}) = 0 /\ IsFiniteSet({1}) /\ Cardinality({1}) = 1
  BY FS_EmptySet, FS_Singleton
<1>2. {1} \cup {2} = {1, 2} /\ 2 \notin {1}
  OBVIOUS
<1>3. Cardinality({1, 2}) = 2
  BY <1>1, <1>2, FS_AddElement
<1>4. Rank({1, 2}, 1) = 1 /\ Rank({1, 2}, 2) = 2
  <2>1. {j \in {1, 2} : j <= 1} = {1} /\ {j \in {1, 2} : j <= 2} = {1, 2}
    OBVIOUS
  <2> QED
    BY <1>1, <1>3, <2>1 DEF Rank
<1>5. Nth({1, 2}, 1) = 1 /\ Nth({1, 2}, 2) = 2
  BY <1>4 DEF Nth
<1>6. Subsequence(<<x, y>>, {1, 2}) = [n \in 1..2 |-> <<x, y>>[Nth({1, 2}, n)]]
  BY <1>3 DEF Subsequence
<1>7. \A n \in 1..2 : Nth({1, 2}, n) = n
  BY <1>5
<1>8. [n \in 1..2 |-> <<x, y>>[Nth({1, 2}, n)]] = [n \in 1..2 |-> <<x, y>>[n]]
  BY <1>7
<1> QED
  BY <1>6, <1>8

LEMMA LinkExpire ==
  ASSUME Setting, NEW d \in Data, NEW n \in Nat, Distinct(d, n), NEW i \in Registered(d),
         NEW j \in Registered(d), i # j, NEW o, o = applyExpireInstancesCommand(d, <<i, j>>)
  PROVE  Linked(d, o) /\ Distinct(o.data, n + 1)
<1> DEFINE ids == <<i, j>>
           K == {k \in DOMAIN ids : d.insts[ids[k]] # Absent}
           gone == Subsequence(ids, K)
           insts == [l \in Ids |-> IF \E k \in DOMAIN gone : gone[k] = l
                                  THEN Absent ELSE d.insts[l]]
           new == [d EXCEPT !.insts = insts]
           evs == [k \in DOMAIN gone |-> InstEvent("down", gone[k], d.insts[gone[k]])]
<1>1. d.insts \in [Ids -> Inst] /\ i \in Ids /\ j \in Ids /\ d.insts[i] # Absent /\ d.insts[j] # Absent
  BY DEF Data, Registered
<1>2. K = {1, 2}
  BY <1>1
<1>3. gone = <<i, j>>
  BY <1>1, <1>2, PairBoth
<1>4. o = invalidateServiceLeader(new, evs, {})
  <2>1. <<i, j>> # <<>>
    OBVIOUS
  <2>2. gone # <<>>
    BY <1>3, <2>1, Zenon
  <2> QED
    BY <2>2, Zenon DEF applyExpireInstancesCommand
<1>5. DOMAIN gone = {1, 2} /\ gone[1] = i /\ gone[2] = j
  BY <1>3
<1> HIDE DEF gone
<1>6. /\ insts \in [Ids -> Inst] /\ insts[i] = Absent /\ insts[j] = Absent
      /\ \A l \in Ids : l # i /\ l # j => insts[l] = d.insts[l]
  BY <1>1, <1>5, AbsentType
<1> HIDE DEF insts
<1>7. new \in Data /\ new.insts = insts /\ new.meta = d.meta
  BY <1>6 DEF Data
<1> HIDE DEF new
<1>8. /\ DOMAIN evs = {1, 2} /\ evs[1] = InstEvent("down", i, d.insts[i])
      /\ evs[2] = InstEvent("down", j, d.insts[j])
  BY <1>5
<1>9. /\ evs[1].kind = "down" /\ evs[1].id = i /\ evs[1] \in WEvent
      /\ evs[2].kind = "down" /\ evs[2].id = j /\ evs[2] \in WEvent
  BY <1>1, <1>8, InstEventKind, EventTypes
<1>10. evs \in Seq(WEvent)
  <2>1. evs = [k \in 1..2 |-> evs[k]]
    BY <1>5
  <2> HIDE DEF evs
  <2>2. evs = <<evs[1], evs[2]>>
    BY <2>1
  <2>3. <<evs[1], evs[2]>> \in Seq(WEvent)
    BY <1>9, ShortSeqs
  <2> QED
    BY <2>2, <2>3, Zenon
<1> HIDE DEF evs
<1>11. Linked(d, Outcome(new, evs, {}))
  <2>1. Outcome(new, evs, {}).data = new /\ Outcome(new, evs, {}).events = evs
    BY DEF Outcome
  <2>2. \A p \in DOMAIN evs :
          /\ evs[p].kind = "down"
          /\ \A l \in Ids : About(evs[p], l) => Value(evs[p]) = new.insts[l]
    BY <1>6, <1>7, <1>8, <1>9 DEF About, Value
  <2>3. \A l \in Ids : Unspoken(evs, l) => new.insts[l] = d.insts[l]
    BY <1>6, <1>7, <1>8, <1>9 DEF About, Unspoken
  <2>4. \A l \in Ids, p, r \in DOMAIN evs : About(evs[p], l) /\ About(evs[r], l) => p = r
    BY <1>8, <1>9 DEF About
  <2> QED
    BY <1>7, <1>10, <2>1, <2>2, <2>3, <2>4 DEF Linked
<1>12. Linked(d, o) /\ o.data.insts = new.insts
  BY <1>4, <1>7, <1>11, LinkInvalidate
<1>13. o.data \in Data /\ \A l \in Ids : o.data.insts[l] \in {Absent, d.insts[l]}
  BY <1>6, <1>7, <1>12 DEF Linked
<1> QED
  BY <1>12, <1>13, LeaveDistinct

LEMMA LinkSetMeta ==
  ASSUME Setting, NEW d \in Data, NEW n \in Nat, Distinct(d, n), NEW b, NEW o,
         o = applySetServiceMetaCommand(d, b, 0, None, n)
  PROVE  Linked(d, o) /\ Distinct(o.data, n + 1)
<1>1. CASE d.config = "none" \/ b # d.meta.index
  <2>1. o = Refused(d)
    BY <1>1 DEF applySetServiceMetaCommand
  <2>2. o.data = d
    BY <2>1 DEF Refused, Outcome
  <2> QED
    BY <2>1, <2>2, LinkRefused, LeaveDistinct
<1>2. CASE ~(d.config = "none" \/ b # d.meta.index)
  <2> DEFINE m == [index |-> n, value |-> 0]
             new == [d EXCEPT !.meta = m]
             e == MetaEvent(m)
  <2>1. o.data = new /\ o.events = <<e>> \o <<>>
    <3>1. [d EXCEPT !.meta = m, !.leader = IF None = None THEN @ ELSE None] = new
      BY DEF Data
    <3> QED
      BY <1>2, <3>1 DEF applySetServiceMetaCommand, Outcome
  <2>2. m \in Meta
    BY DEF Meta
  <2> HIDE DEF m
  <2>3. new \in Data /\ new.insts = d.insts /\ new.meta = m
    BY <2>2 DEF Data, Meta
  <2>4. e \in WEvent /\ e.kind = "meta" /\ e.meta = m
    BY <2>2 DEF MetaEvent, WEvent
  <2> HIDE DEF new, e
  <2>5. o.events \in Seq(WEvent) /\ DOMAIN o.events = {1} /\ o.events[1] = e
    <3>1. <<e>> \o <<>> = <<e>>
      BY <2>4
    <3>2. o.events = <<e>>
      BY <2>1, <3>1
    <3> QED
      BY <2>4, <3>2, ShortSeqs
  <2>6. Linked(d, o)
    BY <2>1, <2>3, <2>4, <2>5 DEF Linked, About, Unspoken
  <2> QED
    BY <2>1, <2>3, <2>6, LeaveDistinct
<1> QED
  BY <1>1, <1>2

(* An entry is added to the log. *)
LEMMA EntryLinked ==
  ASSUME Setting, HistInv, Watch!CommitEntry
  PROVE  /\ HistInv' /\ Len(wHist') = Len(wHist) + 1
         /\ \A k \in 1..Len(wHist) : wHist'[k] = wHist[k]
         /\ UNCHANGED <<wServer, wSub, wWatch, wOut, wAdapter, wFaults>>
<1> DEFINE n == Len(wHist)  d == wHist[n].data
<1>1. n \in Nat \ {0} /\ d \in Data /\ Distinct(d, n)
  <2>1. Len(wHist) \in Nat
    BY Appended DEF HistInv
  <2> QED
    BY <2>1 DEF HistInv
<1>2. PICK o : Watch!Commit(o) /\ Linked(d, o) /\ Distinct(o.data, n + 1)
  <2>1. ASSUME NEW i \in Ids, NEW m \in InstMetas, d.insts[i].meta # m,
               Watch!Commit(Watch!applyAddInstanceCommand(d, i, m, n))
        PROVE  \E o : Watch!Commit(o) /\ Linked(d, o) /\ Distinct(o.data, n + 1)
    BY <1>1, <2>1, LinkAdd, SameAdd
  <2>2. ASSUME NEW i \in Registered(d), Watch!Commit(Watch!applyRemoveInstanceCommand(d, i))
        PROVE  \E o : Watch!Commit(o) /\ Linked(d, o) /\ Distinct(o.data, n + 1)
    BY <1>1, <2>2, LinkRemove, SameRemove
  <2>3. ASSUME NEW i \in Registered(d), NEW j \in Registered(d), i # j,
               Watch!Commit(Watch!applyExpireInstancesCommand(d, <<i, j>>))
        PROVE  \E o : Watch!Commit(o) /\ Linked(d, o) /\ Distinct(o.data, n + 1)
    BY <1>1, <2>3, LinkExpire, SameExpire
  <2>4. ASSUME Watch!Commit(Watch!applySetServiceMetaCommand(d, d.meta.index, 0, None, n))
        PROVE  \E o : Watch!Commit(o) /\ Linked(d, o) /\ Distinct(o.data, n + 1)
    BY <1>1, <2>4, LinkSetMeta, SameSetMeta
  <2>5. Watch!None = None
    BY DEF Watch!None, None
  <2> QED
    BY <2>1, <2>2, <2>3, <2>4, <2>5, SameRegistered DEF Watch!CommitEntry
<1>3. wHist' = Append(wHist, o) /\ UNCHANGED <<wServer, wSub, wWatch, wOut, wAdapter, wFaults>>
  BY <1>2 DEF Watch!Commit
<1>4. /\ IsSeq(wHist') /\ Len(wHist') = n + 1 /\ wHist'[n + 1] = o
      /\ \A k \in 1..n : wHist'[k] = wHist[k]
  BY <1>3, Appended DEF HistInv
<1>5. HistInv'
  <2>1. \A k \in 1..Len(wHist)' : wHist'[k].data \in Data /\ Distinct(wHist'[k].data, k)
    BY <1>1, <1>2, <1>4 DEF HistInv, Linked
  <2>2. \A k \in 2..Len(wHist)' : Linked(wHist'[k - 1].data, wHist'[k])
    <3> SUFFICES ASSUME NEW k \in 2..n + 1 PROVE Linked(wHist'[k - 1].data, wHist'[k])
      BY <1>4
    <3>1. CASE k = n + 1
      BY <1>1, <1>2, <1>4, <3>1
    <3>2. CASE k # n + 1
      BY <1>1, <1>4, <3>2 DEF HistInv
    <3> QED
      BY <3>1, <3>2
  <2> QED
    BY <1>1, <1>4, <2>1, <2>2 DEF HistInv
<1> QED
  BY <1>3, <1>4, <1>5

-----------------------------------------------------------------------------
(* The current state that a subscriber is sent. *)

(* Every registered instance is listed. *)
LEMMA Listed ==
  ASSUME Setting, NEW d \in Data, NEW n \in Nat, Distinct(d, n)
  PROVE  LET s == ServiceInstances(d) IN
         /\ Cardinality(Registered(d)) \in Nat /\ s \in Seq(Registered(d))
         /\ DOMAIN s = 1..Cardinality(Registered(d))
         /\ \A i \in Registered(d) : \E k \in DOMAIN s : s[k] = i
<1> DEFINE R == Registered(d)
           N == Cardinality(R)
           L(i) == {j \in R : d.insts[j].index < d.insts[i].index}
<1>1. IsFiniteSet(R) /\ N \in Nat
  <2>1. R \subseteq Ids
    BY DEF Registered
  <2>2. IsFiniteSet(R)
    BY <2>1, FS_Subset DEF Setting
  <2> QED
    BY <2>2, FS_CardinalityType
<1>2. /\ \A i \in R : d.insts[i].index \in Nat
      /\ \A i, j \in R : i # j => d.insts[i].index # d.insts[j].index
  BY DEF Registered, Data, Inst, Distinct
<1> HIDE DEF R, N
<1>3. ASSUME NEW i \in R
      PROVE  /\ IsFiniteSet(L(i)) /\ Cardinality(L(i)) \in Nat /\ L(i) \cup {i} \subseteq R
             /\ IsFiniteSet(L(i) \cup {i}) /\ Cardinality(L(i) \cup {i}) = Cardinality(L(i)) + 1
  <2>1. i \notin L(i) /\ L(i) \subseteq R /\ L(i) \cup {i} \subseteq R
    BY <1>2
  <2>2. IsFiniteSet(L(i))
    BY <1>1, <2>1, FS_Subset
  <2> HIDE DEF L
  <2> QED
    BY <2>1, <2>2, FS_AddElement, FS_CardinalityType
<1> DEFINE c == [i \in R |-> Cardinality(L(i))]
<1>4. \A i \in R : c[i] \in Nat /\ c[i] + 1 \in 1..N
  <2> SUFFICES ASSUME NEW i \in R PROVE c[i] \in Nat /\ c[i] + 1 \in 1..N
    OBVIOUS
  <2>1. c[i] = Cardinality(L(i))
    BY Zenon
  <2> HIDE DEF L, c
  <2>2. Cardinality(L(i) \cup {i}) <= N
    BY <1>1, <1>3, FS_Subset DEF N
  <2>3. c[i] \in Nat /\ c[i] + 1 <= N
    BY <1>3, <2>1, <2>2
  <2> QED
    BY <1>1, <2>3
<1>5. \A i, j \in R : d.insts[i].index < d.insts[j].index => c[i] < c[j]
  <2> SUFFICES ASSUME NEW i \in R, NEW j \in R, d.insts[i].index < d.insts[j].index
               PROVE  c[i] < c[j]
    OBVIOUS
  <2>1. L(i) \cup {i} \subseteq L(j)
    BY <1>2
  <2>2. c[i] = Cardinality(L(i)) /\ c[j] = Cardinality(L(j))
    BY Zenon
  <2> HIDE DEF L, c
  <2>3. IsFiniteSet(L(j)) /\ Cardinality(L(j)) \in Nat
    BY <1>3
  <2>4. Cardinality(L(i) \cup {i}) <= Cardinality(L(j))
    BY <2>1, <2>3, FS_Subset
  <2>5. Cardinality(L(i) \cup {i}) = Cardinality(L(i)) + 1 /\ Cardinality(L(i)) \in Nat
    BY <1>3
  <2> QED
    BY <2>2, <2>3, <2>4, <2>5
<1> DEFINE s == [k \in 1..N |-> CHOOSE i \in R : Cardinality(L(i)) = k - 1]
<1>6. ServiceInstances(d) = s
  BY Zenon DEF ServiceInstances, R, N
<1>7. \A k \in 1..N : s[k] = CHOOSE i \in R : c[i] = k - 1
  <2>1. \A i \in R : Cardinality(L(i)) = c[i]
    BY Zenon
  <2> SUFFICES ASSUME NEW k \in 1..N
               PROVE  (CHOOSE i \in R : Cardinality(L(i)) = k - 1) = CHOOSE i \in R : c[i] = k - 1
    BY Zenon
  <2> HIDE DEF L, c
  <2> QED
    BY <2>1
<1>8. DOMAIN s = 1..N
  OBVIOUS
<1>9. c \in [R -> Nat]
  BY <1>4
<1> HIDE DEF L, c, s
<1>10. \A i, j \in R : c[i] = c[j] => i = j
  <2> SUFFICES ASSUME NEW i \in R, NEW j \in R, i # j PROVE c[i] # c[j]
    OBVIOUS
  <2>1. d.insts[i].index < d.insts[j].index \/ d.insts[j].index < d.insts[i].index
    BY <1>2
  <2> QED
    BY <1>4, <1>5, <2>1
<1> DEFINE f == [i \in R |-> c[i] + 1]
<1>11. \A k \in 1..N : \E i \in R : c[i] = k - 1
  <2>1. IsFiniteSet(1..N) /\ Cardinality(1..N) = N
    BY <1>1, FS_Interval
  <2>2. f \in [R -> 1..N] /\ \A i, j \in R : f[i] = f[j] => i = j
    BY <1>4, <1>10
  <2>3. \A i \in R : f[i] = c[i] + 1
    OBVIOUS
  <2> HIDE DEF f
  <2>4. f \in Injection(R, 1..N)
    BY <2>2 DEF Injection, IsInjective
  <2>5. Cardinality(R) = Cardinality(1..N)
    BY <2>1 DEF N
  <2>6. f \in Surjection(R, 1..N)
    BY <1>1, <2>1, <2>4, <2>5, FS_Injection
  <2>7. \A k \in 1..N : \E i \in R : f[i] = k
    BY <2>6 DEF Surjection
  <2> SUFFICES ASSUME NEW k \in 1..N PROVE \E i \in R : c[i] = k - 1
    OBVIOUS
  <2>8. PICK i \in R : f[i] = k
    BY <2>7
  <2>9. c[i] = k - 1
    BY <1>1, <1>4, <2>3, <2>8
  <2> QED
    BY <2>9
<1>12. \A k \in 1..N : s[k] \in R /\ c[s[k]] = k - 1
  <2> SUFFICES ASSUME NEW k \in 1..N PROVE s[k] \in R /\ c[s[k]] = k - 1
    OBVIOUS
  <2>1. \E i \in R : c[i] = k - 1
    BY <1>11
  <2>2. s[k] = CHOOSE i \in R : c[i] = k - 1
    BY <1>7
  <2> QED
    BY <2>1, <2>2, Zenon
<1>13. \A i \in R : \E k \in 1..N : s[k] = i
  <2> SUFFICES ASSUME NEW i \in R PROVE \E k \in 1..N : s[k] = i
    OBVIOUS
  <2>1. PICK k \in 1..N : k = c[i] + 1
    BY <1>4
  <2>2. s[k] \in R /\ c[s[k]] = k - 1
    BY <1>12
  <2>3. c[s[k]] = c[i]
    BY <1>4, <2>1, <2>2
  <2> QED
    BY <1>10, <2>2, <2>3
<1>14. s \in Seq(R)
  <2>1. s = [k \in 1..N |-> s[k]]
    BY <1>8 DEF s
  <2>2. s \in [1..N -> R]
    BY <1>12, <2>1
  <2> QED
    BY <1>1, <2>2
<1> QED
  BY <1>1, <1>6, <1>8, <1>13, <1>14 DEF R, N

LEMMA Joined ==
  ASSUME NEW S, NEW s \in Seq(S), NEW t \in Seq(S)
  PROVE  /\ s \o t \in Seq(S) /\ Len(s \o t) = Len(s) + Len(t)
         /\ \A p \in DOMAIN (s \o t) :
              (p \in DOMAIN s /\ (s \o t)[p] = s[p])
                \/ (p - Len(s) \in DOMAIN t /\ (s \o t)[p] = t[p - Len(s)])
         /\ \A p \in DOMAIN s : p \in DOMAIN (s \o t) /\ (s \o t)[p] = s[p]
         /\ \A p \in DOMAIN t : p + Len(s) \in DOMAIN (s \o t) /\ (s \o t)[p + Len(s)] = t[p]
OBVIOUS

LEMMA SameList == ASSUME NEW d PROVE Watch!ServiceInstances(d) = ServiceInstances(d)
BY Zenon DEF Watch!ServiceInstances, ServiceInstances, Watch!Registered, Registered, Watch!Absent,
   Absent, Watch!None, None, Watch!Cardinality, Cardinality

(* Up events for the instances, the leader, the metadata, and the end. *)
Snapshot(q, d) ==
  /\ q \in Seq(WEvent) /\ Len(q) \in Nat /\ Len(q) >= 1 /\ q[Len(q)].kind = "current"
  /\ \A p \in 1..Len(q) - 1 :
       /\ q[p].kind \in {"up", "leader", "meta"}
       /\ q[p].kind = "up" => q[p].inst = d.insts[q[p].id]
       /\ q[p].kind = "meta" => q[p].meta = d.meta
  /\ \A i \in Registered(d) : \E p \in DOMAIN q : About(q[p], i)
  /\ d.meta # NoMeta => \E p \in DOMAIN q : q[p].kind = "meta"

LEMMA CurrentSnapshot ==
  ASSUME Setting, NEW d \in Data, NEW n \in Nat, Distinct(d, n)
  PROVE  Snapshot(Watch!Current(d), d)
<1> DEFINE s == ServiceInstances(d)
           a == [k \in DOMAIN s |-> InstEvent("up", s[k], d.insts[s[k]])]
           l == serviceLeader(d)
           b == IF l = None THEN <<>> ELSE <<LeaderEvent(d, l)>>
           c == IF d.meta = NoMeta THEN <<>> ELSE <<MetaEvent(d.meta)>>
           e == [kind |-> "current"]
<1>1. Watch!Current(d) = ((a \o b) \o c) \o <<e>>
  <2>1. Watch!serviceLeader(d) = l
    BY SameRegistered DEF Watch!serviceLeader, serviceLeader, Watch!None, None
  <2>2. Watch!None = None /\ Watch!NoMeta = NoMeta /\ Watch!CurrentEvent = e
    BY DEF Watch!None, None, Watch!NoMeta, NoMeta, Watch!CurrentEvent
  <2>3. Watch!LeaderEvent(d, l) = LeaderEvent(d, l) /\ Watch!MetaEvent(d.meta) = MetaEvent(d.meta)
    BY Zenon DEF Watch!LeaderEvent, LeaderEvent, Watch!InstEvent, InstEvent, Watch!Absent, Absent,
       Watch!None, None, Watch!MetaEvent, MetaEvent
  <2>4. [k \in DOMAIN s |-> Watch!InstEvent("up", s[k], d.insts[s[k]])] = a
    BY Zenon DEF Watch!InstEvent, InstEvent
  <2> HIDE DEF l, s
  <2> QED
    BY <2>1, <2>2, <2>3, <2>4, SameList, Zenon DEF Watch!Current, s
<1>2. d.insts \in [Ids -> Inst] /\ d.meta \in Meta /\ Registered(d) \subseteq Ids
  BY DEF Data, Meta, Registered
<1>3. /\ a \in Seq(WEvent) /\ \A k \in DOMAIN a : /\ a[k].kind = "up" /\ a[k].id \in Ids
                                                  /\ a[k].inst = d.insts[a[k].id]
      /\ \A i \in Registered(d) : \E k \in DOMAIN a : About(a[k], i)
  <2>1. /\ Cardinality(Registered(d)) \in Nat /\ s \in Seq(Registered(d))
        /\ DOMAIN s = 1..Cardinality(Registered(d))
        /\ \A i \in Registered(d) : \E k \in DOMAIN s : s[k] = i
    BY Listed
  <2> HIDE DEF s
  <2>2. \A k \in DOMAIN s : s[k] \in Registered(d) /\ s[k] \in Ids /\ d.insts[s[k]] \in Inst \ {Absent}
    <3>1. \A k \in DOMAIN s : s[k] \in Registered(d)
      BY <2>1
    <3>2. \A i \in Registered(d) : i \in Ids /\ d.insts[i] \in Inst \ {Absent}
      BY <1>2 DEF Registered
    <3> QED
      BY <3>1, <3>2
  <2>3. \A k \in DOMAIN s : /\ a[k] = InstEvent("up", s[k], d.insts[s[k]]) /\ a[k] \in WEvent
                            /\ a[k].kind = "up" /\ a[k].id = s[k] /\ a[k].inst = d.insts[s[k]]
    <3> SUFFICES ASSUME NEW k \in DOMAIN s
                 PROVE  /\ InstEvent("up", s[k], d.insts[s[k]]) \in WEvent
                        /\ InstEvent("up", s[k], d.insts[s[k]]).kind = "up"
                        /\ InstEvent("up", s[k], d.insts[s[k]]).id = s[k]
                        /\ InstEvent("up", s[k], d.insts[s[k]]).inst = d.insts[s[k]]
      OBVIOUS
    <3>1. s[k] \in Ids /\ d.insts[s[k]] \in Inst /\ d.insts[s[k]] # Absent
      BY <2>2
    <3>2. InstEvent("up", s[k], d.insts[s[k]]) \in WEvent
      BY <3>1, EventTypes
    <3> QED
      BY <3>2 DEF InstEvent
  <2>4. a \in [1..Cardinality(Registered(d)) -> WEvent]
    BY <2>1, <2>3
  <2>5. DOMAIN a = DOMAIN s
    OBVIOUS
  <2> HIDE DEF a
  <2>6. a \in Seq(WEvent)
    BY <2>1, <2>4
  <2> QED
    BY <2>1, <2>2, <2>3, <2>5, <2>6 DEF About
<1>4. b \in Seq(WEvent) /\ \A k \in DOMAIN b : b[k].kind = "leader"
  <2>1. CASE l = None
    BY <2>1
  <2>2. CASE l # None
    <3>1. l \in Ids /\ d.insts[l] \in Inst
      BY <1>2, <2>2 DEF serviceLeader
    <3>2. LeaderEvent(d, l) = [kind |-> "leader", id |-> l, inst |-> d.insts[l]]
      BY <3>1 DEF LeaderEvent, InstEvent
    <3>3. LeaderEvent(d, l) \in WEvent /\ LeaderEvent(d, l).kind = "leader"
      BY <3>1, <3>2 DEF WEvent
    <3>4. b = <<LeaderEvent(d, l)>>
      BY <2>2
    <3> HIDE DEF b, l
    <3> QED
      BY <3>3, <3>4, ShortSeqs
  <2> QED
    BY <2>1, <2>2
<1>5. /\ c \in Seq(WEvent) /\ \A k \in DOMAIN c : c[k].kind = "meta" /\ c[k].meta = d.meta
      /\ d.meta # NoMeta => 1 \in DOMAIN c
  <2>1. MetaEvent(d.meta) \in WEvent /\ MetaEvent(d.meta).kind = "meta"
        /\ MetaEvent(d.meta).meta = d.meta
    BY <1>2 DEF MetaEvent, WEvent
  <2>2. CASE d.meta = NoMeta
    BY <2>2
  <2>3. CASE d.meta # NoMeta
    <3>1. c = <<MetaEvent(d.meta)>>
      BY <2>3
    <3> HIDE DEF c
    <3> QED
      BY <2>1, <3>1, ShortSeqs
  <2> QED
    BY <2>2, <2>3
<1>6. e \in WEvent /\ e.kind = "current"
  BY DEF WEvent
<1> HIDE DEF a, b, c, e, l, s
<1> DEFINE u == a \o b  v == u \o c  q == v \o <<e>>
<1>7. /\ u \in Seq(WEvent) /\ \A p \in DOMAIN u :
           \/ u[p].kind = "up" /\ u[p].inst = d.insts[u[p].id]
           \/ u[p].kind = "leader"
      /\ \A i \in Registered(d) : \E p \in DOMAIN u : About(u[p], i)
  BY <1>3, <1>4, Joined
<1> HIDE DEF u
<1>8. /\ v \in Seq(WEvent) /\ \A p \in DOMAIN v :
           \/ v[p].kind = "up" /\ v[p].inst = d.insts[v[p].id]
           \/ v[p].kind = "leader"
           \/ v[p].kind = "meta" /\ v[p].meta = d.meta
      /\ \A i \in Registered(d) : \E p \in DOMAIN v : About(v[p], i)
      /\ d.meta # NoMeta => \E p \in DOMAIN v : v[p].kind = "meta"
  BY <1>5, <1>7, Joined
<1> HIDE DEF v
<1>9. <<e>> \in Seq(WEvent) /\ Len(<<e>>) = 1 /\ <<e>>[1] = e
  BY <1>6
<1>10. /\ q \in Seq(WEvent) /\ Len(q) = Len(v) + 1 /\ Len(v) \in Nat /\ DOMAIN v = 1..Len(v)
       /\ q[Len(q)] = e /\ \A p \in 1..Len(v) : p \in DOMAIN q /\ q[p] = v[p]
  BY <1>8, <1>9
<1> HIDE DEF q
<1>11. Snapshot(q, d)
  BY <1>6, <1>8, <1>10 DEF Snapshot
<1> QED
  BY <1>1, <1>11 DEF q, v, u

(* A watch that has just connected will have what the server has. *)
LEMMA SnapshotQueue ==
  ASSUME NEW d \in Data, NEW q, Snapshot(q, d), NEW w, w.state = "connected", w.isCurrent = FALSE,
         w.current = {}
  PROVE  QueueInv(q, w, d)
<1>1. Len(q) \in Nat /\ DOMAIN q = 1..Len(q) /\ Len(q) \in DOMAIN q
  BY DEF Snapshot
<1>2. Instances(q, w, d)
  <2> SUFFICES ASSUME NEW i \in Ids
               PROVE  /\ \A p \in DOMAIN q : LastAbout(q, p, i) => Value(q[p]) = d.insts[i]
                      /\ Unspoken(q, i) => Holds(w, i) = d.insts[i]
    BY DEF Instances
  <2>1. ASSUME NEW p \in DOMAIN q, About(q[p], i) PROVE Value(q[p]) = d.insts[i]
    <3>1. p # Len(q)
      BY <2>1 DEF Snapshot, About
    <3>2. p \in 1..Len(q) - 1
      BY <1>1, <3>1
    <3>3. q[p].kind = "up" /\ q[p].id = i
      BY <2>1, <3>2 DEF Snapshot, About
    <3> QED
      BY <3>2, <3>3 DEF Snapshot, Value
  <2>2. ASSUME Unspoken(q, i) PROVE Holds(w, i) = d.insts[i]
    BY <2>2 DEF Unspoken, Snapshot, Registered, Holds
  <2> QED
    BY <2>1, <2>2 DEF LastAbout
<1>3. Updates(q, w)
  <2>1. \A p \in DOMAIN q : q[p].kind # "update"
    BY <1>1 DEF Snapshot
  <2> QED
    BY <2>1 DEF Updates
<1>4. Told(q, w, d)
  BY <1>1 DEF Told, Snapshot
<1>5. Marked(q, w)
  BY <1>1 DEF Marked, Snapshot
<1> QED
  BY <1>2, <1>3, <1>4, <1>5 DEF QueueInv

-----------------------------------------------------------------------------
(* What the steps do to the events on their way. *)

(* An entry is applied: its events come last. *)
LEMMA QueueGrows ==
  ASSUME NEW n \in Nat, NEW q \in [1..n -> WEvent], NEW m \in Nat, NEW q2 \in [1..n + m -> WEvent],
         NEW d, NEW o, NEW w, Linked(d, o), DOMAIN o.events = 1..m, QueueInv(q, w, d),
         \A p \in 1..n : q2[p] = q[p], \A p \in 1..m : q2[n + p] = o.events[p]
  PROVE  QueueInv(q2, w, o.data)
<1>1. DOMAIN q = 1..n /\ DOMAIN q2 = 1..n + m /\ \A p \in 1..n : p \in 1..n + m
  OBVIOUS
<1>2. \A p \in 1..m : n + p \in 1..n + m /\ \A r \in 1..n : r < n + p
  OBVIOUS
<1>3. \A p \in 1..n + m : p \notin 1..n => \E r \in 1..m : p = n + r
  <2> SUFFICES ASSUME NEW p \in 1..n + m, p \notin 1..n PROVE \E r \in 1..m : p = n + r
    OBVIOUS
  <2>1. p - n \in 1..m /\ p = n + (p - n)
    OBVIOUS
  <2> QED
    BY <2>1
<1>4. \A p \in 1..m :
        /\ q2[n + p].kind # "current"
        /\ \A i \in Ids : About(q2[n + p], i) => Value(q2[n + p]) = o.data.insts[i]
        /\ q2[n + p].kind = "update" => d.insts[q2[n + p].id] # Absent
        /\ q2[n + p].kind = "meta" => q2[n + p].meta = o.data.meta
  <2> SUFFICES ASSUME NEW p \in 1..m, NEW e, e = q2[n + p]
               PROVE  /\ e.kind # "current"
                      /\ \A i \in Ids : About(e, i) => Value(e) = o.data.insts[i]
                      /\ e.kind = "update" => d.insts[e.id] # Absent
                      /\ e.kind = "meta" => e.meta = o.data.meta
    BY Zenon
  <2>1. e = o.events[p] /\ p \in DOMAIN o.events
    OBVIOUS
  <2>2. /\ o.events[p].kind # "current"
        /\ \A i \in Ids : About(o.events[p], i) => Value(o.events[p]) = o.data.insts[i]
        /\ o.events[p].kind = "update" => d.insts[o.events[p].id] # Absent
        /\ o.events[p].kind = "meta" => o.events[p].meta = o.data.meta
    BY <2>1, Zenon DEF Linked
  <2> QED
    BY <2>1, <2>2, Zenon
<1>5. \A i \in Ids : (\A p \in 1..m : ~About(q2[n + p], i)) => o.data.insts[i] = d.insts[i]
  BY DEF Linked, Unspoken
<1>6. \A i \in Ids, p, r \in 1..m : About(q2[n + p], i) /\ About(q2[n + r], i) => p = r
  <2> SUFFICES ASSUME NEW i \in Ids, NEW p \in 1..m, NEW r \in 1..m,
                      About(q2[n + p], i), About(q2[n + r], i)
               PROVE  p = r
    BY Zenon
  <2>1. About(o.events[p], i) /\ About(o.events[r], i) /\ p \in DOMAIN o.events /\ r \in DOMAIN o.events
    BY Zenon
  <2> QED
    BY <2>1 DEF Linked
<1>7. (\A p \in 1..m : q2[n + p].kind # "meta") => o.data.meta = d.meta
  <2> SUFFICES ASSUME \A p \in 1..m : q2[n + p].kind # "meta" PROVE o.data.meta = d.meta
    BY Zenon
  <2>1. \A p \in DOMAIN o.events : o.events[p].kind # "meta"
    BY Zenon
  <2> QED
    BY <2>1 DEF Linked
<1>8. \A p \in 1..n + m : q2[p].kind = "update" => q2[p].id \in Ids
  BY DEF WEvent
<1>9. Instances(q2, w, o.data)
  <2> SUFFICES ASSUME NEW i \in Ids
               PROVE  /\ \A p \in DOMAIN q2 : LastAbout(q2, p, i) => Value(q2[p]) = o.data.insts[i]
                      /\ Unspoken(q2, i) => Holds(w, i) = o.data.insts[i]
    BY DEF Instances
  <2>1. /\ \A p \in DOMAIN q : LastAbout(q, p, i) => Value(q[p]) = d.insts[i]
        /\ Unspoken(q, i) => Holds(w, i) = d.insts[i]
    BY DEF QueueInv, Instances
  <2>2. ASSUME NEW p \in 1..n + m, LastAbout(q2, p, i) PROVE Value(q2[p]) = o.data.insts[i]
    <3>1. CASE p \in 1..n
      <4>1. \A r \in 1..m : ~About(q2[n + r], i)
        BY <1>1, <1>2, <2>2, <3>1 DEF LastAbout
      <4>2. LastAbout(q, p, i)
        BY <1>1, <2>2, <3>1 DEF LastAbout
      <4> QED
        BY <1>1, <1>5, <2>1, <3>1, <4>1, <4>2
    <3>2. CASE p \notin 1..n
      <4>1. PICK r \in 1..m : p = n + r
        BY <1>3, <3>2
      <4> QED
        BY <1>4, <2>2, <4>1 DEF LastAbout
    <3> QED
      BY <3>1, <3>2
  <2>3. ASSUME Unspoken(q2, i) PROVE Holds(w, i) = o.data.insts[i]
    <3>1. Unspoken(q, i) /\ \A r \in 1..m : ~About(q2[n + r], i)
      BY <1>1, <1>2, <2>3 DEF Unspoken
    <3> QED
      BY <1>5, <2>1, <3>1
  <2> QED
    BY <1>1, <2>2, <2>3
<1>10. Updates(q2, w)
  <2> SUFFICES ASSUME NEW p \in 1..n + m, q2[p].kind = "update"
               PROVE  /\ \/ Holds(w, q2[p].id) # Absent
                         \/ \E r \in DOMAIN q2 : r < p /\ About(q2[r], q2[p].id)
                      /\ \A r \in DOMAIN q2 : Before(q2, r, p, q2[p].id) => q2[r].kind # "down"
    BY <1>1 DEF Updates
  <2> DEFINE j == q2[p].id
  <2>1. j \in Ids
    BY <1>8
  <2>2. CASE p \in 1..n
    <3>1. /\ \/ Holds(w, j) # Absent
             \/ \E r \in 1..n : r < p /\ About(q[r], j)
          /\ \A r \in 1..n : Before(q, r, p, j) => q[r].kind # "down"
      BY <1>1, <2>2 DEF QueueInv, Updates
    <3>2. ASSUME NEW r \in 1..n + m, Before(q2, r, p, j) PROVE q2[r].kind # "down"
      <4>1. r \in 1..n
        BY <2>2, <3>2 DEF Before
      <4>2. Before(q, r, p, j)
        BY <1>1, <3>2, <4>1 DEF Before
      <4> QED
        BY <3>1, <4>1, <4>2
    <3> QED
      BY <1>1, <3>1, <3>2
  <2>3. CASE p \notin 1..n
    <3>1. PICK k \in 1..m : p = n + k
      BY <1>3, <2>3
    <3>2. d.insts[j] # Absent
      BY <1>4, <3>1
    <3>3. /\ \A r \in 1..n : LastAbout(q, r, j) => Value(q[r]) = d.insts[j]
          /\ Unspoken(q, j) => Holds(w, j) = d.insts[j]
      BY <1>1, <2>1 DEF QueueInv, Instances
    <3>4. Holds(w, j) # Absent \/ \E r \in DOMAIN q2 : r < p /\ About(q2[r], j)
      <4>1. CASE Unspoken(q, j)
        BY <3>2, <3>3, <4>1
      <4>2. CASE ~Unspoken(q, j)
        <5>1. PICK r \in 1..n : About(q[r], j)
          BY <1>1, <4>2 DEF Unspoken
        <5> QED
          BY <1>1, <1>2, <3>1, <5>1
      <4> QED
        BY <4>1, <4>2
    <3>5. ASSUME NEW r \in 1..n + m, Before(q2, r, p, j) PROVE q2[r].kind # "down"
      <4>1. r \in 1..n
        <5>1. ASSUME NEW h \in 1..m, r = n + h PROVE FALSE
          <6>1. About(q2[n + k], j) /\ About(q2[n + h], j) /\ n + h < n + k
            BY <3>1, <3>5, <5>1 DEF Before, About
          <6>2. h = k
            BY <1>6, <2>1, <6>1
          <6> QED
            BY <6>1, <6>2
        <5> QED
          BY <1>3, <5>1
      <4>2. LastAbout(q, r, j)
        <5>1. About(q[r], j)
          BY <3>5, <4>1 DEF Before
        <5>2. ASSUME NEW s \in 1..n, About(q[s], j) PROVE s <= r
          <6>1. s \in 1..n + m /\ s < p /\ About(q2[s], j)
            BY <1>1, <1>2, <3>1, <5>2
          <6>2. ~ (r < s)
            BY <1>1, <3>5, <6>1 DEF Before
          <6> QED
            BY <4>1, <6>2
        <5> QED
          BY <1>1, <5>1, <5>2 DEF LastAbout
      <4> QED
        BY <3>2, <3>3, <4>1, <4>2 DEF Value
    <3> QED
      BY <1>1, <3>4, <3>5
  <2> QED
    BY <2>2, <2>3
<1>11. Told(q2, w, o.data)
  <2>1. /\ \A p \in 1..n :
             q[p].kind = "meta" /\ (\A r \in 1..n : q[r].kind = "meta" => r <= p) => q[p].meta = d.meta
        /\ (\A p \in 1..n : q[p].kind # "meta") /\ d.meta # NoMeta => w.meta = d.meta.index
    BY <1>1 DEF QueueInv, Told
  <2>2. ASSUME NEW p \in 1..n + m, q2[p].kind = "meta",
               \A r \in 1..n + m : q2[r].kind = "meta" => r <= p
        PROVE  q2[p].meta = o.data.meta
    <3>1. CASE p \in 1..n
      <4>1. \A r \in 1..m : q2[n + r].kind # "meta"
        BY <1>2, <2>2, <3>1
      <4>2. \A r \in 1..n : q[r].kind = "meta" => r <= p
        BY <1>1, <2>2
      <4> QED
        BY <1>7, <2>1, <2>2, <3>1, <4>1, <4>2
    <3>2. CASE p \notin 1..n
      <4>1. PICK r \in 1..m : p = n + r
        BY <1>3, <3>2
      <4> QED
        BY <1>4, <2>2, <4>1
    <3> QED
      BY <3>1, <3>2
  <2>3. ASSUME \A p \in 1..n + m : q2[p].kind # "meta", o.data.meta # NoMeta
        PROVE  w.meta = o.data.meta.index
    BY <1>1, <1>2, <1>7, <2>1, <2>3
  <2> QED
    BY <1>1, <2>2, <2>3 DEF Told
<1>12. Marked(q2, w)
  <2>1. Marked(q, w)
    BY DEF QueueInv
  <2>2. CASE w.state = "connected" /\ ~w.isCurrent
    <3>1. PICK c \in 1..n :
             /\ q[c].kind = "current"
             /\ \A p \in 1..n : /\ p < c => q[p].kind \in {"up", "leader", "meta"}
                                /\ p > c => q[p].kind # "current"
      BY <1>1, <2>1, <2>2 DEF Marked
    <3>2. \A p \in 1..n + m : /\ p < c => q2[p].kind \in {"up", "leader", "meta"}
                              /\ p > c => q2[p].kind # "current"
      <4> SUFFICES ASSUME NEW p \in 1..n + m
                   PROVE  /\ p < c => q2[p].kind \in {"up", "leader", "meta"}
                          /\ p > c => q2[p].kind # "current"
        OBVIOUS
      <4>1. CASE p \in 1..n
        BY <3>1, <4>1
      <4>2. CASE p \notin 1..n
        <5>1. PICK r \in 1..m : p = n + r
          BY <1>3, <4>2
        <5>2. ~(p < c)
          BY <5>1
        <5>3. q2[p].kind # "current"
          BY <1>4, <5>1, Zenon
        <5> QED
          BY <5>2, <5>3
      <4> QED
        BY <4>1, <4>2
    <3> QED
      BY <1>1, <2>2, <3>1, <3>2 DEF Marked
  <2>3. CASE ~(w.state = "connected" /\ ~w.isCurrent)
    <3>1. \A p \in 1..n : q[p].kind # "current"
      BY <1>1, <2>1, <2>3 DEF Marked
    <3>2. ASSUME NEW p \in 1..n + m PROVE q2[p].kind # "current"
      <4>1. CASE p \in 1..n
        BY <3>1, <4>1
      <4>2. CASE p \notin 1..n
        <5>1. PICK r \in 1..m : p = n + r
          BY <1>3, <4>2
        <5> QED
          BY <1>4, <5>1
      <4> QED
        BY <4>1, <4>2
    <3> QED
      BY <1>1, <2>3, <3>2 DEF Marked
  <2> QED
    BY <2>2, <2>3
<1> QED
  BY <1>9, <1>10, <1>11, <1>12 DEF QueueInv

(* The watch hears of nothing: it keeps what it holds. *)
LEMMA QueueStays ==
  ASSUME NEW q, NEW w, NEW w2, NEW d, QueueInv(q, w, d), \A i \in Ids : Holds(w2, i) = Holds(w, i),
         w2.meta = w.meta, Marked(q, w2), \A p \in DOMAIN q : q[p] \in WEvent
  PROVE  QueueInv(q, w2, d)
<1>1. Instances(q, w2, d)
  BY DEF QueueInv, Instances
<1>2. Updates(q, w2)
  <2>1. \A p \in DOMAIN q : q[p].kind = "update" => Holds(w2, q[p].id) = Holds(w, q[p].id)
    BY DEF WEvent
  <2> QED
    BY <2>1 DEF QueueInv, Updates
<1>3. Told(q, w2, d)
  BY DEF QueueInv, Told
<1> QED
  BY <1>1, <1>2, <1>3 DEF QueueInv

(* The watch receives the first event. *)
Heeds(e, w, w2) ==
  /\ \A i \in Ids : Holds(w2, i) = IF About(e, i) THEN Value(e) ELSE Holds(w, i)
  /\ w2.meta = IF e.kind = "meta" THEN e.meta.index ELSE w.meta
  /\ w2.isCurrent = w.isCurrent
  /\ w2.state = IF e.kind = "current" THEN "reporting" ELSE w.state

LEMMA QueueShrinks ==
  ASSUME NEW n \in Nat, n > 0, NEW q \in [1..n -> WEvent], NEW q2 \in [1..n - 1 -> WEvent],
         \A p \in 1..n - 1 : q2[p] = q[p + 1], NEW d, NEW w, NEW w2, w.state = "connected",
         QueueInv(q, w, d), Heeds(q[1], w, w2)
  PROVE  QueueInv(q2, w2, d)
<1>1. DOMAIN q = 1..n /\ DOMAIN q2 = 1..n - 1 /\ 1 \in 1..n
  OBVIOUS
<1>2. \A p \in 1..n - 1 : p + 1 \in 1..n /\ 1 < p + 1
  OBVIOUS
<1>3. \A p \in 1..n : p # 1 => \E r \in 1..n - 1 : p = r + 1
  <2> SUFFICES ASSUME NEW p \in 1..n, p # 1 PROVE \E r \in 1..n - 1 : p = r + 1
    OBVIOUS
  <2>1. p - 1 \in 1..n - 1 /\ p = (p - 1) + 1
    OBVIOUS
  <2> QED
    BY <2>1
<1>4. \A p, r \in 1..n - 1 : (p + 1 <= r + 1 <=> p <= r) /\ (p + 1 < r + 1 <=> p < r)
  OBVIOUS
<1>5. Instances(q2, w2, d)
  <2> SUFFICES ASSUME NEW i \in Ids
               PROVE  /\ \A p \in DOMAIN q2 : LastAbout(q2, p, i) => Value(q2[p]) = d.insts[i]
                      /\ Unspoken(q2, i) => Holds(w2, i) = d.insts[i]
    BY DEF Instances
  <2>1. /\ \A p \in 1..n : LastAbout(q, p, i) => Value(q[p]) = d.insts[i]
        /\ Unspoken(q, i) => Holds(w, i) = d.insts[i]
    BY <1>1 DEF QueueInv, Instances
  <2>2. ASSUME NEW p \in 1..n - 1, LastAbout(q2, p, i) PROVE Value(q2[p]) = d.insts[i]
    <3>1. ASSUME NEW r \in 1..n, About(q[r], i) PROVE r <= p + 1
      <4>1. CASE r = 1
        BY <4>1
      <4>2. CASE r # 1
        <5>1. PICK h \in 1..n - 1 : r = h + 1
          BY <1>3, <4>2
        <5>2. About(q2[h], i)
          BY <3>1, <5>1
        <5>3. h <= p
          BY <1>1, <2>2, <5>2 DEF LastAbout
        <5> QED
          BY <5>1, <5>3
      <4> QED
        BY <4>1, <4>2
    <3>2. LastAbout(q, p + 1, i)
      BY <1>1, <2>2, <3>1 DEF LastAbout
    <3> QED
      BY <1>2, <2>1, <3>2
  <2>3. ASSUME Unspoken(q2, i) PROVE Holds(w2, i) = d.insts[i]
    <3>1. ASSUME NEW r \in 1..n, r # 1 PROVE ~About(q[r], i)
      <4>1. PICK h \in 1..n - 1 : r = h + 1
        BY <1>3, <3>1
      <4> QED
        BY <1>1, <2>3, <4>1 DEF Unspoken
    <3>2. CASE About(q[1], i)
      <4>1. LastAbout(q, 1, i)
        BY <1>1, <3>1, <3>2 DEF LastAbout
      <4> QED
        BY <1>1, <2>1, <3>2, <4>1 DEF Heeds
    <3>3. CASE ~About(q[1], i)
      BY <1>1, <2>1, <3>1, <3>3 DEF Heeds, Unspoken
    <3> QED
      BY <3>2, <3>3
  <2> QED
    BY <1>1, <2>2, <2>3
<1>6. Updates(q2, w2)
  <2> SUFFICES ASSUME NEW p \in 1..n - 1, q2[p].kind = "update"
               PROVE  /\ \/ Holds(w2, q2[p].id) # Absent
                         \/ \E r \in DOMAIN q2 : r < p /\ About(q2[r], q2[p].id)
                      /\ \A r \in DOMAIN q2 : Before(q2, r, p, q2[p].id) => q2[r].kind # "down"
    BY <1>1 DEF Updates
  <2> DEFINE j == q2[p].id
  <2>1. j \in Ids
    BY DEF WEvent
  <2>2. p + 1 \in 1..n /\ q[p + 1] = q2[p]
    BY <1>2
  <2>3. /\ \/ Holds(w, j) # Absent
           \/ \E r \in 1..n : r < p + 1 /\ About(q[r], j)
        /\ \A r \in 1..n : Before(q, r, p + 1, j) => q[r].kind # "down"
    BY <1>1, <2>2 DEF QueueInv, Updates
  <2> HIDE DEF j
  <2>4. Holds(w2, j) # Absent \/ \E r \in 1..n - 1 : r < p /\ About(q2[r], j)
    <3>1. SUFFICES ASSUME \A r \in 1..n - 1 : r < p => ~About(q2[r], j) PROVE Holds(w2, j) # Absent
      OBVIOUS
    <3>2. \A r \in 1..n : 1 < r /\ r < p + 1 => ~About(q[r], j)
      <4> SUFFICES ASSUME NEW r \in 1..n, 1 < r, r < p + 1 PROVE ~About(q[r], j)
        OBVIOUS
      <4>1. PICK h \in 1..n - 1 : r = h + 1
        BY <1>3
      <4>2. h < p
        BY <4>1
      <4> QED
        BY <3>1, <4>1, <4>2
    <3>3. CASE About(q[1], j)
      <4>1. Before(q, 1, p + 1, j)
        BY <1>1, <1>2, <3>2, <3>3 DEF Before
      <4>2. q[1].kind # "down"
        BY <1>1, <2>3, <4>1
      <4>3. Value(q[1]) # Absent
        BY <1>1, <3>3, <4>2 DEF Value, About, WEvent
      <4> QED
        BY <2>1, <3>3, <4>3 DEF Heeds
    <3>4. CASE ~About(q[1], j)
      <4>1. \A r \in 1..n : r < p + 1 => ~About(q[r], j)
        BY <3>2, <3>4
      <4> QED
        BY <2>1, <2>3, <3>4, <4>1 DEF Heeds
    <3> QED
      BY <3>3, <3>4
  <2>5. ASSUME NEW r \in 1..n - 1, Before(q2, r, p, j) PROVE q2[r].kind # "down"
    <3>1. ASSUME NEW s \in 1..n, r + 1 < s, s < p + 1 PROVE ~About(q[s], j)
      <4>1. PICK h \in 1..n - 1 : s = h + 1
        BY <1>3, <3>1
      <4>2. r < h /\ h < p
        BY <3>1, <4>1
      <4> QED
        BY <1>1, <2>5, <4>1, <4>2 DEF Before
    <3>2. Before(q, r + 1, p + 1, j)
      BY <1>1, <2>5, <3>1 DEF Before
    <3> QED
      BY <1>2, <2>3, <3>2
  <2> QED
    BY <1>1, <2>4, <2>5 DEF j
<1>7. Told(q2, w2, d)
  <2>1. /\ \A p \in 1..n :
             q[p].kind = "meta" /\ (\A r \in 1..n : q[r].kind = "meta" => r <= p) => q[p].meta = d.meta
        /\ (\A p \in 1..n : q[p].kind # "meta") /\ d.meta # NoMeta => w.meta = d.meta.index
    BY <1>1 DEF QueueInv, Told
  <2>2. ASSUME NEW p \in 1..n - 1, q2[p].kind = "meta",
               \A r \in 1..n - 1 : q2[r].kind = "meta" => r <= p
        PROVE  q2[p].meta = d.meta
    <3>1. ASSUME NEW r \in 1..n, q[r].kind = "meta" PROVE r <= p + 1
      <4>1. CASE r = 1
        BY <4>1
      <4>2. CASE r # 1
        <5>1. PICK h \in 1..n - 1 : r = h + 1
          BY <1>3, <4>2
        <5>2. h <= p
          BY <2>2, <3>1, <5>1
        <5> QED
          BY <5>1, <5>2
      <4> QED
        BY <4>1, <4>2
    <3>2. p + 1 \in 1..n /\ q[p + 1] = q2[p]
      BY <1>2
    <3> QED
      BY <2>1, <2>2, <3>1, <3>2
  <2>3. ASSUME \A p \in 1..n - 1 : q2[p].kind # "meta", d.meta # NoMeta
        PROVE  w2.meta = d.meta.index
    <3>1. ASSUME NEW r \in 1..n, r # 1 PROVE q[r].kind # "meta"
      <4>1. PICK h \in 1..n - 1 : r = h + 1
        BY <1>3, <3>1
      <4> QED
        BY <2>3, <4>1
    <3>2. CASE q[1].kind = "meta"
      <4>1. q[1].meta = d.meta
        BY <1>1, <2>1, <3>1, <3>2
      <4> QED
        BY <3>2, <4>1 DEF Heeds
    <3>3. CASE q[1].kind # "meta"
      BY <2>1, <2>3, <3>1, <3>3 DEF Heeds
    <3> QED
      BY <3>2, <3>3
  <2> QED
    BY <1>1, <2>2, <2>3 DEF Told
<1>8. Marked(q2, w2)
  <2>1. Marked(q, w)
    BY DEF QueueInv
  <2>2. CASE w.isCurrent
    <3>1. \A p \in 1..n : q[p].kind # "current"
      BY <1>1, <2>1, <2>2 DEF Marked
    <3>2. \A p \in 1..n - 1 : q2[p].kind # "current"
      BY <1>2, <3>1
    <3> QED
      BY <1>1, <2>2, <3>2 DEF Marked, Heeds
  <2>3. CASE ~w.isCurrent
    <3>1. PICK c \in 1..n :
             /\ q[c].kind = "current"
             /\ \A p \in 1..n : /\ p < c => q[p].kind \in {"up", "leader", "meta"}
                                /\ p > c => q[p].kind # "current"
      BY <1>1, <2>1, <2>3 DEF Marked
    <3>2. CASE c = 1
      <4>1. w2.state = "reporting"
        BY <3>1, <3>2 DEF Heeds
      <4>2. \A p \in 1..n - 1 : q2[p].kind # "current"
        BY <1>2, <3>1, <3>2
      <4> QED
        BY <1>1, <4>1, <4>2 DEF Marked
    <3>3. CASE c # 1
      <4>1. PICK h \in 1..n - 1 : c = h + 1
        BY <1>3, <3>3
      <4>2. \A p \in 1..n - 1 : /\ p < h => q2[p].kind \in {"up", "leader", "meta"}
                                /\ p > h => q2[p].kind # "current"
        <5> SUFFICES ASSUME NEW p \in 1..n - 1
                     PROVE  /\ p < h => q[p + 1].kind \in {"up", "leader", "meta"}
                            /\ p > h => q[p + 1].kind # "current"
          OBVIOUS
        <5>1. p + 1 \in 1..n /\ (p < h => p + 1 < c) /\ (p > h => p + 1 > c)
          BY <4>1
        <5> QED
          BY <3>1, <5>1
      <4>3. q2[h].kind = "current"
        BY <3>1, <4>1
      <4>4. w2.state = "connected" /\ ~w2.isCurrent
        <5>1. 1 < c
          BY <3>3
        <5>2. q[1].kind # "current"
          BY <1>1, <3>1, <5>1
        <5> QED
          BY <2>3, <5>2 DEF Heeds
      <4> QED
        BY <1>1, <4>2, <4>3, <4>4 DEF Marked
    <3> QED
      BY <3>2, <3>3
  <2> QED
    BY <2>2, <2>3
<1> QED
  BY <1>5, <1>6, <1>7, <1>8 DEF QueueInv

-----------------------------------------------------------------------------
(* The steps of the log and of the server keep the invariant. *)

LEMMA QueueTypes ==
  ASSUME NEW b \in Seq(WEvent), NEW t \in Seq(WEvent)
  PROVE  /\ Len(b) \in Nat /\ Len(t) \in Nat /\ DOMAIN b = 1..Len(b) /\ DOMAIN t = 1..Len(t)
         /\ Joining(b, t) \in [1..Len(b) + Len(t) -> WEvent]
         /\ \A p \in 1..Len(b) : Joining(b, t)[p] = b[p]
         /\ \A p \in 1..Len(t) : Joining(b, t)[Len(b) + p] = t[p]
<1>1. /\ Len(b) \in Nat /\ Len(t) \in Nat /\ DOMAIN b = 1..Len(b) /\ DOMAIN t = 1..Len(t)
      /\ \A p \in 1..Len(b) : b[p] \in WEvent
      /\ \A p \in 1..Len(t) : t[p] \in WEvent
  OBVIOUS
<1>2. \A p \in 1..(Len(b) + Len(t)) : p <= Len(b) \/ p - Len(b) \in 1..Len(t)
  BY <1>1
<1>3. Joining(b, t) \in [1..(Len(b) + Len(t)) -> WEvent]
  BY <1>1, <1>2 DEF Joining
<1>4. \A p \in 1..Len(t) : Len(b) + p \in 1..(Len(b) + Len(t)) /\ ~(Len(b) + p <= Len(b))
                           /\ (Len(b) + p) - Len(b) = p
  BY <1>1
<1>5. \A p \in 1..Len(t) : Joining(b, t)[Len(b) + p] = t[p]
  BY <1>4 DEF Joining
<1>6. \A p \in 1..Len(b) : Joining(b, t)[p] = b[p]
  BY <1>1 DEF Joining
<1> QED
  BY <1>1, <1>3, <1>5, <1>6

LEMMA NothingPassed == Watch!NoEvent.kind = "none" /\ Watch!NoEvent' = Watch!NoEvent
BY DEF Watch!NoEvent

LEMMA CommitKeeps == ASSUME Setting, WatchInv, Watch!CommitEntry PROVE WatchInv'
<1>1. /\ HistInv' /\ Len(wHist') = Len(wHist) + 1
      /\ \A k \in 1..Len(wHist) : wHist'[k] = wHist[k]
      /\ UNCHANGED <<wServer, wSub, wWatch, wOut, wAdapter, wFaults>>
  BY EntryLinked DEF WatchInv
<1>2. Len(wHist) \in Nat
  BY Appended DEF WatchInv, HistInv
<1>3. /\ wServer.applied \in 1..Len(wHist) /\ wServer.other \in 1..Len(wHist)
      /\ wHist'[wServer.applied] = wHist[wServer.applied]
  BY <1>1 DEF WatchInv, WatchTypes
<1>4. WatchTypes'
  <2>1. {wServer.applied, wServer.other} \subseteq 1..Len(wHist')
    BY <1>1, <1>2, <1>3
  <2> QED
    BY <1>1, <2>1, NothingPassed DEF WatchInv, WatchTypes
<1>5. Modes' /\ Passed'
  BY <1>1, NothingPassed DEF WatchInv, Modes, Live, Passed, PeerIds
<1>6. QueueOK'
  <2>1. Queue' = Queue
    BY <1>1 DEF Queue
  <2> QED
    BY <1>1, <1>3, <2>1 DEF WatchInv, QueueOK, Live
<1>7. PeersSent'
  BY <1>1 DEF WatchInv, PeersSent, PeerIds, Live, Watch!IdsOf
<1> QED
  BY <1>1, <1>4, <1>5, <1>6, <1>7 DEF WatchInv

(* What a step that only changes wServer has to show. *)
LEMMA ServerStep ==
  ASSUME WatchInv, UNCHANGED <<wHist, wSub, wWatch, wOut, wAdapter>>,
         wServer' \in [applied : Nat, other : Nat, broadcasting : Seq(WEvent), stuck : BOOLEAN],
         {wServer'.applied, wServer'.other} \subseteq 1..Len(wHist),
         wFaults' \in [disconnects : Nat, giveUps : Nat, snapshots : Nat],
         wFaults'.giveUps = wFaults.giveUps, Live' => Live, QueueOK'
  PROVE  WatchInv'
<1>1. HistInv'
  BY DEF WatchInv, HistInv
<1>2. WatchTypes'
  BY NothingPassed DEF WatchInv, WatchTypes
<1>3. Modes' /\ Passed'
  BY NothingPassed DEF WatchInv, Modes, Passed, PeerIds
<1>4. PeersSent'
  BY DEF WatchInv, PeersSent, PeerIds, Watch!IdsOf
<1> QED
  BY <1>1, <1>2, <1>3, <1>4 DEF WatchInv

LEMMA ApplyKeeps == ASSUME Setting, WatchInv, Watch!ApplyEntry PROVE WatchInv'
<1> DEFINE k == wServer.applied  o == wHist[k + 1]  d == wHist[k].data
           n == Len(wSub.buf)  m == Len(o.events)
<1>1. /\ wServer \in [applied : Nat, other : Nat, broadcasting : Seq(WEvent), stuck : BOOLEAN]
      /\ k \in 1..Len(wHist) /\ wServer.other \in 1..Len(wHist) /\ Len(wHist) \in Nat
  BY Appended DEF WatchInv, WatchTypes, HistInv
<1>2. /\ wServer.broadcasting = <<>> /\ k < Len(wHist)
      /\ wServer' = [wServer EXCEPT !.applied = k + 1, !.broadcasting = o.events]
      /\ UNCHANGED <<wHist, wSub, wWatch, wOut, wAdapter, wFaults>>
  BY DEF Watch!ApplyEntry, Watch!Unlocked
<1>3. k + 1 \in 2..Len(wHist) /\ k + 1 \in 1..Len(wHist)
  BY <1>1, <1>2
<1>4. Linked(d, o)
  <2>1. \A j \in 2..Len(wHist) : Linked(wHist[j - 1].data, wHist[j])
    BY DEF WatchInv, HistInv
  <2>2. PICK j \in 2..Len(wHist) : j = k + 1
    BY <1>3
  <2>3. j - 1 = k
    BY <1>1, <2>2
  <2> QED
    BY <2>1, <2>2, <2>3
<1>5. o.events \in Seq(WEvent) /\ m \in Nat /\ DOMAIN o.events = 1..m
  BY <1>4 DEF Linked
<1> HIDE DEF o, d, m, k
<1>6. /\ wServer' \in [applied : Nat, other : Nat, broadcasting : Seq(WEvent), stuck : BOOLEAN]
      /\ wServer'.applied = k + 1 /\ wServer'.other = wServer.other
      /\ wServer'.broadcasting = o.events
  <2>1. k + 1 \in Nat
    BY <1>3
  <2> QED
    BY <1>1, <1>2, <1>5, <2>1
<1>7. wSub.buf \in Seq(WEvent) /\ wServer.broadcasting \in Seq(WEvent)
  BY DEF WatchInv, WatchTypes
<1>8. n \in Nat /\ Queue \in [1..n -> WEvent] /\ \A p \in 1..n : Queue[p] = wSub.buf[p]
  <2>1. Len(wServer.broadcasting) = 0
    BY <1>2
  <2>2. n \in Nat /\ n + Len(wServer.broadcasting) = n
    BY <1>7, <2>1
  <2>3. /\ Queue \in [1..n + Len(wServer.broadcasting) -> WEvent]
        /\ \A p \in 1..n : Queue[p] = wSub.buf[p]
    BY <1>7, QueueTypes DEF Queue
  <2> QED
    BY <2>2, <2>3
<1>9. /\ Queue' \in [1..n + m -> WEvent] /\ \A p \in 1..m : Queue'[n + p] = o.events[p]
      /\ \A p \in 1..n : Queue'[p] = wSub.buf[p]
  <2>1. Queue' = Joining(wSub.buf, o.events)
    BY <1>2, <1>6 DEF Queue
  <2> QED
    BY <1>5, <1>7, <2>1, QueueTypes DEF m
<1>10. \A p \in 1..n : Queue'[p] = Queue[p]
  BY <1>8, <1>9
<1>11. Live' = Live
  BY <1>2 DEF Live
<1>12. QueueOK'
  <2> SUFFICES ASSUME Live PROVE QueueInv(Queue', wWatch, o.data)
    BY <1>2, <1>6, <1>11 DEF QueueOK, o
  <2>1. QueueInv(Queue, wWatch, d)
    BY DEF WatchInv, QueueOK, d, k
  <2> QED
    BY <1>4, <1>5, <1>8, <1>9, <1>10, <2>1, QueueGrows
<1> QED
  BY <1>1, <1>2, <1>3, <1>6, <1>11, <1>12, ServerStep DEF WatchInv, WatchTypes

LEMMA OtherKeeps == ASSUME Setting, WatchInv, Watch!ApplyOther PROVE WatchInv'
<1>1. /\ wServer \in [applied : Nat, other : Nat, broadcasting : Seq(WEvent), stuck : BOOLEAN]
      /\ wServer.applied \in 1..Len(wHist) /\ wServer.other \in 1..Len(wHist) /\ Len(wHist) \in Nat
  BY Appended DEF WatchInv, WatchTypes, HistInv
<1>2. /\ wServer.other < Len(wHist) /\ wServer' = [wServer EXCEPT !.other = wServer.other + 1]
      /\ UNCHANGED <<wHist, wSub, wWatch, wOut, wAdapter, wFaults>>
  BY DEF Watch!ApplyOther
<1>3. /\ wServer' \in [applied : Nat, other : Nat, broadcasting : Seq(WEvent), stuck : BOOLEAN]
      /\ wServer'.applied = wServer.applied /\ wServer'.other = wServer.other + 1
      /\ wServer'.broadcasting = wServer.broadcasting
  BY <1>1, <1>2
<1>4. wServer.other + 1 \in 1..Len(wHist)
  BY <1>1, <1>2
<1>5. Live' = Live /\ Queue' = Queue
  BY <1>2, <1>3 DEF Live, Queue
<1>6. QueueOK'
  BY <1>2, <1>3, <1>5 DEF WatchInv, QueueOK
<1> QED
  BY <1>1, <1>2, <1>3, <1>4, <1>5, <1>6, ServerStep DEF WatchInv, WatchTypes

(* A snapshot ends the watch's claim to have missed nothing. *)
LEMMA RestoreKeeps == ASSUME Setting, WatchInv, Watch!Restore PROVE WatchInv'
<1>1. /\ wServer \in [applied : Nat, other : Nat, broadcasting : Seq(WEvent), stuck : BOOLEAN]
      /\ wServer.applied \in 1..Len(wHist) /\ wServer.other \in 1..Len(wHist) /\ Len(wHist) \in Nat
      /\ wFaults \in [disconnects : Nat, giveUps : Nat, snapshots : Nat]
  BY Appended DEF WatchInv, WatchTypes, HistInv
<1>2. /\ wFaults' = [wFaults EXCEPT !.snapshots = wFaults.snapshots + 1]
      /\ \E k \in wServer.applied + 1..Len(wHist) : wServer' = [wServer EXCEPT !.applied = k]
      /\ UNCHANGED <<wHist, wSub, wWatch, wOut, wAdapter>>
  BY DEF Watch!Restore
<1>3. PICK k \in wServer.applied + 1..Len(wHist) : wServer' = [wServer EXCEPT !.applied = k]
  BY <1>2
<1>4. k \in Nat /\ k \in 1..Len(wHist)
  BY <1>1
<1>5. /\ wServer' \in [applied : Nat, other : Nat, broadcasting : Seq(WEvent), stuck : BOOLEAN]
      /\ wServer'.applied = k /\ wServer'.other = wServer.other
  BY <1>1, <1>3, <1>4
<1>6. /\ wFaults' \in [disconnects : Nat, giveUps : Nat, snapshots : Nat]
      /\ wFaults'.giveUps = wFaults.giveUps /\ wFaults'.snapshots # 0
  BY <1>1, <1>2
<1>7. ~Live'
  BY <1>6 DEF Live
<1>8. QueueOK'
  BY <1>7 DEF QueueOK
<1> QED
  BY <1>1, <1>2, <1>4, <1>5, <1>6, <1>7, <1>8, ServerStep

(* An event moves into the channel, and out of it. *)
LEMMA MoveOne ==
  ASSUME NEW b \in Seq(WEvent), NEW t \in Seq(WEvent), t # <<>>
  PROVE  /\ Append(b, Head(t)) \in Seq(WEvent) /\ Tail(t) \in Seq(WEvent)
         /\ Joining(Append(b, Head(t)), Tail(t)) = Joining(b, t)
<1>1. /\ Len(b) \in Nat /\ Len(t) \in Nat /\ Len(t) >= 1 /\ Head(t) = t[1] /\ Head(t) \in WEvent
      /\ Tail(t) \in Seq(WEvent) /\ Len(Tail(t)) = Len(t) - 1
      /\ \A p \in 1..Len(t) - 1 : Tail(t)[p] = t[p + 1]
  OBVIOUS
<1>2. /\ Append(b, Head(t)) \in Seq(WEvent) /\ Len(Append(b, Head(t))) = Len(b) + 1
      /\ \A p \in 1..Len(b) : Append(b, Head(t))[p] = b[p]
      /\ Append(b, Head(t))[Len(b) + 1] = Head(t)
  BY <1>1
<1> DEFINE b2 == Append(b, Head(t))  t2 == Tail(t)
<1> HIDE DEF b2, t2
<1>3. Len(b2) + Len(t2) = Len(b) + Len(t)
  BY <1>1, <1>2 DEF b2, t2
<1>4. ASSUME NEW p \in 1..Len(b) + Len(t)
      PROVE  (IF p <= Len(b2) THEN b2[p] ELSE t2[p - Len(b2)]) = IF p <= Len(b) THEN b[p] ELSE t[p - Len(b)]
  <2>1. CASE p <= Len(b)
    BY <1>1, <1>2, <2>1 DEF b2
  <2>2. CASE p = Len(b) + 1
    <3>1. p - Len(b) = 1 /\ ~(p <= Len(b)) /\ p <= Len(b2)
      BY <1>1, <1>2, <2>2 DEF b2
    <3> QED
      BY <1>1, <1>2, <2>2, <3>1 DEF b2
  <2>3. CASE p > Len(b) + 1
    <3>1. /\ p - Len(b2) \in 1..Len(t) - 1 /\ (p - Len(b2)) + 1 = p - Len(b)
          /\ ~(p <= Len(b)) /\ ~(p <= Len(b2))
      BY <1>1, <1>2, <2>3 DEF b2
    <3>2. t2[p - Len(b2)] = t[(p - Len(b2)) + 1]
      BY <1>1, <3>1 DEF t2
    <3> QED
      BY <3>1, <3>2
  <2> QED
    BY <1>1, <2>1, <2>2, <2>3
<1>5. Joining(b2, t2) = Joining(b, t)
  BY <1>3, <1>4 DEF Joining
<1> QED
  BY <1>1, <1>2, <1>5 DEF b2, t2

LEMMA DropOne ==
  ASSUME NEW b \in Seq(WEvent), NEW t \in Seq(WEvent), b # <<>>
  PROVE  LET n == Len(b) + Len(t) IN
         /\ n \in Nat /\ n > 0 /\ Tail(b) \in Seq(WEvent) /\ Head(b) \in WEvent
         /\ Joining(b, t) \in [1..n -> WEvent] /\ Joining(Tail(b), t) \in [1..n - 1 -> WEvent]
         /\ Joining(b, t)[1] = Head(b)
         /\ \A p \in 1..n - 1 : Joining(Tail(b), t)[p] = Joining(b, t)[p + 1]
<1>1. /\ Len(b) \in Nat /\ Len(t) \in Nat /\ Len(b) >= 1 /\ Head(b) = b[1] /\ Head(b) \in WEvent
      /\ Tail(b) \in Seq(WEvent) /\ Len(Tail(b)) = Len(b) - 1
      /\ \A p \in 1..Len(b) - 1 : Tail(b)[p] = b[p + 1]
  OBVIOUS
<1> DEFINE b2 == Tail(b)  n == Len(b) + Len(t)
<1> HIDE DEF b2
<1>2. n \in Nat /\ n > 0 /\ Len(b2) + Len(t) = n - 1
  BY <1>1 DEF b2
<1>3. Joining(b, t) \in [1..n -> WEvent] /\ Joining(b, t)[1] = b[1]
  BY <1>1, QueueTypes
<1>4. Joining(b2, t) \in [1..n - 1 -> WEvent]
  <2>1. Joining(b2, t) \in [1..Len(b2) + Len(t) -> WEvent]
    BY <1>1, QueueTypes DEF b2
  <2> QED
    BY <1>2, <2>1
<1>5. ASSUME NEW p \in 1..n - 1 PROVE Joining(b2, t)[p] = Joining(b, t)[p + 1]
  <2>1. Joining(b2, t)[p] = IF p <= Len(b2) THEN b2[p] ELSE t[p - Len(b2)]
    BY <1>2 DEF Joining
  <2>2. p + 1 \in 1..n
    BY <1>2
  <2>3. Joining(b, t)[p + 1] = IF p + 1 <= Len(b) THEN b[p + 1] ELSE t[(p + 1) - Len(b)]
    BY <2>2 DEF Joining
  <2>4. (p <= Len(b2) <=> p + 1 <= Len(b)) /\ p - Len(b2) = (p + 1) - Len(b)
    BY <1>1 DEF b2
  <2>5. p <= Len(b2) => b2[p] = b[p + 1]
    BY <1>1 DEF b2
  <2> QED
    BY <2>1, <2>3, <2>4, <2>5
<1> QED
  BY <1>1, <1>2, <1>3, <1>4, <1>5 DEF b2

(* What a step that changes wServer and wSub has to show. *)
LEMMA StreamStep ==
  ASSUME WatchInv, UNCHANGED <<wHist, wWatch, wOut, wAdapter, wFaults>>,
         wServer' \in [applied : Nat, other : Nat, broadcasting : Seq(WEvent), stuck : BOOLEAN],
         {wServer'.applied, wServer'.other} \subseteq 1..Len(wHist),
         wSub' \in [state : {"none", "open", "closed"}, closing : BOOLEAN, buf : Seq(WEvent)],
         wWatch.state # "disconnected" /\ ~wSub'.closing => wSub'.state = "open",
         Live' => Live, QueueOK'
  PROVE  WatchInv'
<1>1. HistInv'
  BY DEF WatchInv, HistInv
<1>2. WatchTypes'
  BY NothingPassed DEF WatchInv, WatchTypes
<1>3. Modes' /\ Passed'
  BY NothingPassed DEF WatchInv, Modes, Passed, PeerIds
<1>4. PeersSent'
  BY DEF WatchInv, PeersSent, PeerIds, Watch!IdsOf
<1> QED
  BY <1>1, <1>2, <1>3, <1>4 DEF WatchInv

LEMMA BroadcastKeeps == ASSUME Setting, WatchInv, Watch!broadcast PROVE WatchInv'
<1>1. /\ wServer \in [applied : Nat, other : Nat, broadcasting : Seq(WEvent), stuck : BOOLEAN]
      /\ {wServer.applied, wServer.other} \subseteq 1..Len(wHist)
      /\ wSub \in [state : {"none", "open", "closed"}, closing : BOOLEAN, buf : Seq(WEvent)]
      /\ wWatch.state # "disconnected" /\ ~wSub.closing => wSub.state = "open"
  BY DEF WatchInv, WatchTypes, Modes
<1>2. /\ wServer.broadcasting # <<>>
      /\ wServer' = [wServer EXCEPT !.broadcasting = Tail(wServer.broadcasting)]
      /\ \/ wSub.state # "open" /\ wSub' = wSub
         \/ wSub.state = "open" /\ wSub' = [wSub EXCEPT !.buf = Append(wSub.buf, Head(wServer.broadcasting))]
         \/ wSub' = [wSub EXCEPT !.closing = TRUE]
      /\ UNCHANGED <<wHist, wWatch, wOut, wAdapter, wFaults>>
  BY DEF Watch!broadcast
<1> DEFINE b == wSub.buf  t == wServer.broadcasting
<1>3. /\ Append(b, Head(t)) \in Seq(WEvent) /\ Tail(t) \in Seq(WEvent)
      /\ Joining(Append(b, Head(t)), Tail(t)) = Joining(b, t)
  BY <1>1, <1>2, MoveOne
<1>4. /\ wServer' \in [applied : Nat, other : Nat, broadcasting : Seq(WEvent), stuck : BOOLEAN]
      /\ wServer'.applied = wServer.applied /\ wServer'.other = wServer.other
      /\ wServer'.broadcasting = Tail(t)
  BY <1>1, <1>2, <1>3
<1>5. CASE wSub.state # "open" /\ wSub' = wSub
  <2>1. ~Live' /\ QueueOK'
    BY <1>1, <1>2, <1>5 DEF Live, QueueOK
  <2> QED
    BY <1>1, <1>2, <1>4, <1>5, <2>1, StreamStep
<1>6. CASE wSub.state = "open" /\ wSub' = [wSub EXCEPT !.buf = Append(b, Head(t))]
  <2>1. /\ wSub' \in [state : {"none", "open", "closed"}, closing : BOOLEAN, buf : Seq(WEvent)]
        /\ wSub'.state = "open" /\ wSub'.closing = wSub.closing /\ wSub'.buf = Append(b, Head(t))
    BY <1>1, <1>3, <1>6
  <2>2. Live' = Live
    BY <1>2, <2>1 DEF Live
  <2>3. Queue' = Queue
    BY <1>3, <1>4, <2>1 DEF Queue
  <2>4. QueueOK'
    BY <1>2, <1>4, <2>2, <2>3 DEF WatchInv, QueueOK
  <2> QED
    BY <1>1, <1>2, <1>4, <2>1, <2>2, <2>4, StreamStep
<1>7. CASE wSub' = [wSub EXCEPT !.closing = TRUE]
  <2>1. /\ wSub' \in [state : {"none", "open", "closed"}, closing : BOOLEAN, buf : Seq(WEvent)]
        /\ wSub'.closing
    BY <1>1, <1>7
  <2>2. ~Live' /\ QueueOK'
    BY <2>1 DEF Live, QueueOK
  <2> QED
    BY <1>1, <1>2, <1>4, <2>1, <2>2, StreamStep
<1> QED
  BY <1>2, <1>5, <1>6, <1>7

(* A subscription that is being closed owes the watch nothing. *)
LEMMA ClosingKeeps == ASSUME Setting, WatchInv, Watch!drain \/ Watch!close PROVE WatchInv'
<1>1. /\ wServer \in [applied : Nat, other : Nat, broadcasting : Seq(WEvent), stuck : BOOLEAN]
      /\ {wServer.applied, wServer.other} \subseteq 1..Len(wHist)
      /\ wSub \in [state : {"none", "open", "closed"}, closing : BOOLEAN, buf : Seq(WEvent)]
  BY DEF WatchInv, WatchTypes
<1>2. /\ wSub.closing /\ UNCHANGED <<wHist, wServer, wWatch, wOut, wAdapter, wFaults>>
      /\ \/ wSub.buf # <<>> /\ wSub' = [wSub EXCEPT !.buf = Tail(wSub.buf)]
         \/ wSub' = [wSub EXCEPT !.state = "closed"]
  BY DEF Watch!drain, Watch!close
<1>3. /\ wSub' \in [state : {"none", "open", "closed"}, closing : BOOLEAN, buf : Seq(WEvent)]
      /\ wSub'.closing
  <2>1. CASE wSub.buf # <<>> /\ wSub' = [wSub EXCEPT !.buf = Tail(wSub.buf)]
    <3>1. Tail(wSub.buf) \in Seq(WEvent)
      BY <1>1, <2>1
    <3> QED
      BY <1>1, <1>2, <2>1, <3>1
  <2>2. CASE wSub' = [wSub EXCEPT !.state = "closed"]
    BY <1>1, <1>2, <2>2
  <2> QED
    BY <1>2, <2>1, <2>2
<1>4. ~Live' /\ QueueOK'
  BY <1>3 DEF Live, QueueOK
<1> QED
  BY <1>1, <1>2, <1>3, <1>4, StreamStep

-----------------------------------------------------------------------------
(* The watch connects and loses its connection. *)

WatchRecord ==
  [state : {"disconnected", "connected", "reporting"}, insts : [Ids -> Inst],
   leader : Ids \cup {None}, meta : Nat, isCurrent : BOOLEAN, current : SUBSET Ids]

(* What is on its way to a watch that has subscribed is the snapshot. *)
LEMMA JoiningNothing == ASSUME NEW b \in Seq(WEvent) PROVE Joining(b, <<>>) = b
<1>1. Len(b) \in Nat /\ Len(<<>>) = 0 /\ Len(b) + 0 = Len(b) /\ b = [p \in 1..Len(b) |-> b[p]]
  OBVIOUS
<1>2. Joining(b, <<>>) = [p \in 1..Len(b) |-> IF p <= Len(b) THEN b[p] ELSE <<>>[p - Len(b)]]
  BY <1>1 DEF Joining
<1>3. \A p \in 1..Len(b) : p <= Len(b)
  BY <1>1
<1> QED
  BY <1>1, <1>2, <1>3

LEMMA SubscribeKeeps == ASSUME Setting, WatchInv, Watch!Subscribe PROVE WatchInv'
<1> DEFINE swap == [wServer EXCEPT !.applied = wServer.other, !.other = wServer.applied]
           ST == [applied : Nat, other : Nat, broadcasting : Seq(WEvent), stuck : BOOLEAN]
<1>1. /\ wServer \in ST /\ wServer.applied \in 1..Len(wHist) /\ wServer.other \in 1..Len(wHist)
      /\ wWatch \in WatchRecord /\ Len(wHist) \in Nat
  BY Appended DEF WatchInv, WatchTypes, HistInv, WatchRecord
<1>2. /\ wWatch.state = "disconnected" /\ wServer.broadcasting = <<>>
      /\ UNCHANGED <<wHist, wOut, wAdapter, wFaults>>
  BY DEF Watch!Subscribe, Watch!Unlocked
<1>3. /\ wWatch.isCurrent = FALSE /\ wWatch.current = {} /\ wOut = Watch!NoEvent
  BY <1>1, <1>2 DEF WatchInv, Modes, WatchRecord
<1>4. PICK s \in {wServer, swap} :
        LET now == Watch!Current(wHist[s.applied].data) IN
        IF Len(now) <= BufferSize
        THEN /\ wServer' = s /\ wSub' = Watch!NewSub("open", now)
             /\ wWatch' = [wWatch EXCEPT !.state = "connected"]
        ELSE wServer' = [s EXCEPT !.stuck = TRUE] /\ UNCHANGED <<wSub, wWatch>>
  BY DEF Watch!Subscribe
<1>5. swap \in ST /\ swap.applied = wServer.other /\ swap.other = wServer.applied
      /\ swap.broadcasting = wServer.broadcasting
  BY <1>1
<1>6. s \in ST /\ {s.applied, s.other} \subseteq 1..Len(wHist) /\ s.broadcasting = <<>>
  <2> HIDE DEF swap, ST
  <2>1. s = wServer \/ s = swap
    BY <1>4
  <2> QED
    BY <1>1, <1>2, <1>5, <2>1
<1> DEFINE d == wHist[s.applied].data  now == Watch!Current(d)
<1>7. CASE Len(now) <= BufferSize
  <2>1. /\ wServer' = s /\ wSub' = Watch!NewSub("open", now)
        /\ wWatch' = [wWatch EXCEPT !.state = "connected"]
    BY <1>4, <1>7
  <2>2. d \in Data /\ \E n \in Nat : Distinct(d, n)
    BY <1>6 DEF WatchInv, HistInv
  <2>3. Snapshot(now, d)
    BY <2>2, CurrentSnapshot
  <2> HIDE DEF d, now
  <2>4. now \in Seq(WEvent)
    BY <2>3 DEF Snapshot
  <2>5. wSub' = [state |-> "open", closing |-> FALSE, buf |-> now]
    BY <2>1 DEF Watch!NewSub
  <2>6. /\ wWatch' \in WatchRecord /\ wWatch'.state = "connected" /\ wWatch'.isCurrent = FALSE
        /\ wWatch'.current = {} /\ wWatch'.insts = wWatch.insts /\ wWatch'.meta = wWatch.meta
    BY <1>1, <1>3, <2>1 DEF WatchRecord
  <2>7. Queue' = now
    BY <1>6, <2>1, <2>4, <2>5, JoiningNothing DEF Queue
  <2>8. QueueInv(now, wWatch', d)
    BY <2>2, <2>3, <2>6, SnapshotQueue
  <2>9. QueueOK'
    BY <1>2, <2>1, <2>7, <2>8 DEF QueueOK, d
  <2>10. HistInv'
    BY <1>2 DEF WatchInv, HistInv
  <2>11. wSub' \in [state : {"none", "open", "closed"}, closing : BOOLEAN, buf : Seq(WEvent)]
    BY <2>4, <2>5
  <2>12. WatchTypes'
    BY <1>2, <1>6, <2>1, <2>6, <2>11, NothingPassed DEF WatchInv, WatchTypes, WatchRecord
  <2>13. Modes'
    BY <2>5, <2>6 DEF Modes
  <2>14. Passed'
    BY <1>2, <2>6, NothingPassed DEF WatchInv, Passed, PeerIds
  <2>15. PeersSent'
    BY <1>2, <2>6 DEF WatchInv, PeersSent
  <2> QED
    BY <2>9, <2>10, <2>12, <2>13, <2>14, <2>15 DEF WatchInv
<1>8. CASE ~(Len(now) <= BufferSize)
  <2>1. wServer' = [s EXCEPT !.stuck = TRUE] /\ UNCHANGED <<wSub, wWatch>>
    BY <1>4, <1>8
  <2> HIDE DEF now
  <2>2. wServer' \in ST /\ wServer'.applied = s.applied /\ wServer'.other = s.other
    BY <1>6, <2>1
  <2>3. ~Live' /\ QueueOK'
    BY <1>2, <2>1 DEF Live, QueueOK
  <2>4. wFaults' \in [disconnects : Nat, giveUps : Nat, snapshots : Nat]
    BY <1>2 DEF WatchInv, WatchTypes
  <2> QED
    BY <1>2, <1>6, <2>1, <2>2, <2>3, <2>4, ServerStep
<1> QED
  BY <1>7, <1>8

(* A watch without a connection has missed something. *)
LEMMA DisconnectedStep ==
  ASSUME WatchInv, UNCHANGED <<wHist, wServer>>,
         wSub' \in [state : {"none", "open", "closed"}, closing : BOOLEAN, buf : Seq(WEvent)],
         wWatch' \in WatchRecord, wWatch'.state = "disconnected", ~wWatch'.isCurrent,
         wWatch'.current = {}, wOut = Watch!NoEvent, wOut' = wOut,
         wFaults' \in [disconnects : Nat, giveUps : Nat, snapshots : Nat],
         \/ /\ wWatch'.insts = wWatch.insts /\ wWatch'.meta = wWatch.meta
            /\ wAdapter' = wAdapter /\ wFaults'.giveUps = wFaults.giveUps
         \/ /\ wWatch'.insts = [i \in Ids |-> Absent] /\ wWatch'.meta = 0
            /\ wAdapter' = [wAdapter EXCEPT !.current = FALSE] /\ wFaults'.giveUps # 0
  PROVE  WatchInv'
<1>1. wOut.kind = "none" /\ wOut' = Watch!NoEvent'
  BY NothingPassed
<1>2. HistInv'
  BY DEF WatchInv, HistInv
<1>3. ~Live' /\ QueueOK'
  BY DEF Live, QueueOK
<1>4. wAdapter \in [peers : Seq(Peer), state : Nat, initialized : BOOLEAN, current : BOOLEAN,
                    sentPeers : Seq(Ids), sentIndex : Nat]
  BY DEF WatchInv, WatchTypes
<1>5. /\ wAdapter' \in [peers : Seq(Peer), state : Nat, initialized : BOOLEAN, current : BOOLEAN,
                        sentPeers : Seq(Ids), sentIndex : Nat]
      /\ wAdapter'.peers = wAdapter.peers /\ wAdapter'.state = wAdapter.state
      /\ wAdapter'.initialized = wAdapter.initialized /\ wAdapter'.sentIndex = wAdapter.sentIndex
      /\ wAdapter'.current => wAdapter.current
  BY <1>4
<1>6. WatchTypes'
  BY <1>1, <1>5 DEF WatchInv, WatchTypes, WatchRecord
<1>7. Modes'
  BY <1>1 DEF Modes
<1>8. Passed'
  BY <1>1, <1>4, <1>5 DEF WatchInv, Passed, PeerIds
<1>9. PeersSent'
  BY <1>3, <1>5 DEF WatchInv, PeersSent
<1> QED
  BY <1>2, <1>3, <1>6, <1>7, <1>8, <1>9 DEF WatchInv

LEMMA DisconnectKeeps ==
  ASSUME Setting, WatchInv, Watch!EndOfStream \/ Watch!Disconnect \/ Watch!GiveUp
  PROVE  WatchInv'
<1>1. /\ wWatch \in WatchRecord /\ wFaults \in [disconnects : Nat, giveUps : Nat, snapshots : Nat]
      /\ wSub \in [state : {"none", "open", "closed"}, closing : BOOLEAN, buf : Seq(WEvent)]
  BY DEF WatchInv, WatchTypes, WatchRecord
<1>2. CASE Watch!EndOfStream \/ Watch!Disconnect
  <2>1. /\ wOut = Watch!NoEvent /\ wWatch' = Watch!Disconnected(wWatch)
        /\ wSub' = Watch!NewSub("none", <<>>) /\ UNCHANGED <<wHist, wServer, wOut, wAdapter>>
        /\ wFaults' = wFaults \/ wFaults' = [wFaults EXCEPT !.disconnects = wFaults.disconnects + 1]
    BY <1>2 DEF Watch!EndOfStream, Watch!Disconnect
  <2>2. wSub' \in [state : {"none", "open", "closed"}, closing : BOOLEAN, buf : Seq(WEvent)]
    BY <2>1 DEF Watch!NewSub
  <2>3. /\ wFaults' \in [disconnects : Nat, giveUps : Nat, snapshots : Nat]
        /\ wFaults'.giveUps = wFaults.giveUps
    BY <1>1, <2>1
  <2>4. wWatch' = [state |-> "disconnected", insts |-> wWatch.insts, leader |-> wWatch.leader,
                   meta |-> wWatch.meta, isCurrent |-> FALSE, current |-> {}]
    <3>1. wWatch' = [[[wWatch EXCEPT !.state = "disconnected"] EXCEPT !.isCurrent = FALSE]
                       EXCEPT !.current = {}]
      BY <2>1 DEF Watch!Disconnected
    <3> QED
      BY <1>1, <3>1 DEF WatchRecord
  <2>5. /\ wWatch' \in WatchRecord /\ wWatch'.state = "disconnected" /\ ~wWatch'.isCurrent
        /\ wWatch'.current = {} /\ wWatch'.insts = wWatch.insts /\ wWatch'.meta = wWatch.meta
    BY <1>1, <2>4 DEF WatchRecord
  <2> QED
    BY <2>1, <2>2, <2>3, <2>5, DisconnectedStep
<1>3. CASE Watch!GiveUp
  <2>1. /\ wWatch.state = "disconnected" /\ wWatch' = Watch!NewWatch("disconnected")
        /\ wFaults' = [wFaults EXCEPT !.giveUps = wFaults.giveUps + 1]
        /\ wAdapter' = [wAdapter EXCEPT !.current = FALSE]
        /\ UNCHANGED <<wHist, wServer, wSub, wOut>>
    BY <1>3 DEF Watch!GiveUp
  <2>2. wOut = Watch!NoEvent
    BY <2>1 DEF WatchInv, Modes
  <2>3. /\ wFaults' \in [disconnects : Nat, giveUps : Nat, snapshots : Nat]
        /\ wFaults'.giveUps # 0
    BY <1>1, <2>1
  <2>4. wWatch' = [state |-> "disconnected", insts |-> [i \in Ids |-> Absent], leader |-> None,
                   meta |-> 0, isCurrent |-> FALSE, current |-> {}]
    BY <2>1, Zenon DEF Watch!NewWatch, Watch!Absent, Absent, Watch!None, None
  <2>5. Absent \in Inst
    BY DEF Absent, Inst
  <2>6. /\ wWatch' \in WatchRecord /\ wWatch'.state = "disconnected" /\ ~wWatch'.isCurrent
        /\ wWatch'.current = {} /\ wWatch'.insts = [i \in Ids |-> Absent] /\ wWatch'.meta = 0
    BY <2>4, <2>5 DEF WatchRecord
  <2> QED
    BY <1>1, <2>1, <2>2, <2>3, <2>6, DisconnectedStep
<1> QED
  BY <1>2, <1>3

(* At first nothing has been said. *)
LEMMA WatchStart == ASSUME Setting, Watch!Init PROVE WatchInv
<1> DEFINE d == [newRaftData EXCEPT !.config = "oldest"]
<1>1. Absent \in Inst /\ NoMeta \in Meta
  BY DEF Absent, Inst, NoMeta, Meta
<1>2. PICK f : f = [i \in Ids |-> Absent]
  OBVIOUS
<1>3. f \in [Ids -> Inst] /\ \A i \in Ids : f[i] = Absent
  BY <1>1, <1>2
<1>4. d \in Data /\ Registered(d) = {}
  <2>1. newRaftData = [config |-> "none", insts |-> f, known |-> FALSE, leader |-> "unset",
                       meta |-> NoMeta]
    BY <1>2, Zenon DEF newRaftData
  <2>2. newRaftData \in Data /\ newRaftData.insts = f
    BY <1>1, <1>3, <2>1 DEF Data, Meta
  <2>3. d \in Data /\ d.insts = f
    BY <2>2 DEF Data
  <2> HIDE DEF d
  <2> QED
    BY <1>3, <2>3 DEF Registered
<1>5. wHist = << [data |-> d, events |-> <<>>, writes |-> {}] >>
  <2>1. Watch!newRaftData = newRaftData
    BY Zenon DEF Watch!newRaftData, newRaftData, Watch!Absent, Absent, Watch!None, None,
       Watch!NoMeta, NoMeta
  <2> QED
    BY <2>1, Zenon DEF Watch!Init, Watch!Outcome
<1>6. HistInv
  <2>1. Len(wHist) = 1 /\ wHist[1].data = d /\ IsSeq(wHist)
    <3>1. wHist \in Seq({wHist[1]})
      BY <1>5
    <3> QED
      BY <1>5, <3>1 DEF IsSeq
  <2> HIDE DEF d
  <2>2. \A k \in 1..Len(wHist) : wHist[k].data \in Data /\ Distinct(wHist[k].data, k)
    BY <1>4, <2>1 DEF Distinct
  <2> QED
    BY <2>1, <2>2 DEF HistInv
<1>7. /\ wServer = [applied |-> 1, other |-> 1, broadcasting |-> <<>>, stuck |-> FALSE]
      /\ wSub = [state |-> "none", closing |-> FALSE, buf |-> <<>>] /\ wOut = Watch!NoEvent
      /\ wAdapter = [peers |-> <<>>, state |-> 0, initialized |-> FALSE, current |-> FALSE,
                     sentPeers |-> <<>>, sentIndex |-> 0]
      /\ wFaults = [disconnects |-> 0, giveUps |-> 0, snapshots |-> 0]
  BY DEF Watch!Init, Watch!NewSub
<1>8. wWatch = [state |-> "disconnected", insts |-> [i \in Ids |-> Absent], leader |-> None,
                meta |-> 0, isCurrent |-> FALSE, current |-> {}]
  BY Zenon DEF Watch!Init, Watch!NewWatch, Watch!Absent, Absent, Watch!None, None
<1>9. wWatch \in WatchRecord
  BY <1>1, <1>8 DEF WatchRecord
<1>10. Len(wHist) = 1
  BY <1>5
<1>11. WatchTypes
  BY <1>7, <1>9, <1>10 DEF WatchTypes, WatchRecord
<1>12. Modes /\ ~Live /\ QueueOK
  BY <1>7, <1>8 DEF Modes, Live, QueueOK
<1>13. PeerIds(wAdapter.peers) = {}
  BY <1>7 DEF PeerIds
<1>14. Passed /\ PeersSent
  BY <1>7, <1>8, <1>12, <1>13, NothingPassed DEF Passed, PeersSent
<1> QED
  BY <1>6, <1>11, <1>12, <1>14 DEF WatchInv

-----------------------------------------------------------------------------
(* What Watch makes of an event. *)

Passing(e, w, w2, o) ==
  \/ /\ e.kind = "up" /\ w2.insts = [w.insts EXCEPT ![e.id] = e.inst] /\ w2.meta = w.meta
     /\ \/ o.kind \in {"up", "update"} /\ o.id = e.id
        \/ o.kind = "none" /\ w.insts[e.id] # Absent
     /\ w.isCurrent => o.kind = "up"
  \/ e.kind = "update" /\ w2.insts = [w.insts EXCEPT ![e.id] = e.inst] /\ w2.meta = w.meta /\ o = e
  \/ e.kind = "down" /\ w2.insts = [w.insts EXCEPT ![e.id] = Absent] /\ w2.meta = w.meta /\ o = e
  \/ /\ e.kind \in {"leader", "current"} /\ w2.insts = w.insts /\ w2.meta = w.meta
     /\ o.kind \in {"leader", "none"}
  \/ /\ e.kind = "meta" /\ w2.insts = w.insts
     /\ \/ o.kind = "none" /\ w2.meta = w.meta
        \/ o = e /\ w2.meta = e.meta.index

LEMMA WatchEvent ==
  ASSUME NEW w \in WatchRecord, NEW e \in WEvent, w.state = "connected",
         NEW r, r = Watch!Watch(w, e)
  PROVE  /\ r.watch \in WatchRecord /\ r.out \in WEvent \cup {Watch!NoEvent}
         /\ Passing(e, w, r.watch, r.out)
         /\ r.watch.isCurrent = w.isCurrent /\ r.watch.state # "disconnected"
         /\ w.isCurrent \/ e.kind \notin {"update", "down"} => Heeds(e, w, r.watch)
<1> DEFINE w2 == r.watch  o == r.out
<1>1. Watch!Absent = Absent /\ Absent \in Inst
  BY DEF Watch!Absent, Absent, Watch!None, None, Inst
<1>2. Watch!NoEvent.kind = "none"
  BY NothingPassed
<1>3. CASE e.kind = "up"
  <2>1. e.id \in Ids /\ e.inst \in Inst /\ e.inst # Absent /\ e \in [kind : {"up", "update"}, id : Ids, inst : Inst \ {Absent}]
    BY <1>3 DEF WEvent
  <2> DEFINE cur == IF w.isCurrent THEN w.current ELSE w.current \cup {e.id}
             f == [w.insts EXCEPT ![e.id] = e.inst]
             known == w.insts[e.id] # Absent
  <2>2. r = Watch!WatchUp(w, e)
    BY <1>3 DEF Watch!Watch
  <2>3. w2 = [[w EXCEPT !.insts = f] EXCEPT !.current = cur]
    BY <2>2 DEF Watch!WatchUp, WatchRecord
  <2>4. o = IF w.isCurrent \/ ~known THEN e
            ELSE IF w.insts[e.id].meta = e.inst.meta THEN Watch!NoEvent
            ELSE [e EXCEPT !.kind = "update"]
    BY <1>1, <2>2 DEF Watch!WatchUp
  <2>5. /\ [e EXCEPT !.kind = "update"] \in WEvent /\ [e EXCEPT !.kind = "update"].kind = "update"
        /\ [e EXCEPT !.kind = "update"].id = e.id
    BY <2>1 DEF WEvent
  <2>6. f \in [Ids -> Inst] /\ cur \in SUBSET Ids /\ f[e.id] = e.inst
        /\ \A i \in Ids : i # e.id => f[i] = w.insts[i]
    BY <2>1 DEF WatchRecord
  <2> HIDE DEF f, cur, w2, o
  <2>7. /\ w2 \in WatchRecord /\ w2.insts = f /\ w2.current = cur /\ w2.meta = w.meta
        /\ w2.isCurrent = w.isCurrent /\ w2.state = w.state
    BY <2>3, <2>6 DEF WatchRecord
  <2>8. /\ o \in WEvent \cup {Watch!NoEvent}
        /\ w.isCurrent => o.kind = "up"
        /\ \/ o.kind \in {"up", "update"} /\ o.id = e.id
           \/ o.kind = "none" /\ w.insts[e.id] # Absent
    BY <1>2, <1>3, <2>4, <2>5
  <2>9. Passing(e, w, w2, o)
    BY <1>3, <2>7, <2>8 DEF Passing, f
  <2>10. ASSUME NEW i \in Ids PROVE Holds(w2, i) = IF About(e, i) THEN Value(e) ELSE Holds(w, i)
    <3>1. CASE i = e.id
      BY <1>3, <2>6, <2>7, <3>1 DEF Holds, About, Value, cur
    <3>2. CASE i # e.id
      BY <1>3, <2>6, <2>7, <3>2 DEF Holds, About, Value, cur
    <3> QED
      BY <3>1, <3>2
  <2>11. Heeds(e, w, w2)
    BY <1>3, <2>7, <2>10 DEF Heeds
  <2> QED
    BY <2>7, <2>8, <2>9, <2>11 DEF w2, o
<1>4. CASE e.kind = "update" \/ e.kind = "down"
  <2> DEFINE v == IF e.kind = "down" THEN Absent ELSE e.inst
             f == [w.insts EXCEPT ![e.id] = v]
  <2>1. e.id \in Ids /\ v \in Inst
    BY <1>1, <1>4 DEF WEvent
  <2>2. w2 = [w EXCEPT !.insts = f] /\ o = e
    <3>1. CASE e.kind = "update"
      BY <3>1 DEF Watch!Watch, WatchRecord
    <3>2. CASE e.kind = "down"
      BY <1>1, <3>2 DEF Watch!Watch, WatchRecord
    <3> QED
      BY <1>4, <3>1, <3>2
  <2>3. f \in [Ids -> Inst] /\ f[e.id] = v /\ \A i \in Ids : i # e.id => f[i] = w.insts[i]
    BY <2>1 DEF WatchRecord
  <2> HIDE DEF f, w2, o
  <2>4. /\ w2 \in WatchRecord /\ w2.insts = f /\ w2.current = w.current /\ w2.meta = w.meta
        /\ w2.isCurrent = w.isCurrent /\ w2.state = w.state
    BY <2>2, <2>3 DEF WatchRecord
  <2>5. Passing(e, w, w2, o)
    BY <1>4, <2>2, <2>4 DEF Passing, f
  <2>6. ASSUME NEW i \in Ids, w.isCurrent
        PROVE  Holds(w2, i) = IF About(e, i) THEN Value(e) ELSE Holds(w, i)
    BY <1>4, <2>3, <2>4, <2>6 DEF Holds, About, Value
  <2>7. w.isCurrent => Heeds(e, w, w2)
    BY <1>4, <2>4, <2>6 DEF Heeds
  <2> QED
    BY <1>4, <2>2, <2>4, <2>5, <2>7 DEF w2, o
<1>5. CASE e.kind = "current"
  <2>1. w2 = [w EXCEPT !.state = "reporting"] /\ o = Watch!NoEvent
    BY <1>5 DEF Watch!Watch
  <2> HIDE DEF w2, o
  <2>2. /\ w2 \in WatchRecord /\ w2.insts = w.insts /\ w2.current = w.current /\ w2.meta = w.meta
        /\ w2.isCurrent = w.isCurrent /\ w2.state = "reporting"
    BY <2>1 DEF WatchRecord
  <2>3. Passing(e, w, w2, o)
    BY <1>2, <1>5, <2>1, <2>2 DEF Passing
  <2>4. Heeds(e, w, w2)
    BY <1>5, <2>2 DEF Heeds, Holds, About
  <2> QED
    BY <2>1, <2>2, <2>3, <2>4 DEF w2, o
<1>6. CASE e.kind = "leader"
  <2>1. /\ w2 = w \/ w2 = [w EXCEPT !.leader = e.id]
        /\ o = Watch!NoEvent \/ o = e
    BY <1>6 DEF Watch!Watch
  <2>2. e.id \in Ids \cup {None}
    BY <1>6 DEF WEvent
  <2> HIDE DEF w2, o
  <2>3. /\ w2 \in WatchRecord /\ w2.insts = w.insts /\ w2.current = w.current /\ w2.meta = w.meta
        /\ w2.isCurrent = w.isCurrent /\ w2.state = w.state
    BY <2>1, <2>2 DEF WatchRecord
  <2>4. Passing(e, w, w2, o)
    BY <1>2, <1>6, <2>1, <2>3 DEF Passing
  <2>5. Heeds(e, w, w2)
    BY <1>6, <2>3 DEF Heeds, Holds, About
  <2> QED
    BY <2>1, <2>3, <2>4, <2>5 DEF w2, o
<1>7. CASE e.kind = "meta"
  <2>1. \/ w2 = w /\ o = Watch!NoEvent /\ w.meta = e.meta.index
        \/ w2 = [w EXCEPT !.meta = e.meta.index] /\ o = e
    BY <1>7 DEF Watch!Watch
  <2>2. e.meta.index \in Nat
    BY <1>7 DEF WEvent, Meta
  <2> HIDE DEF w2, o
  <2>3. /\ w2 \in WatchRecord /\ w2.insts = w.insts /\ w2.current = w.current /\ w2.meta = e.meta.index
        /\ w2.isCurrent = w.isCurrent /\ w2.state = w.state
    BY <2>1, <2>2 DEF WatchRecord
  <2>4. Passing(e, w, w2, o)
    BY <1>2, <1>7, <2>1, <2>3 DEF Passing
  <2>5. Heeds(e, w, w2)
    BY <1>7, <2>3 DEF Heeds, Holds, About
  <2> QED
    BY <2>1, <2>3, <2>4, <2>5 DEF w2, o
<1>8. e.kind \in {"up", "update", "down", "current", "leader", "meta"}
  BY DEF WEvent
<1> QED
  BY <1>3, <1>4, <1>5, <1>6, <1>7, <1>8

LEMMA PeerIdTypes == ASSUME NEW peers \in Seq(Peer) PROVE PeerIds(peers) \subseteq Ids
<1>1. \A k \in DOMAIN peers : peers[k] \in Peer
  OBVIOUS
<1> QED
  BY <1>1 DEF PeerIds, Peer

LEMMA ReceiveKeeps == ASSUME Setting, WatchInv, Watch!Receive PROVE WatchInv'
<1> DEFINE b == wSub.buf  t == wServer.broadcasting  e == Head(b)  r == Watch!Watch(wWatch, e)
           n == Len(b) + Len(t)
<1>1. /\ b \in Seq(WEvent) /\ t \in Seq(WEvent) /\ wWatch \in WatchRecord
      /\ wSub \in [state : {"none", "open", "closed"}, closing : BOOLEAN, buf : Seq(WEvent)]
  BY DEF WatchInv, WatchTypes, WatchRecord
<1>2. /\ wWatch.state = "connected" /\ wOut = Watch!NoEvent /\ b # <<>>
      /\ wWatch' = r.watch /\ wOut' = r.out /\ wSub' = [wSub EXCEPT !.buf = Tail(b)]
      /\ UNCHANGED <<wHist, wServer, wAdapter, wFaults>>
  BY DEF Watch!Receive
<1>3. /\ n \in Nat /\ n > 0 /\ Tail(b) \in Seq(WEvent) /\ e \in WEvent
      /\ Queue \in [1..n -> WEvent] /\ Joining(Tail(b), t) \in [1..n - 1 -> WEvent]
      /\ Queue[1] = e /\ \A p \in 1..n - 1 : Joining(Tail(b), t)[p] = Queue[p + 1]
  BY <1>1, <1>2, DropOne DEF Queue
<1> HIDE DEF e, n
<1>4. /\ wWatch' \in WatchRecord /\ wOut' \in WEvent \cup {Watch!NoEvent}
      /\ Passing(e, wWatch, wWatch', wOut')
      /\ wWatch'.isCurrent = wWatch.isCurrent /\ wWatch'.state # "disconnected"
      /\ wWatch.isCurrent \/ e.kind \notin {"update", "down"} => Heeds(e, wWatch, wWatch')
  BY <1>1, <1>2, <1>3, WatchEvent
<1>5. /\ wSub' \in [state : {"none", "open", "closed"}, closing : BOOLEAN, buf : Seq(WEvent)]
      /\ wSub'.state = wSub.state /\ wSub'.closing = wSub.closing /\ wSub'.buf = Tail(b)
  BY <1>1, <1>2, <1>3
<1> HIDE DEF b, t, r
<1>6. HistInv'
  BY <1>2 DEF WatchInv, HistInv
<1>7. WatchTypes'
  BY <1>2, <1>4, <1>5, NothingPassed DEF WatchInv, WatchTypes, WatchRecord
<1>8. Live' = Live
  BY <1>2, <1>4, <1>5 DEF Live
<1>9. Modes'
  <2>1. ASSUME Live, wWatch.isCurrent PROVE wWatch'.state = "connected"
    <3>1. Marked(Queue, wWatch)
      BY <2>1 DEF WatchInv, QueueOK, QueueInv
    <3>2. 1 \in 1..n /\ DOMAIN Queue = 1..n
      BY <1>3
    <3>3. e.kind # "current"
      BY <1>3, <2>1, <3>1, <3>2 DEF Marked
    <3> QED
      BY <1>2, <1>4, <2>1, <3>3 DEF Heeds
  <2> QED
    BY <1>2, <1>4, <1>5, <1>8, <2>1 DEF WatchInv, Modes
<1>10. QueueOK'
  <2> SUFFICES ASSUME Live PROVE QueueInv(Queue', wWatch', wHist[wServer.applied].data)
    BY <1>2, <1>8 DEF QueueOK
  <2>1. QueueInv(Queue, wWatch, wHist[wServer.applied].data)
    BY DEF WatchInv, QueueOK
  <2>2. Queue' = Joining(Tail(b), t)
    BY <1>2, <1>5 DEF Queue, t
  <2>3. Heeds(e, wWatch, wWatch')
    <3>1. CASE wWatch.isCurrent
      BY <1>4, <3>1
    <3>2. CASE ~wWatch.isCurrent
      <4>1. DOMAIN Queue = 1..n /\ 1 \in 1..n
        BY <1>3
      <4>2. PICK c \in 1..n :
               /\ Queue[c].kind = "current"
               /\ \A p \in 1..n : p < c => Queue[p].kind \in {"up", "leader", "meta"}
        BY <1>2, <2>1, <3>2, <4>1 DEF QueueInv, Marked
      <4>3. c = 1 \/ 1 < c
        BY <4>1
      <4>4. e.kind \notin {"update", "down"}
        BY <1>3, <4>1, <4>2, <4>3
      <4> QED
        BY <1>4, <4>4
    <3> QED
      BY <3>1, <3>2
  <2> QED
    BY <1>2, <1>3, <2>1, <2>2, <2>3, QueueShrinks
<1>11. wOut.kind = "none"
  BY <1>2, NothingPassed
<1>12. Passed'
  <2>1. /\ \A i \in Ids : wWatch.insts[i] # Absent => i \in PeerIds(wAdapter.peers)
        /\ wFaults.giveUps = 0 => \A i \in PeerIds(wAdapter.peers) : wWatch.insts[i] # Absent
        /\ wAdapter.state >= wWatch.meta
    BY <1>11 DEF WatchInv, Passed
  <2>2. wWatch.insts \in [Ids -> Inst] /\ PeerIds(wAdapter.peers) \subseteq Ids
    BY <1>1, PeerIdTypes DEF WatchInv, WatchTypes, WatchRecord
  <2>3. wAdapter' = wAdapter /\ wFaults' = wFaults /\ PeerIds(wAdapter.peers)' = PeerIds(wAdapter.peers)
    BY <1>2 DEF PeerIds
  <2> DEFINE S == PeerIds(wAdapter.peers)
  <2> HIDE DEF S
  <2> SUFFICES /\ wOut'.kind \in {"up", "update"} => wWatch'.insts[wOut'.id] # Absent
               /\ wOut'.kind = "down" => wWatch'.insts[wOut'.id] = Absent
               /\ \A i \in Ids : wWatch'.insts[i] # Absent =>
                    i \in S \/ (wOut'.kind \in {"up", "update"} /\ wOut'.id = i)
               /\ wFaults.giveUps = 0 => \A i \in S :
                    wWatch'.insts[i] # Absent \/ (wOut'.kind = "down" /\ wOut'.id = i)
               /\ IF wOut'.kind = "meta" THEN wOut'.meta.index = wWatch'.meta
                  ELSE wAdapter.state >= wWatch'.meta
    BY <2>3 DEF Passed, S
  <2>4. CASE e.kind \in {"up", "update"}
    <3>1. e.id \in Ids /\ e.inst # Absent
      BY <1>3, <2>4 DEF WEvent
    <3>2. /\ wWatch'.insts = [wWatch.insts EXCEPT ![e.id] = e.inst] /\ wWatch'.meta = wWatch.meta
          /\ \/ wOut'.kind \in {"up", "update"} /\ wOut'.id = e.id
             \/ wOut'.kind = "none" /\ wWatch.insts[e.id] # Absent
      BY <1>4, <2>4 DEF Passing
    <3>3. wWatch'.insts[e.id] # Absent /\ \A i \in Ids : i # e.id => wWatch'.insts[i] = wWatch.insts[i]
      BY <2>2, <3>1, <3>2
    <3> QED
      BY <2>1, <2>2, <3>1, <3>2, <3>3 DEF S
  <2>5. CASE e.kind = "down"
    <3>1. e.id \in Ids
      BY <1>3, <2>5 DEF WEvent
    <3>2. wWatch'.insts = [wWatch.insts EXCEPT ![e.id] = Absent] /\ wWatch'.meta = wWatch.meta /\ wOut' = e
      BY <1>4, <2>5 DEF Passing
    <3>3. wWatch'.insts[e.id] = Absent /\ \A i \in Ids : i # e.id => wWatch'.insts[i] = wWatch.insts[i]
      BY <2>2, <3>1, <3>2
    <3> QED
      BY <2>1, <2>2, <2>5, <3>1, <3>2, <3>3 DEF S
  <2>6. CASE e.kind \in {"leader", "current"}
    <3>1. wWatch'.insts = wWatch.insts /\ wWatch'.meta = wWatch.meta /\ wOut'.kind \in {"leader", "none"}
      BY <1>4, <2>6 DEF Passing
    <3> QED
      BY <2>1, <3>1 DEF S
  <2>7. CASE e.kind = "meta"
    <3>1. /\ wWatch'.insts = wWatch.insts
          /\ \/ wOut'.kind = "none" /\ wWatch'.meta = wWatch.meta
             \/ wOut'.kind = "meta" /\ wWatch'.meta = wOut'.meta.index
      BY <1>4, <2>7 DEF Passing
    <3> QED
      BY <2>1, <3>1 DEF S
  <2>8. e.kind \in {"up", "update", "down", "current", "leader", "meta"}
    BY <1>3 DEF WEvent
  <2> QED
    BY <2>4, <2>5, <2>6, <2>7, <2>8
<1>13. PeersSent'
  <2>1. wAdapter' = wAdapter /\ PeerIds(wAdapter.peers)' = PeerIds(wAdapter.peers)
        /\ Watch!IdsOf(wAdapter.peers)' = Watch!IdsOf(wAdapter.peers)
    BY <1>2 DEF PeerIds, Watch!IdsOf
  <2>2. ASSUME Live, wWatch.isCurrent, wOut'.kind = "update" PROVE wOut'.id \in PeerIds(wAdapter.peers)
    <3>1. e.kind = "update" /\ wOut' = e
      BY <1>4, <2>2 DEF Passing
    <3>2. Updates(Queue, wWatch) /\ DOMAIN Queue = 1..n /\ 1 \in 1..n
      BY <1>3, <2>2 DEF WatchInv, QueueOK, QueueInv
    <3>3. Holds(wWatch, e.id) # Absent
      BY <1>3, <3>1, <3>2 DEF Updates
    <3>4. e.id \in Ids
      BY <1>3, <3>1 DEF WEvent
    <3>5. wWatch.insts[e.id] # Absent
      BY <2>2, <3>3 DEF Holds
    <3> QED
      BY <1>11, <3>1, <3>4, <3>5 DEF WatchInv, Passed
  <2> QED
    BY <1>4, <1>8, <1>11, <2>1, <2>2 DEF WatchInv, PeersSent
<1> QED
  BY <1>6, <1>7, <1>9, <1>10, <1>12, <1>13 DEF WatchInv

LEMMA ReportKeeps == ASSUME Setting, WatchInv, Watch!ReportGone PROVE WatchInv'
<1>1. /\ wWatch \in WatchRecord /\ wSub.buf \in Seq(WEvent) /\ wServer.broadcasting \in Seq(WEvent)
  BY DEF WatchInv, WatchTypes, WatchRecord
<1>2. /\ wWatch.state = "reporting" /\ wOut = Watch!NoEvent
      /\ UNCHANGED <<wHist, wServer, wSub, wAdapter, wFaults>>
  BY DEF Watch!ReportGone
<1>3. wOut.kind = "none" /\ (Live => ~wWatch.isCurrent)
  BY <1>2, NothingPassed DEF WatchInv, Modes
<1>4. HistInv'
  BY <1>2 DEF WatchInv, HistInv
<1>5. /\ \A i \in Ids : wWatch.insts[i] # Absent => i \in PeerIds(wAdapter.peers)
      /\ wFaults.giveUps = 0 => \A i \in PeerIds(wAdapter.peers) : wWatch.insts[i] # Absent
      /\ wAdapter.state >= wWatch.meta
  BY <1>3 DEF WatchInv, Passed
<1>6. PeerIds(wAdapter.peers)' = PeerIds(wAdapter.peers) /\ PeerIds(wAdapter.peers) \subseteq Ids
  <2>1. PeerIds(wAdapter.peers) \subseteq Ids
    BY PeerIdTypes DEF WatchInv, WatchTypes
  <2> QED
    BY <1>2, <2>1 DEF PeerIds
<1>7. Queue' = Queue /\ \A p \in DOMAIN Queue : Queue[p] \in WEvent
  BY <1>1, <1>2, QueueTypes DEF Queue
<1>8. Watch!Gone = {i \in Ids : wWatch.insts[i] # Absent} \ wWatch.current
  BY DEF Watch!Gone, Watch!Absent, Absent, Watch!None, None
<1>9. CASE \E i \in Watch!Gone : /\ wOut' = Watch!InstEvent("down", i, wWatch.insts[i])
                                 /\ wWatch' = [wWatch EXCEPT !.insts[i] = Watch!Absent]
  <2>1. PICK i \in Watch!Gone : /\ wOut' = Watch!InstEvent("down", i, wWatch.insts[i])
                                /\ wWatch' = [wWatch EXCEPT !.insts[i] = Watch!Absent]
    BY <1>9
  <2>2. i \in Ids /\ wWatch.insts[i] \in Inst /\ i \notin wWatch.current /\ wWatch.insts \in [Ids -> Inst]
    BY <1>1, <1>8, <2>1 DEF WatchRecord
  <2>3. Watch!Absent = Absent /\ Absent \in Inst
    BY DEF Watch!Absent, Absent, Watch!None, None, Inst
  <2>4. wOut' = [kind |-> "down", id |-> i, inst |-> wWatch.insts[i]]
    BY <2>1 DEF Watch!InstEvent
  <2>5. wOut' \in WEvent /\ wOut'.kind = "down" /\ wOut'.id = i
    BY <2>2, <2>4 DEF WEvent
  <2> DEFINE f == [wWatch.insts EXCEPT ![i] = Absent]
  <2>6. wWatch' = [wWatch EXCEPT !.insts = f]
    BY <1>1, <2>1, <2>3 DEF WatchRecord
  <2>7. f \in [Ids -> Inst] /\ f[i] = Absent /\ \A j \in Ids : j # i => f[j] = wWatch.insts[j]
    BY <2>2, <2>3
  <2> HIDE DEF f
  <2>8. /\ wWatch' \in WatchRecord /\ wWatch'.insts = f /\ wWatch'.state = "reporting"
        /\ wWatch'.isCurrent = wWatch.isCurrent /\ wWatch'.current = wWatch.current
        /\ wWatch'.meta = wWatch.meta
    BY <1>1, <1>2, <2>6, <2>7 DEF WatchRecord
  <2>9. WatchTypes'
    BY <1>2, <2>5, <2>8 DEF WatchInv, WatchTypes, WatchRecord
  <2>10. Live' = Live
    BY <1>2, <2>8 DEF Live
  <2>11. Modes'
    BY <1>2, <1>3, <2>8, <2>10 DEF WatchInv, Modes
  <2>12. Live => \A j \in Ids : Holds(wWatch', j) = Holds(wWatch, j)
    BY <1>3, <2>2, <2>7, <2>8 DEF Holds
  <2>13. QueueOK'
    <3> SUFFICES ASSUME Live PROVE QueueInv(Queue, wWatch', wHist[wServer.applied].data)
      BY <1>2, <1>7, <2>10 DEF QueueOK
    <3>1. QueueInv(Queue, wWatch, wHist[wServer.applied].data)
      BY DEF WatchInv, QueueOK
    <3>2. Marked(Queue, wWatch')
      BY <1>2, <2>8, <3>1 DEF QueueInv, Marked
    <3> QED
      BY <1>7, <2>8, <2>12, <3>1, <3>2, QueueStays
  <2>14. Passed'
    <3> DEFINE S == PeerIds(wAdapter.peers)
    <3>1. S' = S /\ S \subseteq Ids
      BY <1>6
    <3> HIDE DEF S
    <3>2. /\ \A j \in Ids : f[j] # Absent => j \in S
          /\ wFaults.giveUps = 0 => \A j \in S : f[j] # Absent \/ i = j
      BY <1>5, <2>7, <3>1 DEF S
    <3> QED
      BY <1>2, <1>5, <2>5, <2>7, <2>8, <3>1, <3>2 DEF Passed, S
  <2>15. PeersSent'
    BY <1>2, <1>3, <2>8, <2>10 DEF WatchInv, PeersSent
  <2> QED
    BY <1>4, <2>9, <2>11, <2>13, <2>14, <2>15 DEF WatchInv
<1>10. CASE /\ Watch!Gone = {} /\ wOut' = Watch!CurrentEvent
            /\ wWatch' = [wWatch EXCEPT !.state = "connected", !.isCurrent = TRUE]
  <2>1. wOut' = [kind |-> "current"]
    BY <1>10 DEF Watch!CurrentEvent
  <2>2. wOut' \in WEvent /\ wOut'.kind = "current"
    BY <2>1 DEF WEvent
  <2>3. /\ wWatch' \in WatchRecord /\ wWatch'.insts = wWatch.insts /\ wWatch'.state = "connected"
        /\ wWatch'.isCurrent = TRUE /\ wWatch'.current = wWatch.current /\ wWatch'.meta = wWatch.meta
    BY <1>1, <1>10 DEF WatchRecord
  <2>4. WatchTypes'
    BY <1>2, <2>2, <2>3 DEF WatchInv, WatchTypes, WatchRecord
  <2>5. Modes'
    BY <1>2, <2>3 DEF WatchInv, Modes
  <2>6. Live' = Live
    BY <1>2, <2>3 DEF Live
  <2>7. Live => \A j \in Ids : Holds(wWatch', j) = Holds(wWatch, j)
    BY <1>3, <1>8, <1>10, <2>3 DEF Holds
  <2>8. QueueOK'
    <3> SUFFICES ASSUME Live PROVE QueueInv(Queue, wWatch', wHist[wServer.applied].data)
      BY <1>2, <1>7, <2>6 DEF QueueOK
    <3>1. QueueInv(Queue, wWatch, wHist[wServer.applied].data)
      BY DEF WatchInv, QueueOK
    <3>2. Marked(Queue, wWatch')
      BY <1>2, <2>3, <3>1 DEF QueueInv, Marked
    <3> QED
      BY <1>7, <2>3, <2>7, <3>1, <3>2, QueueStays
  <2>9. Passed'
    BY <1>2, <1>5, <1>6, <2>2, <2>3 DEF Passed
  <2>10. PeersSent'
    BY <1>2, <2>2, <2>3 DEF WatchInv, PeersSent
  <2> QED
    BY <1>4, <2>4, <2>5, <2>8, <2>9, <2>10 DEF WatchInv
<1> QED
  BY <1>9, <1>10 DEF Watch!ReportGone

-----------------------------------------------------------------------------
(* The peers of receiveEvents. *)

(* The elements of a finite set of naturals are those at its ranks. *)
LEMMA Ranked ==
  ASSUME NEW K \in SUBSET Nat, IsFiniteSet(K)
  PROVE  /\ Cardinality(K) \in Nat
         /\ \A n \in 1..Cardinality(K) : Nth(K, n) \in K
         /\ \A k \in K : \E n \in 1..Cardinality(K) : Nth(K, n) = k
<1> DEFINE N == Cardinality(K)
           U(k) == {j \in K : j <= k}
           c == [k \in K |-> Cardinality(U(k))]
<1>1. N \in Nat
  BY FS_CardinalityType
<1>2. \A k \in K : Rank(K, k) = c[k]
  BY Zenon DEF Rank
<1> HIDE DEF N
<1>3. ASSUME NEW k \in K PROVE IsFiniteSet(U(k)) /\ c[k] \in 1..N
  <2>1. U(k) \subseteq K /\ k \in U(k)
    OBVIOUS
  <2>2. c[k] = Cardinality(U(k))
    BY Zenon
  <2> HIDE DEF U, c
  <2>3. IsFiniteSet(U(k)) /\ Cardinality(U(k)) <= N
    BY <2>1, FS_Subset DEF N
  <2>4. Cardinality(U(k)) \in Nat /\ Cardinality(U(k)) # 0
    BY <2>1, <2>3, FS_CardinalityType, FS_EmptySet
  <2> QED
    BY <1>1, <2>2, <2>3, <2>4
<1>4. ASSUME NEW j \in K, NEW k \in K, j < k PROVE c[j] # c[k]
  <2>1. U(j) \subseteq U(k) /\ k \in U(k) /\ k \notin U(j)
    <3>1. j \in Nat /\ k \in Nat /\ \A i \in K : i \in Nat
      OBVIOUS
    <3>2. \A i \in K : i <= j => i <= k
      BY <1>4, <3>1
    <3>3. k <= k /\ ~(k <= j)
      BY <1>4, <3>1
    <3> QED
      BY <3>2, <3>3, Zenon
  <2>2. c[j] = Cardinality(U(j)) /\ c[k] = Cardinality(U(k))
    BY Zenon
  <2>3. IsFiniteSet(U(k))
    BY <1>3
  <2> HIDE DEF U, c
  <2>4. U(j) # U(k)
    BY <2>1
  <2>5. Cardinality(U(j)) # Cardinality(U(k))
    BY <2>1, <2>3, <2>4, FS_Subset
  <2> QED
    BY <2>2, <2>5
<1>5. c \in [K -> 1..N]
  BY <1>3
<1> HIDE DEF U, c
<1>6. \A j, k \in K : c[j] = c[k] => j = k
  BY <1>4
<1>7. c \in Surjection(K, 1..N)
  <2>1. IsFiniteSet(1..N) /\ Cardinality(1..N) = N
    BY <1>1, FS_Interval
  <2>2. c \in Injection(K, 1..N)
    BY <1>5, <1>6 DEF Injection, IsInjective
  <2>3. Cardinality(K) = Cardinality(1..N)
    BY <2>1 DEF N
  <2> QED
    BY <2>1, <2>2, <2>3, FS_Injection
<1>8. \A n \in 1..N : \E k \in K : Rank(K, k) = n
  BY <1>2, <1>7 DEF Surjection
<1>9. \A n \in 1..N : Nth(K, n) \in K /\ Rank(K, Nth(K, n)) = n
  BY <1>8, Zenon DEF Nth
<1>10. \A k \in K : Nth(K, c[k]) = k /\ c[k] \in 1..N
  <2> SUFFICES ASSUME NEW k \in K PROVE Nth(K, c[k]) = k /\ c[k] \in 1..N
    OBVIOUS
  <2>1. c[k] \in 1..N
    BY <1>5
  <2>2. Nth(K, c[k]) \in K /\ Rank(K, Nth(K, c[k])) = c[k]
    BY <1>9, <2>1
  <2>3. c[Nth(K, c[k])] = c[k]
    BY <1>2, <2>2
  <2> QED
    BY <1>6, <2>1, <2>2, <2>3
<1> QED
  BY <1>1, <1>9, <1>10 DEF N

(* What addPeer and delPeer make of the list. *)
LEMMA PeerAdded ==
  ASSUME NEW peers \in Seq(Peer), NEW e, e.id \in Ids, e.inst \in Inst,
         NEW new \in Watch!addPeer(peers, e)
  PROVE  /\ new \in Seq(Peer) /\ PeerIds(new) = PeerIds(peers) \cup {e.id}
         /\ e.id \in PeerIds(peers) => Watch!IdsOf(new) = Watch!IdsOf(peers)
<1> DEFINE p == [id |-> e.id, index |-> e.inst.index]
           n == Len(peers)
<1>1. p \in Peer /\ p.id = e.id
  BY DEF Inst, Peer
<1>2. n \in Nat /\ DOMAIN peers = 1..n /\ \A k \in 1..n : peers[k] \in Peer
  OBVIOUS
<1>3. Watch!Known(peers, e.id) = {k \in DOMAIN peers : peers[k].id = e.id}
  BY DEF Watch!Known
<1>4. CASE Watch!Known(peers, e.id) = {}
  <2> DEFINE app == Append(peers, p)
  <2>1. new \in Watch!SortedByIndex(app)
    BY <1>4, Zenon DEF Watch!addPeer
  <2>2. /\ app \in Seq(Peer) /\ Len(app) = n + 1 /\ DOMAIN app = 1..n + 1 /\ app[n + 1] = p
        /\ \A k \in 1..n : app[k] = peers[k]
    BY <1>1, <1>2
  <2> HIDE DEF app, p
  <2>3. PICK f \in [DOMAIN app -> DOMAIN app] :
          /\ \A k \in DOMAIN app : \E j \in DOMAIN app : f[j] = k
          /\ new = [k \in DOMAIN app |-> app[f[k]]]
    BY <2>1, Zenon DEF Watch!SortedByIndex
  <2>4. new \in [1..n + 1 -> Peer] /\ \A k \in 1..n + 1 : f[k] \in 1..n + 1 /\ new[k] = app[f[k]]
    <3>1. \A k \in 1..n + 1 : app[k] \in Peer
      BY <2>2
    <3>2. \A k \in 1..n + 1 : f[k] \in 1..n + 1 /\ new[k] = app[f[k]] /\ new[k] \in Peer
      BY <2>2, <2>3, <3>1
    <3>3. new = [k \in 1..n + 1 |-> new[k]]
      BY <2>2, <2>3
    <3> QED
      BY <3>2, <3>3
  <2>5. new \in Seq(Peer) /\ DOMAIN new = 1..n + 1
    <3>1. PICK m \in Nat : m = n + 1
      BY <1>2
    <3>2. new \in [1..m -> Peer]
      BY <2>4, <3>1
    <3>3. new \in Seq(Peer) /\ DOMAIN new = 1..m
      BY <3>2
    <3> QED
      BY <3>1, <3>3
  <2>6. PeerIds(new) = {app[k].id : k \in 1..n + 1}
    <3>1. ASSUME NEW k \in 1..n + 1 PROVE \E j \in 1..n + 1 : new[j].id = app[k].id
      BY <2>2, <2>3, <2>4
    <3>2. \A k \in 1..n + 1 : f[k] \in 1..n + 1 /\ new[k].id = app[f[k]].id
      BY <2>4
    <3>3. PeerIds(new) = {new[k].id : k \in 1..n + 1}
      BY <2>5 DEF PeerIds
    <3>4. ASSUME NEW x \in PeerIds(new) PROVE x \in {app[k].id : k \in 1..n + 1}
      <4>1. PICK k \in 1..n + 1 : x = new[k].id
        BY <3>3
      <4> QED
        BY <3>2, <4>1
    <3>5. ASSUME NEW x \in {app[k].id : k \in 1..n + 1} PROVE x \in PeerIds(new)
      <4>1. PICK k \in 1..n + 1 : x = app[k].id
        OBVIOUS
      <4>2. PICK j \in 1..n + 1 : new[j].id = app[k].id
        BY <3>1
      <4> QED
        BY <3>3, <4>1, <4>2
    <3> QED
      BY <3>4, <3>5
  <2>7. {app[k].id : k \in 1..n + 1} = PeerIds(peers) \cup {e.id}
    <3>1. \A k \in 1..n + 1 : k \in 1..n \/ k = n + 1
      BY <1>2
    <3>2. \A k \in 1..n : k \in 1..n + 1
      BY <1>2
    <3>3. n + 1 \in 1..n + 1
      BY <1>2
    <3> QED
      BY <1>1, <1>2, <2>2, <3>1, <3>2, <3>3 DEF PeerIds
  <2>8. e.id \notin PeerIds(peers)
    BY <1>3, <1>4 DEF PeerIds
  <2> QED
    BY <2>5, <2>6, <2>7, <2>8
<1>5. CASE Watch!Known(peers, e.id) # {}
  <2>1. new = [k \in DOMAIN peers |-> IF peers[k].id = e.id THEN p ELSE peers[k]]
    BY <1>5, Zenon DEF Watch!addPeer
  <2>2. \A k \in 1..n : new[k] = (IF peers[k].id = e.id THEN p ELSE peers[k]) /\ new[k] \in Peer
    BY <1>1, <1>2, <2>1
  <2>3. new \in [1..n -> Peer] /\ DOMAIN new = 1..n
    BY <1>2, <2>1, <2>2
  <2> HIDE DEF p
  <2>4. new \in Seq(Peer)
    BY <1>2, <2>3
  <2>5. \A k \in 1..n : new[k].id = peers[k].id
    BY <1>1, <2>2
  <2>6. PICK k \in 1..n : peers[k].id = e.id
    BY <1>2, <1>3, <1>5
  <2>7. PeerIds(new) = PeerIds(peers) /\ e.id \in PeerIds(peers)
    BY <1>2, <2>3, <2>5, <2>6 DEF PeerIds
  <2>8. Watch!IdsOf(new) = Watch!IdsOf(peers)
    BY <1>2, <2>3, <2>5 DEF Watch!IdsOf
  <2> QED
    BY <2>4, <2>7, <2>8
<1> QED
  BY <1>4, <1>5

LEMMA PeerDeleted ==
  ASSUME NEW peers \in Seq(Peer), NEW e, NEW new, new = Watch!delPeer(peers, e)
  PROVE  new \in Seq(Peer) /\ PeerIds(new) = PeerIds(peers) \ {e.id}
<1> DEFINE n == Len(peers)
           K == {k \in 1..n : peers[k].id # e.id}
<1>1. n \in Nat /\ DOMAIN peers = 1..n /\ \A k \in 1..n : peers[k] \in Peer
  OBVIOUS
<1>2. DOMAIN peers \ Watch!Known(peers, e.id) = K
  BY <1>1 DEF Watch!Known
<1>3. K \in SUBSET Nat /\ IsFiniteSet(K)
  <2>1. K \subseteq 1..n
    OBVIOUS
  <2> QED
    <3>1. IsFiniteSet(1..n)
      BY <1>1, FS_Interval
    <3>2. K \subseteq Nat
      OBVIOUS
    <3> HIDE DEF K
    <3> QED
      BY <2>1, <3>1, <3>2, FS_Subset
<1>4. new = Subsequence(peers, K)
  BY <1>2, SameSubsequence, Zenon DEF Watch!delPeer
<1>5. new = [m \in 1..Cardinality(K) |-> peers[Nth(K, m)]]
  BY <1>4 DEF Subsequence
<1>6. \A k \in K : k \in 1..n /\ peers[k].id # e.id
  OBVIOUS
<1>7. \A k \in 1..n : peers[k].id # e.id => k \in K
  OBVIOUS
<1> HIDE DEF K
<1>8. /\ Cardinality(K) \in Nat
      /\ \A m \in 1..Cardinality(K) : Nth(K, m) \in K
      /\ \A k \in K : \E m \in 1..Cardinality(K) : Nth(K, m) = k
  BY <1>3, Ranked
<1>9. \A m \in 1..Cardinality(K) : new[m] = peers[Nth(K, m)] /\ Nth(K, m) \in 1..n
                                  /\ peers[Nth(K, m)].id # e.id /\ peers[Nth(K, m)] \in Peer
  BY <1>1, <1>5, <1>6, <1>8
<1>10. new \in [1..Cardinality(K) -> Peer] /\ DOMAIN new = 1..Cardinality(K)
  BY <1>5, <1>9
<1>11. new \in Seq(Peer)
  BY <1>8, <1>10
<1>12. PeerIds(new) \subseteq PeerIds(peers) \ {e.id}
  BY <1>1, <1>9, <1>10 DEF PeerIds
<1>13. ASSUME NEW i \in PeerIds(peers), i # e.id PROVE i \in PeerIds(new)
  <2>1. PICK k \in 1..n : peers[k].id = i
    BY <1>1 DEF PeerIds
  <2>2. PICK m \in 1..Cardinality(K) : Nth(K, m) = k
    BY <1>7, <1>8, <1>13, <2>1
  <2>3. new[m].id = i
    BY <1>9, <2>1, <2>2
  <2> QED
    BY <1>10, <2>3 DEF PeerIds
<1> QED
  BY <1>11, <1>12, <1>13

AdapterRecord ==
  [peers : Seq(Peer), state : Nat, initialized : BOOLEAN, current : BOOLEAN,
   sentPeers : Seq(Ids), sentIndex : Nat]

LEMMA IdsOfTypes == ASSUME NEW peers \in Seq(Peer) PROVE Watch!IdsOf(peers) \in Seq(Ids)
<1>1. Len(peers) \in Nat /\ DOMAIN peers = 1..Len(peers) /\ \A k \in 1..Len(peers) : peers[k] \in Peer
  OBVIOUS
<1>2. PICK n \in Nat : n = Len(peers)
  BY <1>1
<1>3. Watch!IdsOf(peers) = [k \in 1..n |-> peers[k].id]
  BY <1>1, <1>2 DEF Watch!IdsOf
<1>4. \A k \in 1..n : peers[k].id \in Ids
  BY <1>1, <1>2 DEF Peer
<1>5. Watch!IdsOf(peers) \in [1..n -> Ids]
  BY <1>3, <1>4
<1> QED
  BY <1>5

(* The peer is sent nothing that is older. *)
LEMMA Maybe ==
  ASSUME NEW a \in AdapterRecord, ~a.initialized => a.sentIndex = 0, NEW b, b = Watch!maybeEvent(a)
  PROVE  /\ b \in AdapterRecord /\ b.peers = a.peers /\ b.state = a.state /\ b.current = a.current
         /\ b.sentIndex >= a.sentIndex
         /\ ~b.initialized => b.sentIndex = 0
         /\ a.current => b.sentIndex >= b.state /\ b.sentPeers = Watch!IdsOf(b.peers)
<1>1. CASE ~a.current
  <2>1. b = a
    BY <1>1 DEF Watch!maybeEvent
  <2> QED
    BY <1>1, <2>1 DEF AdapterRecord
<1>2. CASE a.current
  <2> DEFINE ids == Watch!IdsOf(a.peers)
             x == IF a.initialized /\ a.state <= a.sentIndex THEN a.sentIndex ELSE a.state
  <2>1. b = [[[a EXCEPT !.initialized = TRUE] EXCEPT !.sentPeers = ids] EXCEPT !.sentIndex = x]
    BY <1>2 DEF Watch!maybeEvent, AdapterRecord
  <2>2. ids \in Seq(Ids)
    BY IdsOfTypes DEF AdapterRecord
  <2>3. x \in Nat /\ x >= a.sentIndex /\ x >= a.state
    BY DEF AdapterRecord
  <2> HIDE DEF ids, x
  <2>4. /\ b \in AdapterRecord /\ b.peers = a.peers /\ b.state = a.state /\ b.current = a.current
        /\ b.initialized = TRUE /\ b.sentPeers = ids /\ b.sentIndex = x
    BY <2>1, <2>2, <2>3 DEF AdapterRecord
  <2> QED
    BY <2>3, <2>4 DEF ids
<1> QED
  BY <1>1, <1>2

(* What receiveEvents has to show: a is what it makes of the event. *)
LEMMA AdapterStep ==
  ASSUME WatchInv, UNCHANGED <<wHist, wServer, wSub, wWatch, wFaults>>, wOut' = Watch!NoEvent,
         NEW a \in AdapterRecord, a.initialized = wAdapter.initialized,
         a.sentIndex = wAdapter.sentIndex, a.sentPeers = wAdapter.sentPeers,
         wAdapter.current \/ wOut.kind = "current" => a.current, a.state >= wWatch.meta,
         \A i \in Ids : wWatch.insts[i] # Absent => i \in PeerIds(a.peers),
         wFaults.giveUps = 0 => \A i \in PeerIds(a.peers) : wWatch.insts[i] # Absent,
         \/ wAdapter' = Watch!maybeEvent(a)
         \/ /\ wAdapter' = a /\ wOut.kind # "current" /\ a.state = wAdapter.state
            /\ a.current = wAdapter.current
            /\ Live /\ wWatch.isCurrent => Watch!IdsOf(a.peers) = Watch!IdsOf(wAdapter.peers)
  PROVE  WatchInv' /\ wAdapter'.sentIndex >= wAdapter.sentIndex
<1>1. wAdapter \in AdapterRecord
  BY DEF WatchInv, WatchTypes, AdapterRecord
<1>2. ~a.initialized => a.sentIndex = 0
  BY DEF WatchInv, PeersSent
<1>3. /\ wAdapter' \in AdapterRecord /\ wAdapter'.peers = a.peers /\ wAdapter'.state = a.state
      /\ wAdapter'.current = a.current /\ wAdapter'.sentIndex >= wAdapter.sentIndex
      /\ ~wAdapter'.initialized => wAdapter'.sentIndex = 0
      /\ wAdapter'.current => wAdapter'.sentIndex >= wAdapter'.state
      /\ Live /\ wWatch.isCurrent => wAdapter'.sentPeers = Watch!IdsOf(wAdapter'.peers)
  <2>1. CASE wAdapter' = Watch!maybeEvent(a)
    <3>1. wWatch.isCurrent => a.current
      BY DEF WatchInv, PeersSent
    <3> QED
      BY <1>2, <2>1, <3>1, Maybe
  <2>2. CASE /\ wAdapter' = a /\ wOut.kind # "current" /\ a.state = wAdapter.state
             /\ a.current = wAdapter.current
             /\ Live /\ wWatch.isCurrent => Watch!IdsOf(a.peers) = Watch!IdsOf(wAdapter.peers)
    <3>1. a.sentIndex >= wAdapter.sentIndex
      BY <1>1 DEF AdapterRecord
    <3> QED
      BY <1>2, <2>2, <3>1 DEF WatchInv, PeersSent
  <2> QED
    BY <2>1, <2>2
<1>4. wOut'.kind = "none" /\ wOut' = Watch!NoEvent'
  BY NothingPassed
<1>5. HistInv'
  BY DEF WatchInv, HistInv
<1>6. WatchTypes'
  BY <1>3, <1>4 DEF WatchInv, WatchTypes, AdapterRecord
<1>7. Live' = Live /\ Queue' = Queue
  BY DEF Live, Queue
<1>8. Modes' /\ QueueOK'
  BY <1>4, <1>7 DEF WatchInv, Modes, QueueOK
<1>9. Passed'
  <2>1. PeerIds(wAdapter.peers)' = PeerIds(a.peers)
    BY <1>3 DEF PeerIds
  <2> QED
    BY <1>3, <1>4, <2>1 DEF Passed
<1>10. PeersSent'
  <2>1. Watch!IdsOf(wAdapter.peers)' = Watch!IdsOf(wAdapter'.peers)
    BY DEF Watch!IdsOf
  <2>2. wWatch.isCurrent => wAdapter'.current
    BY <1>3 DEF WatchInv, PeersSent
  <2> QED
    BY <1>3, <1>4, <1>7, <2>1, <2>2 DEF PeersSent
<1> QED
  BY <1>3, <1>5, <1>6, <1>8, <1>9, <1>10 DEF WatchInv

LEMMA AdapterKeeps ==
  ASSUME Setting, WatchInv, Watch!receiveEvents
  PROVE  WatchInv' /\ wAdapter'.sentIndex >= wAdapter.sentIndex
<1>1. wAdapter \in AdapterRecord /\ wWatch \in WatchRecord /\ wOut \in WEvent \cup {Watch!NoEvent}
  BY DEF WatchInv, WatchTypes, AdapterRecord, WatchRecord
<1>2. wOut # Watch!NoEvent /\ wOut' = Watch!NoEvent /\ UNCHANGED <<wHist, wServer, wSub, wWatch, wFaults>>
  BY DEF Watch!receiveEvents
<1>3. wOut \in WEvent
  BY <1>1, <1>2
<1>4. wAdapter.peers \in Seq(Peer)
  BY <1>1 DEF AdapterRecord
<1>5. CASE wOut.kind \in {"up", "update"}
  <2>1. PICK peers \in Watch!addPeer(wAdapter.peers, wOut) :
          wAdapter' = IF wOut.kind = "up" THEN Watch!maybeEvent([wAdapter EXCEPT !.peers = peers])
                      ELSE [wAdapter EXCEPT !.peers = peers]
    BY <1>5 DEF Watch!receiveEvents
  <2>2. wOut.id \in Ids /\ wOut.inst \in Inst
    BY <1>3, <1>5 DEF WEvent
  <2>3. /\ peers \in Seq(Peer) /\ PeerIds(peers) = PeerIds(wAdapter.peers) \cup {wOut.id}
        /\ wOut.id \in PeerIds(wAdapter.peers) => Watch!IdsOf(peers) = Watch!IdsOf(wAdapter.peers)
    BY <1>4, <2>2, PeerAdded
  <2> DEFINE a == [wAdapter EXCEPT !.peers = peers]
  <2>4. /\ a \in AdapterRecord /\ a.peers = peers /\ a.state = wAdapter.state
        /\ a.initialized = wAdapter.initialized /\ a.current = wAdapter.current
        /\ a.sentPeers = wAdapter.sentPeers /\ a.sentIndex = wAdapter.sentIndex
    BY <1>1, <2>3 DEF AdapterRecord
  <2>5. wAdapter' = IF wOut.kind = "up" THEN Watch!maybeEvent(a) ELSE a
    BY <2>1
  <2> HIDE DEF a
  <2>6. /\ wWatch.insts[wOut.id] # Absent
        /\ \A i \in Ids : wWatch.insts[i] # Absent => i \in PeerIds(a.peers)
        /\ wFaults.giveUps = 0 => \A i \in PeerIds(a.peers) : wWatch.insts[i] # Absent
        /\ wAdapter.state >= wWatch.meta
    BY <1>5, <2>3, <2>4 DEF WatchInv, Passed
  <2>7. wOut.kind = "update" /\ Live /\ wWatch.isCurrent =>
          Watch!IdsOf(a.peers) = Watch!IdsOf(wAdapter.peers)
    BY <2>3, <2>4 DEF WatchInv, PeersSent
  <2>8. CASE wOut.kind = "up"
    <3>1. wAdapter' = Watch!maybeEvent(a)
      BY <2>5, <2>8
    <3> QED
      BY <1>2, <2>4, <2>6, <2>8, <3>1, AdapterStep
  <2>9. CASE wOut.kind = "update"
    <3>1. wAdapter' = a
      BY <2>5, <2>9
    <3> QED
      BY <1>2, <2>4, <2>6, <2>7, <2>9, <3>1, AdapterStep
  <2> QED
    BY <1>5, <2>8, <2>9
<1>6. CASE wOut.kind = "down"
  <2> DEFINE peers == Watch!delPeer(wAdapter.peers, wOut)
             a == [wAdapter EXCEPT !.peers = peers]
  <2>1. wAdapter' = Watch!maybeEvent(a)
    BY <1>6 DEF Watch!receiveEvents
  <2>2. peers \in Seq(Peer) /\ PeerIds(peers) = PeerIds(wAdapter.peers) \ {wOut.id}
    BY <1>4, PeerDeleted
  <2> HIDE DEF peers
  <2>3. /\ a \in AdapterRecord /\ a.peers = peers /\ a.state = wAdapter.state
        /\ a.initialized = wAdapter.initialized /\ a.current = wAdapter.current
        /\ a.sentPeers = wAdapter.sentPeers /\ a.sentIndex = wAdapter.sentIndex
    BY <1>1, <2>2 DEF AdapterRecord
  <2> HIDE DEF a
  <2>4. /\ \A i \in Ids : wWatch.insts[i] # Absent => i \in PeerIds(a.peers)
        /\ wFaults.giveUps = 0 => \A i \in PeerIds(a.peers) : wWatch.insts[i] # Absent
        /\ wAdapter.state >= wWatch.meta
    BY <1>6, <2>2, <2>3 DEF WatchInv, Passed
  <2> QED
    BY <1>2, <1>6, <2>1, <2>3, <2>4, AdapterStep
<1>7. CASE wOut.kind \in {"current", "meta", "leader"}
  <2>1. /\ \A i \in Ids : wWatch.insts[i] # Absent => i \in PeerIds(wAdapter.peers)
        /\ wFaults.giveUps = 0 => \A i \in PeerIds(wAdapter.peers) : wWatch.insts[i] # Absent
        /\ IF wOut.kind = "meta" THEN wOut.meta.index = wWatch.meta ELSE wAdapter.state >= wWatch.meta
    BY <1>7 DEF WatchInv, Passed
  <2>2. CASE wOut.kind = "current"
    <3> DEFINE a == [wAdapter EXCEPT !.current = TRUE]
    <3>1. wAdapter' = Watch!maybeEvent(a)
      BY <2>2 DEF Watch!receiveEvents
    <3>2. /\ a \in AdapterRecord /\ a.peers = wAdapter.peers /\ a.state = wAdapter.state
          /\ a.initialized = wAdapter.initialized /\ a.current = TRUE
          /\ a.sentPeers = wAdapter.sentPeers /\ a.sentIndex = wAdapter.sentIndex
      BY <1>1 DEF AdapterRecord
    <3> HIDE DEF a
    <3> QED
      BY <1>2, <2>1, <2>2, <3>1, <3>2, AdapterStep
  <2>3. CASE wOut.kind = "leader" \/ (wOut.kind = "meta" /\ wOut.meta.index <= wAdapter.state)
    <3>1. wAdapter' = wAdapter
      BY <2>3 DEF Watch!receiveEvents
    <3>2. wAdapter.state >= wWatch.meta
      BY <1>1, <2>1, <2>3 DEF AdapterRecord, WatchRecord
    <3> QED
      BY <1>1, <1>2, <2>1, <2>3, <3>1, <3>2, AdapterStep
  <2>4. CASE wOut.kind = "meta" /\ ~(wOut.meta.index <= wAdapter.state)
    <3> DEFINE x == wOut.meta.index  a == [wAdapter EXCEPT !.state = x]
    <3>1. wAdapter' = Watch!maybeEvent(a)
      BY <2>4 DEF Watch!receiveEvents
    <3>2. x \in Nat /\ x >= wWatch.meta
      BY <1>1, <1>3, <2>1, <2>4 DEF WEvent, Meta, WatchRecord
    <3> HIDE DEF x
    <3>3. /\ a \in AdapterRecord /\ a.peers = wAdapter.peers /\ a.state = x
          /\ a.initialized = wAdapter.initialized /\ a.current = wAdapter.current
          /\ a.sentPeers = wAdapter.sentPeers /\ a.sentIndex = wAdapter.sentIndex
      BY <1>1, <3>2 DEF AdapterRecord
    <3> HIDE DEF a
    <3> QED
      BY <1>2, <2>1, <2>4, <3>1, <3>2, <3>3, AdapterStep
  <2> QED
    BY <1>7, <2>2, <2>3, <2>4
<1>8. wOut.kind \in {"up", "update", "down", "current", "leader", "meta"}
  BY <1>3 DEF WEvent
<1> QED
  BY <1>5, <1>6, <1>7, <1>8

-----------------------------------------------------------------------------
LEMMA WatchStep ==
  ASSUME Setting, WatchInv, [Watch!Next]_(Watch!vars)
  PROVE  WatchInv' /\ wAdapter'.sentIndex >= wAdapter.sentIndex
<1>1. wAdapter \in AdapterRecord
  BY DEF WatchInv, WatchTypes, AdapterRecord
<1>2. wAdapter.sentIndex >= wAdapter.sentIndex
  BY <1>1 DEF AdapterRecord
<1>3. CASE UNCHANGED Watch!vars
  <2>1. HistInv' /\ WatchTypes'
    BY <1>3, NothingPassed DEF Watch!vars, WatchInv, HistInv, WatchTypes
  <2>2. Live' = Live /\ Queue' = Queue
    BY <1>3 DEF Watch!vars, Live, Queue
  <2>3. Modes' /\ QueueOK' /\ Passed'
    BY <1>3, <2>2, NothingPassed DEF Watch!vars, WatchInv, Modes, QueueOK, Passed, PeerIds
  <2>4. PeersSent'
    BY <1>3, <2>2 DEF Watch!vars, WatchInv, PeersSent, PeerIds, Watch!IdsOf
  <2> QED
    BY <1>2, <1>3, <2>1, <2>3, <2>4 DEF WatchInv, Watch!vars
<1>4. CASE Watch!CommitEntry
  <2>1. wAdapter' = wAdapter
    BY <1>4, EntryLinked DEF WatchInv
  <2> QED
    BY <1>2, <1>4, <2>1, CommitKeeps
<1>5. CASE Watch!ApplyEntry
  BY <1>2, <1>5, ApplyKeeps DEF Watch!ApplyEntry
<1>6. CASE Watch!ApplyOther
  BY <1>2, <1>6, OtherKeeps DEF Watch!ApplyOther
<1>7. CASE Watch!broadcast
  BY <1>2, <1>7, BroadcastKeeps DEF Watch!broadcast
<1>8. CASE Watch!drain \/ Watch!close
  BY <1>2, <1>8, ClosingKeeps DEF Watch!drain, Watch!close
<1>9. CASE Watch!Restore
  BY <1>2, <1>9, RestoreKeeps DEF Watch!Restore
<1>10. CASE Watch!Subscribe
  BY <1>2, <1>10, SubscribeKeeps DEF Watch!Subscribe
<1>11. CASE Watch!Receive
  BY <1>2, <1>11, ReceiveKeeps DEF Watch!Receive
<1>12. CASE Watch!ReportGone
  BY <1>2, <1>12, ReportKeeps DEF Watch!ReportGone
<1>13. CASE Watch!receiveEvents
  BY <1>13, AdapterKeeps
<1>14. CASE Watch!EndOfStream \/ Watch!Disconnect \/ Watch!GiveUp
  <2>1. wAdapter'.sentIndex = wAdapter.sentIndex
    BY <1>1, <1>14 DEF Watch!EndOfStream, Watch!Disconnect, Watch!GiveUp, AdapterRecord
  <2> QED
    BY <1>2, <1>14, <2>1, DisconnectKeeps
<1> QED
  BY <1>3, <1>4, <1>5, <1>6, <1>7, <1>8, <1>9, <1>10, <1>11, <1>12, <1>13, <1>14 DEF Watch!Next

(* The invariant says what InSync says once everything has been heard. *)
LEMMA WatchHeard == ASSUME WatchInv PROVE InSync
<1> SUFFICES ASSUME Watch!Heard, wFaults.snapshots = 0
             PROVE  /\ wWatch.insts = Watch!DataAt.insts
                    /\ Watch!DataAt.meta # Watch!NoMeta => wWatch.meta = Watch!DataAt.meta.index
                    /\ Watch!Registered(Watch!DataAt) \subseteq Watch!Sent
                    /\ wFaults.giveUps = 0 => Watch!Sent = Watch!Registered(Watch!DataAt)
                    /\ wAdapter.sentIndex >= Watch!DataAt.meta.index
  BY DEF InSync, Watch!InSync
<1> DEFINE d == wHist[wServer.applied].data
<1>1. Watch!DataAt = d /\ Watch!NoMeta = NoMeta /\ Watch!Registered(d) = Registered(d)
  BY SameRegistered DEF Watch!DataAt, Watch!NoMeta, NoMeta
<1>2. /\ wWatch.state = "connected" /\ wWatch.isCurrent /\ wSub.buf = <<>> /\ wOut.kind = "none"
      /\ wServer.broadcasting = <<>> /\ Live
  BY NothingPassed DEF Watch!Heard, Watch!Unlocked, Live
<1>3. d \in Data
  BY DEF WatchInv, HistInv, WatchTypes
<1>4. wWatch \in WatchRecord /\ wAdapter \in AdapterRecord
  BY DEF WatchInv, WatchTypes, WatchRecord, AdapterRecord
<1>5. DOMAIN Queue = {}
  BY <1>2 DEF Queue, Joining
<1>6. QueueInv(Queue, wWatch, d)
  BY <1>2 DEF WatchInv, QueueOK
<1> HIDE DEF d
<1>7. \A i \in Ids : wWatch.insts[i] = d.insts[i]
  BY <1>2, <1>5, <1>6 DEF QueueInv, Instances, Unspoken, Holds
<1>8. wWatch.insts = d.insts
  BY <1>3, <1>4, <1>7 DEF WatchRecord, Data
<1>9. d.meta # NoMeta => wWatch.meta = d.meta.index
  BY <1>5, <1>6 DEF QueueInv, Told
<1>10. PeerIds(wAdapter.peers) = Watch!Sent
  <2>1. wAdapter.sentPeers = [k \in DOMAIN wAdapter.peers |-> wAdapter.peers[k].id]
    BY <1>2 DEF WatchInv, PeersSent, Watch!IdsOf
  <2> QED
    BY <2>1 DEF PeerIds, Watch!Sent
<1>11. PeerIds(wAdapter.peers) \subseteq Ids
  BY <1>4, PeerIdTypes DEF AdapterRecord
<1>12. /\ \A i \in Ids : d.insts[i] # Absent => i \in PeerIds(wAdapter.peers)
       /\ wFaults.giveUps = 0 => \A i \in PeerIds(wAdapter.peers) : d.insts[i] # Absent
       /\ wAdapter.state >= wWatch.meta
  BY <1>2, <1>8 DEF WatchInv, Passed
<1>13. wAdapter.sentIndex >= d.meta.index
  <2>1. wAdapter.sentIndex >= wAdapter.state
    BY <1>2 DEF WatchInv, PeersSent
  <2>2. wAdapter.sentIndex \in Nat /\ wAdapter.state \in Nat /\ wWatch.meta \in Nat
    BY <1>4 DEF AdapterRecord, WatchRecord
  <2>3. d.meta = NoMeta => d.meta.index = 0
    BY DEF NoMeta
  <2> QED
    BY <1>9, <1>12, <2>1, <2>2, <2>3
<1> QED
  BY <1>1, <1>8, <1>9, <1>10, <1>11, <1>12, <1>13 DEF Registered

(* Watch and receiveEvents: when everything that the server has said has   *)
(* been heard, the watch holds what its server holds, and the peer of      *)
(* Sirenia has been told, after any interleaving of lost connections,      *)
(* lagging servers and closed subscriptions (InSync).                      *)
THEOREM WatchInSync ==
  ASSUME Setting
  PROVE  Watch!Spec => []InSync
<1>1. Watch!Init => WatchInv
  BY WatchStart
<1>2. WatchInv /\ [Watch!Next]_(Watch!vars) => WatchInv'
  BY WatchStep
<1>3. WatchInv => InSync
  BY WatchHeard
<1> QED
  BY <1>1, <1>2, <1>3, PTL DEF Watch!Spec

(* receiveEvents never sends a cluster state older than one it has sent    *)
(* (AdapterNeverBack).                                                     *)
THEOREM NoOlderState ==
  ASSUME Setting
  PROVE  Watch!Spec => AdapterNeverBack
<1>1. Watch!Init => WatchInv
  BY WatchStart
<1>2. WatchInv /\ [Watch!Next]_(Watch!vars) => WatchInv'
  BY WatchStep
<1>3. WatchInv /\ [Watch!Next]_(Watch!vars) => [wAdapter'.sentIndex >= wAdapter.sentIndex]_(Watch!vars)
  BY WatchStep
<1> QED
  BY <1>1, <1>2, <1>3, PTL DEF Watch!Spec, AdapterNeverBack, Watch!NeverBack
=============================================================================
