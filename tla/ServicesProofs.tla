--------------------------- MODULE ServicesProofs ---------------------------
(***************************************************************************)
(* Proofs about FlannelSubnets, for any hosts, subnets, lost answers,      *)
(* restarts and watches that reconnect: no two hosts use one subnet,       *)
(* provided that no host begins with a subnet it prefers.  And about       *)
(* Appliance, for any peers, configurations, failures and exits: a         *)
(* PostgreSQL primary accepts writes only while its sync has them.         *)
(*                                                                         *)
(* NoSharedSubnet is not inductive.  Mine adds what a host is about to     *)
(* write: a subnet that it updates is already its own, and one that it     *)
(* creates was free at the index that the write is compared with.          *)
(* SafeWrites needs Awaited, for whom the goroutine of waitForSync waits,  *)
(* and Driven, that a process without a role is on its way to be stopped.  *)
(***************************************************************************)
EXTENDS Services, TLAPS

(* None is no subnet and no host, and no host begins with a preference. *)
NoPreference ==
  /\ None \notin Hosts \cup Subnets
  /\ \A h \in Hosts : Wanted[h] = None

Lease == [host : Hosts \cup {None}, mac : Nat]
Leases == [Subnets -> Lease]
Manager ==
  [pc : {"new", "lease", "read", "write", "watch"}, preferred : Subnets \cup {None},
   mac : Nat, leases : Leases, lastIndex : Nat, op : {"none", "update", "create"},
   sn : Subnets \cup {None}, net : Nat, myLease : Subnets \cup {None}, next : Nat,
   known : Leases, open : BOOLEAN, whole : BOOLEAN]

Started(h) ==
  /\ sm[h].pc # "new" => sm[h].next >= 1
  /\ sm[h].pc \in {"read", "write"} => sm[h].sn \in Subnets /\ sm[h].op # "none"
  /\ sm[h].lastIndex <= Index /\ sm[h].next <= Index + 1 /\ sm[h].net <= Index

Types ==
  /\ log \in Seq(Leases) /\ Index >= 1
  /\ sm \in [Hosts -> Manager]
  /\ \A h \in Hosts : Started(h)

Own(h, s) == log[Index][s].host = h
Mine(h) ==
  /\ sm[h].preferred # None => Own(h, sm[h].preferred)
  /\ sm[h].myLease # None => Own(h, sm[h].myLease)
  /\ sm[h].pc \in {"read", "write"} /\ sm[h].op = "update" => Own(h, sm[h].sn)
  /\ sm[h].pc = "write" /\ sm[h].op = "create" /\ sm[h].net = Index =>
       log[Index][sm[h].sn] = NoLease

Inv == Types /\ \A h \in Hosts : Mine(h)

-----------------------------------------------------------------------------
LEMMA NoLeaseType == NoLease \in Lease /\ NoLeases \in Leases
BY DEF NoLease, NoLeases, Lease, Leases

LEMMA LogFacts ==
  ASSUME Types
  PROVE  /\ Index \in Nat /\ log[Index] \in Leases
         /\ \A i \in 1..Index : log[i] \in Leases
         /\ \A s \in Subnets : log[Index][s] \in Lease
BY DEF Types, Index, Leases

LEMMA ApplyType ==
  ASSUME NEW a \in Leases, NEW b \in Leases, NEW S
  PROVE  applySubnetChange(a, b, S) \in Leases
BY DEF applySubnetChange, Leases

(* A step of a manager that leaves the log alone. *)
LEMMA Local ==
  ASSUME Inv, NEW h \in Hosts, NEW r \in Manager, Set(h, r), UNCHANGED log,
         r.pc # "new" => r.next >= 1,
         r.pc \in {"read", "write"} => r.sn \in Subnets /\ r.op # "none",
         r.lastIndex <= Index, r.next <= Index + 1, r.net <= Index,
         r.preferred # None => Own(h, r.preferred),
         r.myLease # None => Own(h, r.myLease),
         r.pc \in {"read", "write"} /\ r.op = "update" => Own(h, r.sn),
         r.pc = "write" /\ r.op = "create" /\ r.net = Index => log[Index][r.sn] = NoLease
  PROVE  Inv'
<1>1. /\ sm' \in [Hosts -> Manager] /\ sm'[h] = r
      /\ \A g \in Hosts \ {h} : sm'[g] = sm[g]
      /\ log' = log /\ Index' = Index
  BY DEF Inv, Types, Set, Index
<1>2. \A g \in Hosts : Started(g)' /\ Mine(g)'
  <2> SUFFICES ASSUME NEW g \in Hosts PROVE Started(g)' /\ Mine(g)'
    OBVIOUS
  <2>1. CASE g = h
    BY <1>1, <2>1 DEF Started, Mine, Own
  <2>2. CASE g # h
    <3>1. sm'[g] = sm[g]
      BY <1>1, <2>2
    <3> QED BY <1>1, <3>1 DEF Inv, Types, Started, Mine, Own
  <2> QED BY <2>1, <2>2
<1> QED BY <1>1, <1>2 DEF Inv, Types

LEMMA InitInv == ASSUME NoPreference, Init PROVE Inv
<1>1. Index = 1 /\ log \in Seq(Leases) /\ log[Index] = NoLeases
  BY NoLeaseType DEF Init, Index
<1>2. \A h \in Hosts : /\ sm[h] \in Manager /\ sm[h].pc = "new"
                       /\ sm[h].preferred = None /\ sm[h].myLease = None
                       /\ sm[h].lastIndex = 0 /\ sm[h].next = 0 /\ sm[h].net = 0
  BY NoLeaseType DEF Init, NoPreference, NewSubnetManager, Manager
<1>3. sm \in [Hosts -> Manager]
  BY <1>2 DEF Init
<1>4. \A h \in Hosts : Started(h) /\ Mine(h)
  BY <1>1, <1>2 DEF Started, Mine
<1> QED BY <1>1, <1>3, <1>4 DEF Inv, Types

-----------------------------------------------------------------------------
LEMMA NewRegistryInv == ASSUME NoPreference, Inv, NEW h \in Hosts, NewRegistry(h) PROVE Inv'
<1> DEFINE r == [sm[h] EXCEPT !.pc = "lease", !.next = Index]
<1>1. sm[h] \in Manager /\ Started(h) /\ Mine(h) /\ Index \in Nat /\ Index >= 1
  BY LogFacts DEF Inv, Types
<1>2. r \in Manager /\ r.pc = "lease" /\ r.next = Index /\ r.lastIndex = sm[h].lastIndex
      /\ r.net = sm[h].net /\ r.preferred = sm[h].preferred /\ r.myLease = sm[h].myLease
  BY <1>1 DEF Manager
<1>3. Set(h, r) /\ UNCHANGED log
  BY DEF NewRegistry
<1> HIDE DEF r
<1> QED BY <1>1, <1>2, <1>3, Local DEF Started, Mine

LEMMA TryInv == ASSUME NoPreference, Inv, NEW h \in Hosts, tryAcquireLease(h) PROVE Inv'
<1> DEFINE leases == log[Index]
           update == IF Preferred(leases, h) # {} THEN Preferred(leases, h)
                     ELSE Held(leases, h)
           r(s) == [sm[h] EXCEPT !.pc = "read", !.leases = leases, !.lastIndex = Index,
                      !.op = IF update # {} THEN "update" ELSE "create", !.sn = s]
<1>1. sm[h] \in Manager /\ Started(h) /\ Mine(h) /\ Index \in Nat /\ Index >= 1
      /\ leases \in Leases /\ sm[h].pc = "lease"
  BY LogFacts DEF Inv, Types, tryAcquireLease
<1>2. PICK s \in IF update # {} THEN update ELSE Free(leases) : Set(h, r(s)) /\ UNCHANGED log
  BY DEF tryAcquireLease
<1>3. s \in Subnets
  BY <1>1, <1>2 DEF Preferred, Held, Free, Manager
<1>4. update # {} => Own(h, s)
  <2>1. s \in Held(leases, h) => Own(h, s)
    BY DEF Held, Own
  <2>2. s \in Preferred(leases, h) => Own(h, s)
    BY <1>1 DEF Preferred, Mine
  <2> QED BY <1>2, <2>1, <2>2
<1>5. r(s) \in Manager /\ r(s).pc = "read" /\ r(s).next = sm[h].next /\ r(s).lastIndex = Index
      /\ r(s).net = sm[h].net /\ r(s).preferred = sm[h].preferred
      /\ r(s).myLease = sm[h].myLease /\ r(s).sn = s
      /\ r(s).op = IF update # {} THEN "update" ELSE "create"
  BY <1>1, <1>3 DEF Manager
<1> HIDE DEF r, update
<1> QED BY <1>1, <1>2, <1>3, <1>4, <1>5, Local DEF Started, Mine

LEMMA GetInv == ASSUME NoPreference, Inv, NEW h \in Hosts, getNetwork(h) PROVE Inv'
<1>1. sm[h] \in Manager /\ Started(h) /\ Mine(h) /\ Index \in Nat /\ Index >= 1
      /\ sm[h].pc = "read"
  BY LogFacts DEF Inv, Types, getNetwork
<1>2. CASE Exists(h)
  <2> DEFINE r == [sm[h] EXCEPT !.pc = "lease"]
  <2>1. r \in Manager /\ r.pc = "lease" /\ r.next = sm[h].next /\ r.lastIndex = sm[h].lastIndex
        /\ r.net = sm[h].net /\ r.preferred = sm[h].preferred /\ r.myLease = sm[h].myLease
    BY <1>1 DEF Manager
  <2>2. Set(h, r) /\ UNCHANGED log
    BY <1>2 DEF getNetwork
  <2> HIDE DEF r
  <2> QED BY <1>1, <2>1, <2>2, Local DEF Started, Mine
<1>3. CASE ~Exists(h)
  <2> DEFINE r == [sm[h] EXCEPT !.pc = "write", !.net = Index]
  <2>1. r \in Manager /\ r.pc = "write" /\ r.next = sm[h].next /\ r.lastIndex = sm[h].lastIndex
        /\ r.net = Index /\ r.preferred = sm[h].preferred /\ r.myLease = sm[h].myLease
        /\ r.op = sm[h].op /\ r.sn = sm[h].sn
    BY <1>1 DEF Manager
  <2>2. Set(h, r) /\ UNCHANGED log
    BY <1>3 DEF getNetwork
  <2>3. r.op = "create" => log[Index][r.sn] = NoLease
    BY <1>3, <2>1 DEF Exists
  <2> HIDE DEF r
  <2> QED BY <1>1, <2>1, <2>2, <2>3, Local DEF Started, Mine
<1> QED BY <1>2, <1>3

(* A write that succeeds adds a lease of the host, and every subnet that   *)
(* was another host's is still that host's.                                *)
LEMMA WriteInv ==
  ASSUME NoPreference, Inv, NEW h \in Hosts, sm[h].pc = "write", sm[h].net = Index,
         log' = Append(log, [log[Index] EXCEPT ![sm[h].sn] = Attrs(h)]),
         NEW r \in Manager, Set(h, r), r.pc \in {"lease", "watch"}, r.next = sm[h].next,
         r.lastIndex = sm[h].lastIndex, r.net = sm[h].net, r.preferred = sm[h].preferred,
         r.myLease \in {sm[h].myLease, sm[h].sn}
  PROVE  Inv'
<1> DEFINE new == [log[Index] EXCEPT ![sm[h].sn] = Attrs(h)]
           OwnNext(g, s) == log'[Index'][s].host = g
<1>1. sm[h] \in Manager /\ Started(h) /\ Mine(h) /\ Index \in Nat /\ Index >= 1
      /\ log[Index] \in Leases /\ sm[h].sn \in Subnets /\ log \in Seq(Leases)
  BY LogFacts DEF Inv, Types, Started
<1>2. Attrs(h) \in Lease /\ Attrs(h).host = h
  BY <1>1 DEF Attrs, Lease, Manager
<1>3. /\ new \in Leases /\ new[sm[h].sn].host = h
      /\ \A s \in Subnets \ {sm[h].sn} : new[s] = log[Index][s]
  BY <1>1, <1>2 DEF Leases
<1> HIDE DEF new
<1>4. log' \in Seq(Leases) /\ Index' = Index + 1 /\ log'[Index'] = new
  <2>1. log' = Append(log, new)
    BY DEF new
  <2> QED BY <1>1, <1>3, <2>1 DEF Index
<1>5. /\ sm' \in [Hosts -> Manager] /\ sm'[h] = r
      /\ \A g \in Hosts \ {h} : sm'[g] = sm[g]
  BY DEF Inv, Types, Set
<1>6. ASSUME NEW g \in Hosts, NEW s \in Subnets, Own(g, s) PROVE OwnNext(g, s)
  <2>1. CASE s # sm[h].sn
    BY <1>3, <1>4, <1>6, <2>1 DEF Own
  <2>2. CASE s = sm[h].sn
    <3>1. g = h
      <4>1. CASE sm[h].op = "update"
        BY <1>1, <1>6, <2>2, <4>1 DEF Mine, Own
      <4>2. CASE sm[h].op = "create"
        <5>1. log[Index][s] = NoLease
          BY <1>1, <2>2, <4>2 DEF Mine
        <5> QED BY <1>6, <5>1 DEF Own, NoLease, NoPreference
      <4> QED BY <1>1, <4>1, <4>2 DEF Started, Manager
    <3> QED BY <1>3, <1>4, <2>2, <3>1 DEF Own
  <2> QED BY <2>1, <2>2
<1>7. OwnNext(h, sm[h].sn)
  BY <1>3, <1>4
<1>8. ASSUME NEW g \in Hosts PROVE Started(g)' /\ Mine(g)'
  <2>1. sm[g] \in Manager /\ Started(g) /\ Mine(g)
    BY DEF Inv, Types
  <2>2. CASE g = h
    <3>1. Started(h)'
      <4>1. /\ r.next >= 1 /\ r.lastIndex <= Index + 1 /\ r.next <= Index + 1 + 1
            /\ r.net <= Index + 1
        BY <1>1 DEF Started, Manager
      <4> QED BY <1>4, <1>5, <4>1 DEF Started
    <3>2. /\ r.preferred # None => OwnNext(h, r.preferred)
          /\ r.myLease # None => OwnNext(h, r.myLease)
      BY <1>1, <1>6, <1>7 DEF Mine, Manager
    <3>3. Mine(h)'
      BY <1>5, <3>2 DEF Mine, Own
    <3> QED BY <2>2, <3>1, <3>3
  <2>3. CASE g # h
    <3>1. sm'[g] = sm[g]
      BY <1>5, <2>3
    <3>2. Started(g)'
      BY <1>1, <1>4, <2>1, <3>1 DEF Started, Manager
    <3>3. /\ sm[g].preferred # None => OwnNext(g, sm[g].preferred)
          /\ sm[g].myLease # None => OwnNext(g, sm[g].myLease)
          /\ sm[g].pc \in {"read", "write"} /\ sm[g].op = "update" => OwnNext(g, sm[g].sn)
      BY <1>6, <2>1 DEF Mine, Manager, Started
    <3>4. sm[g].net # Index'
      BY <1>1, <1>4, <2>1 DEF Started, Manager
    <3>5. Mine(g)'
      BY <3>1, <3>3, <3>4 DEF Mine, Own
    <3> QED BY <3>2, <3>5
  <2> QED BY <2>2, <2>3
<1> QED BY <1>1, <1>4, <1>5, <1>8 DEF Inv, Types

LEMMA SetNetworkInv == ASSUME NoPreference, Inv, NEW h \in Hosts, setNetwork(h) PROVE Inv'
<1> DEFINE again == [sm[h] EXCEPT !.pc = "lease"]
           leased == [sm[h] EXCEPT !.pc = "watch", !.myLease = sm[h].sn]
<1>1. sm[h] \in Manager /\ Started(h) /\ Mine(h) /\ Index \in Nat /\ Index >= 1
      /\ sm[h].pc = "write"
  BY LogFacts DEF Inv, Types, setNetwork
<1>2. again \in Manager /\ again.pc = "lease" /\ again.next = sm[h].next
      /\ again.lastIndex = sm[h].lastIndex /\ again.net = sm[h].net
      /\ again.preferred = sm[h].preferred /\ again.myLease = sm[h].myLease
  BY <1>1 DEF Manager
<1>3. leased \in Manager /\ leased.pc = "watch" /\ leased.next = sm[h].next
      /\ leased.lastIndex = sm[h].lastIndex /\ leased.net = sm[h].net
      /\ leased.preferred = sm[h].preferred /\ leased.myLease = sm[h].sn
  BY <1>1 DEF Manager
<1>4. CASE sm[h].net = Index
  <2>1. log' = Append(log, [log[Index] EXCEPT ![sm[h].sn] = Attrs(h)])
        /\ (Set(h, again) \/ Set(h, leased))
    BY <1>4 DEF setNetwork, Leased
  <2> HIDE DEF again, leased
  <2>2. CASE Set(h, again)
    BY <1>1, <1>2, <1>4, <2>1, <2>2, WriteInv
  <2>3. CASE Set(h, leased)
    BY <1>1, <1>3, <1>4, <2>1, <2>3, WriteInv
  <2> QED BY <2>1, <2>2, <2>3
<1>5. CASE sm[h].net # Index
  <2>1. Set(h, again) /\ UNCHANGED log
    BY <1>5 DEF setNetwork
  <2> HIDE DEF again
  <2> QED BY <1>1, <1>2, <2>1, Local DEF Started, Mine
<1> QED BY <1>4, <1>5

LEMMA WatchInv == ASSUME NoPreference, Inv, NEW h \in Hosts, WatchSubnets(h) PROVE Inv'
<1> DEFINE leases == log[sm[h].next]
           others == New(h, leases) \ {sm[h].myLease}
           seen == [sm[h] EXCEPT !.next = @ + 1, !.known = leases]
           told == [seen EXCEPT !.lastIndex = sm[h].next,
                                !.leases = applySubnetChange(@, leases, others),
                                !.whole = @ /\ Cardinality(others) <= 1]
<1>1. sm[h] \in Manager /\ Started(h) /\ Mine(h) /\ Index \in Nat /\ Index >= 1
      /\ sm[h].pc = "watch" /\ sm[h].next <= Index
  BY LogFacts DEF Inv, Types, WatchSubnets
<1>2. leases \in Leases
  <2>1. sm[h].next \in 1..Index
    BY <1>1 DEF Started, Manager
  <2> QED BY <2>1, LogFacts DEF Inv
<1> HIDE DEF leases
<1>3. seen \in Manager /\ seen.pc = "watch" /\ seen.next = sm[h].next + 1
      /\ seen.lastIndex = sm[h].lastIndex /\ seen.net = sm[h].net
      /\ seen.preferred = sm[h].preferred /\ seen.myLease = sm[h].myLease
      /\ seen.leases \in Leases
  <2>1. sm[h].next \in Nat /\ sm[h].next + 1 \in Nat
    BY <1>1 DEF Manager
  <2>2. seen = [sm[h] EXCEPT !.next = sm[h].next + 1, !.known = leases]
    BY <1>1 DEF Manager
  <2> HIDE DEF seen
  <2> QED BY <1>1, <1>2, <2>1, <2>2 DEF Manager
<1>4. told \in Manager /\ told.pc = "watch" /\ told.next = sm[h].next + 1
      /\ told.lastIndex = sm[h].next /\ told.net = sm[h].net
      /\ told.preferred = sm[h].preferred /\ told.myLease = sm[h].myLease
  <2> HIDE DEF seen, others
  <2>1. applySubnetChange(seen.leases, leases, others) \in Leases
    BY <1>2, <1>3, ApplyType
  <2>2. sm[h].next \in Nat
    BY <1>1 DEF Manager
  <2> DEFINE new == applySubnetChange(seen.leases, leases, others)
             w == seen.whole /\ Cardinality(others) <= 1
  <2>3. w \in BOOLEAN /\ new \in Leases
    BY <2>1
  <2>4. told = [seen EXCEPT !.lastIndex = sm[h].next, !.leases = new, !.whole = w]
    BY <1>3 DEF Manager
  <2> HIDE DEF told, new, w
  <2> QED BY <1>3, <2>2, <2>3, <2>4 DEF Manager
<1>5. (Set(h, seen) \/ Set(h, told)) /\ UNCHANGED log
  BY DEF WatchSubnets, leases
<1> HIDE DEF seen, told
<1>6. CASE Set(h, seen)
  BY <1>1, <1>3, <1>5, <1>6, Local DEF Started, Mine, Manager
<1>7. CASE Set(h, told)
  BY <1>1, <1>4, <1>5, <1>7, Local DEF Started, Mine, Manager
<1> QED BY <1>5, <1>6, <1>7

LEMMA ResumeInv == ASSUME NoPreference, Inv, NEW h \in Hosts, Resume(h) PROVE Inv'
<1> DEFINE r == [sm[h] EXCEPT !.next = Index]
           q == [sm[h] EXCEPT !.open = FALSE]
<1>1. sm[h] \in Manager /\ Started(h) /\ Mine(h) /\ Index \in Nat /\ Index >= 1
  BY LogFacts DEF Inv, Types
<1>2. r \in Manager /\ r.pc = sm[h].pc /\ r.next = Index /\ r.lastIndex = sm[h].lastIndex
      /\ r.net = sm[h].net /\ r.preferred = sm[h].preferred /\ r.myLease = sm[h].myLease
      /\ r.op = sm[h].op /\ r.sn = sm[h].sn
  BY <1>1 DEF Manager
<1>3. q \in Manager /\ q.pc = sm[h].pc /\ q.next = sm[h].next /\ q.lastIndex = sm[h].lastIndex
      /\ q.net = sm[h].net /\ q.preferred = sm[h].preferred /\ q.myLease = sm[h].myLease
      /\ q.op = sm[h].op /\ q.sn = sm[h].sn
  BY <1>1 DEF Manager
<1>4. (Set(h, r) \/ Set(h, q)) /\ UNCHANGED log
  BY DEF Resume
<1> HIDE DEF r, q
<1>5. CASE Set(h, r)
  BY <1>1, <1>2, <1>4, <1>5, Local DEF Started, Mine
<1>6. CASE Set(h, q)
  BY <1>1, <1>3, <1>4, <1>6, Local DEF Started, Mine
<1> QED BY <1>4, <1>5, <1>6

LEMMA RestartInv == ASSUME NoPreference, Inv, NEW h \in Hosts, Restart(h) PROVE Inv'
<1> DEFINE r(b) == NewSubnetManager(sm[h].myLease, sm[h].mac + IF b THEN 1 ELSE 0)
<1>1. sm[h] \in Manager /\ Started(h) /\ Mine(h) /\ Index \in Nat /\ Index >= 1
  BY LogFacts DEF Inv, Types
<1>2. PICK b \in BOOLEAN : Set(h, r(b)) /\ UNCHANGED log
  BY DEF Restart
<1>3. r(b) \in Manager /\ r(b).pc = "new" /\ r(b).next = 0 /\ r(b).lastIndex = 0
      /\ r(b).net = 0 /\ r(b).preferred = sm[h].myLease /\ r(b).myLease = None
  BY <1>1, NoLeaseType DEF Manager, NewSubnetManager
<1> HIDE DEF r
<1> QED BY <1>1, <1>2, <1>3, Local DEF Started, Mine

LEMMA NextInv == ASSUME NoPreference, Inv, [Next]_vars PROVE Inv'
<1>1. ASSUME NEW h \in Hosts, Flanneld(h) \/ Resume(h) \/ Restart(h) PROVE Inv'
  BY <1>1, NewRegistryInv, TryInv, GetInv, SetNetworkInv, WatchInv, ResumeInv, RestartInv
     DEF Flanneld
<1>2. CASE UNCHANGED vars
  BY <1>2 DEF vars, Inv, Types, Started, Mine, Own, Index
<1> QED BY <1>1, <1>2 DEF Next

-----------------------------------------------------------------------------
(* The managers and their indices have their types. *)
THEOREM FlannelTypes == ASSUME NoPreference PROVE Spec => []TypeOK
<1>1. Init => Inv
  BY InitInv
<1>2. Inv /\ [Next]_vars => Inv'
  BY NextInv
<1>3. Inv => TypeOK
  <2> SUFFICES ASSUME Inv, NEW h \in Hosts
               PROVE  /\ sm[h].pc \in {"new", "lease", "read", "write", "watch"}
                      /\ sm[h].myLease \in Subnets \cup {None}
                      /\ sm[h].lastIndex \in 0..Index /\ sm[h].next \in 0..(Index + 1)
    BY DEF TypeOK
  <2> QED BY LogFacts DEF Inv, Types, Started, Manager
<1> QED BY <1>1, <1>2, <1>3, PTL DEF Spec

(* No two hosts use one subnet, although hosts choose from leases they     *)
(* have read before, answers of writes are lost and hosts restart: what    *)
(* AcquireLease returned is the host's lease in the metadata for good.     *)
THEOREM SubnetsNotShared == ASSUME NoPreference PROVE Spec => []NoSharedSubnet
<1>1. Init => Inv
  BY InitInv
<1>2. Inv /\ [Next]_vars => Inv'
  BY NextInv
<1>3. Inv => NoSharedSubnet
  BY DEF Inv, Mine, Own, NoSharedSubnet
<1> QED BY <1>1, <1>2, <1>3, PTL DEF Spec

-----------------------------------------------------------------------------
(* The database process of an appliance, for any peers, changes of the     *)
(* configuration, commands that fail, exits and stalls.                    *)

(* PostgreSQL in a cluster that replicates. *)
Replicated == Kind = "postgres" /\ ~Singleton /\ "nil" \notin Peers /\ MaxChanges \in Nat /\ MaxErrors \in Nat

(* Who has an upstream is a standby, and a primary has a downstream. *)
Sane ==
  {c \in Db!Config : (c.role \in {"async", "sync"} <=> c.up # "nil") /\ (c.role = "primary" => c.down # "nil")}

Peer ==
  [want : Sane, applied : Sane, online : BOOLEAN, pc : {"idle", "start", "stop", "panic"}, config : Sane]
Wait == [inst : Peers \cup {"none"}, writes : BOOLEAN]
Process ==
  [running : BOOLEAN, config : Sane, configApplied : BOOLEAN, synced : Peers \cup {"nil"}, wait : Wait,
   exited : BOOLEAN, gaveUp : BOOLEAN]
Server ==
  [mode : {"off", "standby", "primary"}, readOnly : BOOLEAN, sync : Peers \cup {"nil"}, members : 0..MaxChanges]
Tally == [changes : 0..MaxChanges, errors : 0..MaxErrors, exits : Nat, stalls : Nat]

(* A goroutine that is going to enable writes waits for the downstream of  *)
(* the configuration, unless the process is about to be stopped.           *)
Awaited(p) ==
  /\ p.wait # Db!NoWait => p.wait.inst \in Peers
  /\ p.wait.writes => /\ p.config.role \in {"none", "primary"}
                      /\ p.config.role = "primary" => p.wait.inst = p.config.down

(* A server that accepts writes replicates to the downstream of the        *)
(* configuration, if that is a primary's.                                  *)
Safe(p, d) ==
  /\ d.mode # "primary" => d.readOnly
  /\ ~d.readOnly => d.sync # "nil" /\ (p.config.role = "primary" => d.sync = p.config.down)

Good(p, d) ==
  /\ p \in Process /\ d \in Server /\ Awaited(p) /\ Safe(p, d)
  /\ ~p.running => p.wait = Db!NoWait /\ d = Db!Off

(* What runs has a role, until it is stopped. *)
Driven ==
  /\ peer.pc = "idle" /\ proc.running => peer.online /\ proc.config.role # "none"
  /\ peer.pc = "start" => ~proc.running /\ proc.config.role # "none" /\ peer.config.role # "none"

ProcessInv ==
  /\ peer \in Peer /\ Good(proc, db) /\ Driven /\ tally \in Tally
-----------------------------------------------------------------------------
LEMMA ServerTypes ==
  ASSUME Replicated
  PROVE  /\ Db!Nil \in Sane /\ Db!NoWait \in Wait /\ ~Db!NoWait.writes
         /\ Db!Off \in Server /\ Db!Off.mode = "off" /\ Db!Off.readOnly
BY DEF Replicated, Db!Nil, Db!NoWait, Db!Off, Sane, Db!Config, Db!Roles, Wait, Server

LEMMA SaneFacts ==
  ASSUME Replicated, NEW c \in Sane
  PROVE  /\ c.role \in {"none", "async", "sync", "primary"} /\ c.down \in Peers \cup {"nil"}
         /\ c.role = "primary" => c.down \in Peers /\ c.up = "nil"
         /\ c.role \in {"async", "sync"} => c.up # "nil"
         /\ c.state \in 0..MaxChanges
BY DEF Replicated, Sane, Db!Config, Db!Roles

(* What the helpers of Process change. *)
LEMMA Waits ==
  ASSUME NEW p \in Process, NEW inst \in Peers, NEW writes \in BOOLEAN
  PROVE  /\ Db!waitForSync(p, inst, writes) \in Process
         /\ Db!waitForSync(p, inst, writes).running = p.running
         /\ Db!waitForSync(p, inst, writes).config = p.config
         /\ Db!waitForSync(p, inst, writes).wait.inst = inst
         /\ Db!waitForSync(p, inst, writes).wait.writes <=> writes
<1> DEFINE w == [inst |-> inst, writes |-> writes]
<1>1. w \in Wait /\ w.inst = inst /\ (w.writes <=> writes)
  BY DEF Wait
<1>2. Db!waitForSync(p, inst, writes) = [p EXCEPT !.wait = w]
  BY DEF Db!waitForSync
<1> HIDE DEF w
<1>3. [p EXCEPT !.wait = w] \in Process
  BY <1>1 DEF Process
<1>4. [p EXCEPT !.wait = w].wait = w /\ [p EXCEPT !.wait = w].config = p.config
  BY DEF Process
<1>5. [p EXCEPT !.wait = w].running = p.running
  BY DEF Process
<1> QED BY <1>1, <1>2, <1>3, <1>4, <1>5

LEMMA Cancels ==
  ASSUME Replicated, proc \in Process
  PROVE  /\ Db!cancelSyncWait(proc) \in Process /\ Db!cancelSyncWait(proc).wait = Db!NoWait
         /\ Db!cancelSyncWait(proc).running = proc.running
         /\ Db!cancelSyncWait(proc).config = proc.config
<1>1. [proc EXCEPT !.wait = Db!NoWait, !.synced = "nil", !.gaveUp = FALSE] \in Process
  BY ServerTypes DEF Process
<1>2. /\ [proc EXCEPT !.wait = Db!NoWait, !.synced = "nil", !.gaveUp = FALSE].wait = Db!NoWait
      /\ [proc EXCEPT !.wait = Db!NoWait, !.synced = "nil", !.gaveUp = FALSE].config = proc.config
  BY DEF Process
<1>3. [proc EXCEPT !.wait = Db!NoWait, !.synced = "nil", !.gaveUp = FALSE].running = proc.running
  BY DEF Process
<1> QED BY <1>1, <1>2, <1>3 DEF Db!cancelSyncWait

LEMMA Starts ==
  ASSUME NEW p \in Process
  PROVE  /\ Db!start(p) \in Process /\ Db!start(p).running /\ Db!start(p).wait = p.wait
         /\ Db!start(p).config = p.config
<1>1. [p EXCEPT !.running = TRUE, !.exited = FALSE] \in Process
  BY DEF Process
<1>2. [p EXCEPT !.running = TRUE, !.exited = FALSE].wait = p.wait /\ [p EXCEPT !.running = TRUE, !.exited = FALSE].config = p.config
  BY DEF Process
<1>3. [p EXCEPT !.running = TRUE, !.exited = FALSE].running
  BY DEF Process
<1> QED BY <1>1, <1>2, <1>3 DEF Db!start

LEMMA Stops ==
  ASSUME Replicated, NEW p \in Process
  PROVE  /\ Db!stop(p) \in Process /\ ~Db!stop(p).running /\ Db!stop(p).wait = Db!NoWait
         /\ Db!stop(p).config = p.config
<1>1. [p EXCEPT !.running = FALSE, !.wait = Db!NoWait] \in Process
  BY ServerTypes DEF Process
<1>2. /\ [p EXCEPT !.running = FALSE, !.wait = Db!NoWait].wait = Db!NoWait
      /\ [p EXCEPT !.running = FALSE, !.wait = Db!NoWait].config = p.config
  BY DEF Process
<1>3. ~[p EXCEPT !.running = FALSE, !.wait = Db!NoWait].running
  BY DEF Process
<1> QED BY <1>1, <1>2, <1>3 DEF Db!stop

(* A stopped process is a good one. *)
LEMMA StoppedGood ==
  ASSUME Replicated, NEW p \in Process, ~p.running, p.wait = Db!NoWait
  PROVE  Good(p, Db!Off)
BY ServerTypes DEF Good, Awaited, Safe

-----------------------------------------------------------------------------
(* The outcomes of a change to c: a process that runs with c, or the one   *)
(* there was before, without a goroutine that enables writes.              *)
After(o, c) ==
  /\ o.res \in {"ok", "err", "panic"} /\ Good(o.proc, o.db)
  /\ o.res = "ok" => o.proc.running /\ o.proc.config = c
  /\ o.res = "err" => o.proc.config = proc.config /\ (o.proc.running => proc.running)
  /\ o.res = "panic" => o.proc = proc /\ o.db = db

LEMMA AppliedOk ==
  ASSUME Replicated, NEW c \in Sane, NEW p \in Process, NEW d \in Server, p.running,
         p.wait # Db!NoWait => p.wait.inst \in Peers,
         p.wait.writes => c.role \in {"none", "primary"} /\ (c.role = "primary" => p.wait.inst = c.down),
         d.mode # "primary" => d.readOnly,
         ~d.readOnly => d.sync # "nil" /\ (c.role = "primary" => d.sync = c.down)
  PROVE  After(Db!Applied(Db!Ok(p, d), c), c)
<1> DEFINE q == [p EXCEPT !.config = c, !.configApplied = TRUE]
           o == [res |-> "ok", proc |-> p, db |-> d]
<1>1. q \in Process
  BY DEF Process
<1>2. q.config = c /\ q.wait = p.wait
  BY DEF Process
<1>3. q.running = p.running
  BY DEF Process
<1>4. Db!Applied(Db!Ok(p, d), c) = [o EXCEPT !.proc = q]
  BY DEF Db!Applied, Db!Ok
<1>5. [o EXCEPT !.proc = q].res = "ok" /\ [o EXCEPT !.proc = q].proc = q /\ [o EXCEPT !.proc = q].db = d
  OBVIOUS
<1> HIDE DEF q, o
<1>6. Good(q, d)
  BY <1>1, <1>2, <1>3 DEF Good, Awaited, Safe
<1> QED BY <1>2, <1>3, <1>4, <1>5, <1>6 DEF After

LEMMA AppliedErr ==
  ASSUME NEW c, NEW p, NEW d, Good(p, d), p.config = proc.config, p.running => proc.running
  PROVE  After(Db!Applied(Db!Err(p, d), c), c)
<1>1. Db!Applied(Db!Err(p, d), c) = [res |-> "err", proc |-> p, db |-> d]
  BY DEF Db!Applied, Db!Err
<1> QED BY <1>1 DEF After

LEMMA AppliedPanic ==
  ASSUME NEW c, Good(proc, db)
  PROVE  After(Db!Applied(Db!Panic, c), c)
<1>1. Db!Applied(Db!Panic, c) = [res |-> "panic", proc |-> proc, db |-> db]
  BY DEF Db!Applied, Db!Panic
<1> QED BY <1>1 DEF After

(* A process that runs and waits for the downstream of c. *)
LEMMA WaitingOk ==
  ASSUME Replicated, NEW c \in Sane, c.down \in Peers, NEW p \in Process, p.running,
         NEW writes \in BOOLEAN, writes => c.role = "primary", NEW d \in Server,
         d.mode # "primary" => d.readOnly,
         ~d.readOnly => d.sync # "nil" /\ (c.role = "primary" => d.sync = c.down)
  PROVE  After(Db!Applied(Db!Ok(Db!waitForSync(p, c.down, writes), d), c), c)
<1> DEFINE q == Db!waitForSync(p, c.down, writes)
<1>0. q \in Process /\ q.running = p.running
  BY Waits
<1>1. q.wait.inst = c.down /\ (q.wait.writes <=> writes)
  BY Waits
<1> HIDE DEF q
<1>2. q.running /\ q.wait.inst \in Peers
  BY <1>0, <1>1
<1>3. q.wait.writes => c.role = "primary" /\ q.wait.inst = c.down
  BY <1>1
<1>4. After(Db!Applied(Db!Ok(q, d), c), c)
  BY <1>0, <1>2, <1>3, AppliedOk
<1> QED BY <1>4 DEF q

(* updateSync makes the server read-only until the new sync has caught up. *)
LEMMA UpdateSyncGood ==
  ASSUME Replicated, NEW p \in Process, Good(p, db), p.running, p.config = proc.config, proc.running,
         NEW c \in Sane, c.role = "primary", NEW o \in Db!updateSync(p, c)
  PROVE  After(Db!Applied(o, c), c)
<1>1. c.down \in Peers /\ db \in Server
  BY SaneFacts DEF Good
<1> DEFINE d == [db EXCEPT !.readOnly = TRUE, !.sync = c.down]
<1>2. d \in Server
  BY <1>1 DEF Server
<1>3. d.readOnly
  BY <1>1 DEF Server
<1>4. o = Db!Ok(Db!waitForSync(p, c.down, TRUE), d) \/ o = Db!Err(p, db)
  BY DEF Db!updateSync
<1> HIDE DEF d
<1>5. After(Db!Applied(Db!Ok(Db!waitForSync(p, c.down, TRUE), d), c), c)
  BY <1>1, <1>2, <1>3, WaitingOk
<1>6. After(Db!Applied(Db!Err(p, db), c), c)
  BY AppliedErr
<1> QED BY <1>4, <1>5, <1>6

(* A standby that is promoted stays read-only. *)
LEMMA PromoteGood ==
  ASSUME Replicated, NEW p \in Process, Good(p, db), p.running, p.config = proc.config, proc.running,
         p.config.role = "sync", NEW c \in Sane, c.role = "primary", NEW o \in Db!promote(p, c)
  PROVE  After(Db!Applied(o, c), c)
<1>1. c.down \in Peers /\ db \in Server
  BY SaneFacts DEF Good
<1> DEFINE d == [db EXCEPT !.mode = "primary"]
<1>2. d \in Server
  BY <1>1 DEF Server
<1>3. d.mode = "primary" /\ d.sync = db.sync
  BY <1>1 DEF Server
<1>4. d.readOnly = db.readOnly
  BY <1>1 DEF Server
<1>5. \/ db.mode # "primary" /\ o = Db!Ok(Db!waitForSync(p, c.down, TRUE), d)
      \/ o = Db!Err(p, db)
      \/ o = Db!Err(p, d)
  BY DEF Db!promote
<1> HIDE DEF d
<1>6. ASSUME db.mode # "primary" PROVE After(Db!Applied(Db!Ok(Db!waitForSync(p, c.down, TRUE), d), c), c)
  <2>1. d.readOnly
    BY <1>4, <1>6 DEF Good, Safe
  <2> QED BY <1>1, <1>2, <2>1, WaitingOk
<1>7. After(Db!Applied(Db!Err(p, db), c), c)
  BY AppliedErr
<1>8. After(Db!Applied(Db!Err(p, d), c), c)
  <2>1. Good(p, d)
    BY <1>2, <1>3, <1>4 DEF Good, Safe
  <2> QED BY <2>1, AppliedErr
<1> QED BY <1>5, <1>6, <1>7, <1>8

(* A primary that starts is read-only, for it has a downstream. *)
LEMMA StartPrimaryGood ==
  ASSUME Replicated, NEW p \in Process, Good(p, db), ~p.running, p.config = proc.config,
         NEW c \in Sane, c.role = "primary", NEW o \in Db!PgPrimary(p, c)
  PROVE  After(Db!Applied(o, c), c)
<1>1. c.down \in Peers /\ c.down # "nil"
  BY SaneFacts DEF Sane
<1> DEFINE d == [Db!Off EXCEPT !.mode = "primary", !.readOnly = c.down # "nil"]
<1>2. d \in Server
  BY ServerTypes DEF Server
<1>3. d.readOnly
  BY <1>1, ServerTypes DEF Server
<1>4. o = Db!Err(p, db) \/ o = Db!Ok(Db!waitForSync(Db!start(p), c.down, TRUE), d)
  BY <1>1 DEF Db!PgPrimary, Db!waitForAny
<1> HIDE DEF d
<1>5. After(Db!Applied(Db!Err(p, db), c), c)
  BY AppliedErr
<1>6. After(Db!Applied(Db!Ok(Db!waitForSync(Db!start(p), c.down, TRUE), d), c), c)
  BY <1>1, <1>2, <1>3, Starts, WaitingOk
<1> QED BY <1>4, <1>5, <1>6

(* A standby that starts is read-only, and waits without enabling writes. *)
LEMMA RestartedGood ==
  ASSUME Replicated, NEW p \in Process, Good(p, db), p.wait = Db!NoWait, p.config = proc.config,
         p.running = proc.running, NEW c \in Sane, NEW o \in Db!Restarted(p, c, FALSE)
  PROVE  After(Db!Applied(o, c), c)
<1> DEFINE d == [Db!Off EXCEPT !.mode = "standby"]
           q == Db!waitForAny(Db!start(p), c.down, FALSE)
<1>1. d \in Server
  BY ServerTypes DEF Server
<1>2. d.readOnly
  BY ServerTypes DEF Server
<1>3. q \in Process /\ q.running /\ (q.wait # Db!NoWait => q.wait.inst \in Peers) /\ ~q.wait.writes
  <2>1. CASE c.down = "nil"
    BY <2>1, Starts, ServerTypes DEF Db!waitForAny
  <2>2. CASE c.down # "nil"
    <3>1. c.down \in Peers /\ q = Db!waitForSync(Db!start(p), c.down, FALSE)
      BY <2>2, SaneFacts DEF Db!waitForAny
    <3> HIDE DEF q
    <3>2. Db!start(p) \in Process /\ Db!start(p).running
      BY Starts
    <3>3. q \in Process /\ q.running = Db!start(p).running /\ q.wait.inst = c.down /\ ~q.wait.writes
      BY <3>1, <3>2, Waits
    <3> QED BY <3>1, <3>2, <3>3
  <2> QED BY <2>1, <2>2
<1>4. \/ o = Db!Ok(q, d)
      \/ o = Db!Err(Db!stop(p), Db!Off)
      \/ o = Db!Err(p, db)
  BY DEF Db!Restarted
<1> HIDE DEF d, q
<1>5. After(Db!Applied(Db!Ok(q, d), c), c)
  BY <1>1, <1>2, <1>3, AppliedOk
<1>6. After(Db!Applied(Db!Err(Db!stop(p), Db!Off), c), c)
  <2>1. Good(Db!stop(p), Db!Off)
    BY Stops, StoppedGood
  <2> QED BY <2>1, Stops, AppliedErr
<1>7. After(Db!Applied(Db!Err(p, db), c), c)
  BY AppliedErr
<1> QED BY <1>4, <1>5, <1>6, <1>7

LEMMA ChangedGood ==
  ASSUME Replicated, Good(proc, db), NEW c \in Sane, c.role # "none",
         proc.running => proc.config.role # "none", NEW o \in Db!Changed(c)
  PROVE  After(Db!Applied(o, c), c)
<1> DEFINE p == Db!cancelSyncWait(proc)
<1>1. p \in Process /\ p.wait = Db!NoWait /\ p.running = proc.running /\ p.config = proc.config
  BY Cancels DEF Good
<1>2. o \in Db!PgReconfigure(p, c)
  BY DEF Db!Changed, Replicated
<1> HIDE DEF p
<1>3. Good(p, db)
  BY <1>1, ServerTypes DEF Good, Awaited, Safe
<1>4. p.config \in Sane
  BY <1>1 DEF Process
<1>5. CASE p.running /\ p.config.role = "primary" /\ c.role = "primary"
  BY <1>1, <1>2, <1>3, <1>5, UpdateSyncGood DEF Db!PgReconfigure
<1>6. CASE p.running /\ Db!IsNewDownstream(p.config, c) /\ ~(p.config.role = "primary" /\ c.role = "primary")
  <2>1. o = Db!Ok(Db!waitForSync(p, c.down, FALSE), db)
    BY <1>2, <1>6 DEF Db!PgReconfigure
  <2>2. c.down \in Peers /\ c.up = p.config.up
    BY <1>6, SaneFacts DEF Db!IsNewDownstream
  <2>3. c.role # "primary"
    BY <1>1, <1>4, <1>6, <2>2, SaneFacts
  <2> QED BY <1>1, <1>3, <1>6, <2>1, <2>2, <2>3, WaitingOk DEF Good, Safe
<1>7. CASE ~p.running /\ c.role = "primary"
  <2>1. o \in Db!PgPrimary(p, c)
    BY <1>2, <1>7 DEF Db!PgReconfigure
  <2> QED BY <1>1, <1>3, <1>7, <2>1, StartPrimaryGood
<1>8. CASE p.running /\ c.role = "primary" /\ p.config.role # "primary" /\ ~Db!IsNewDownstream(p.config, c)
  <2>1. (p.config.role = "sync" /\ o \in Db!promote(p, c)) \/ o = Db!Panic
    BY <1>2, <1>8 DEF Db!PgReconfigure, Db!PgPrimary
  <2> QED BY <1>1, <1>3, <1>8, <2>1, PromoteGood, AppliedPanic
<1>9. CASE c.role # "primary" /\ ~(p.running /\ Db!IsNewDownstream(p.config, c))
  <2>1. o \in Db!Restarted(p, c, FALSE)
    BY <1>2, <1>9 DEF Db!PgReconfigure
  <2> QED BY <1>1, <1>3, <2>1, RestartedGood
<1> QED BY <1>5, <1>6, <1>7, <1>8, <1>9

(* What a call of the peer's loop leaves behind. *)
Outcome(o) == o.res \in {"ok", "err", "panic"} /\ Good(o.proc, o.db)

LEMMA ReconfigureGood ==
  ASSUME Replicated, Good(proc, db), proc.running => proc.config.role # "none",
         NEW c \in Sane, NEW o \in Db!Reconfigure(c)
  PROVE  /\ Outcome(o)
         /\ o.res = "ok" => (o.proc.running <=> proc.running) /\ o.proc.config = c
         /\ o.res = "err" => o.proc.config = proc.config /\ (o.proc.running => proc.running)
<1>1. CASE ~proc.running
  <2> DEFINE q == [proc EXCEPT !.config = c, !.configApplied = FALSE]
  <2>1. proc \in Process /\ proc.wait = Db!NoWait /\ db = Db!Off
    BY <1>1 DEF Good
  <2>2. q \in Process
    BY <2>1 DEF Process
  <2>3. q.config = c /\ q.wait = proc.wait
    BY <2>1 DEF Process
  <2>4. q.running = proc.running
    BY <2>1 DEF Process
  <2>5. o = [res |-> "ok", proc |-> q, db |-> db]
    BY <1>1 DEF Db!Reconfigure, Db!Ok
  <2> HIDE DEF q
  <2>6. ~q.running
    BY <1>1, <2>4
  <2>7. Good(q, db)
    BY <2>1, <2>2, <2>3, <2>6, StoppedGood
  <2> QED BY <1>1, <2>3, <2>5, <2>6, <2>7 DEF Outcome
<1>2. CASE proc.running
  <2>1. PICK r : /\ o = Db!Applied(r, c)
                 /\ r \in IF c.role = "none" \/ Db!AlreadyApplied(c) \/ Db!BecomingSync(c)
                          THEN {Db!Ok(proc, db)} ELSE Db!Changed(c)
    BY <1>2 DEF Db!Reconfigure, Db!reconfigure
  <2>2. CASE c.role = "none" \/ Db!AlreadyApplied(c) \/ Db!BecomingSync(c)
    <3>1. /\ proc \in Process /\ db \in Server /\ (db.mode # "primary" => db.readOnly)
          /\ proc.wait # Db!NoWait => proc.wait.inst \in Peers
      BY DEF Good, Awaited, Safe
    <3>2. proc.wait.writes =>
            c.role \in {"none", "primary"} /\ (c.role = "primary" => proc.wait.inst = c.down)
      BY <2>2 DEF Good, Awaited, Db!AlreadyApplied, Db!BecomingSync, Db!Equal
    <3>3. ~db.readOnly => db.sync # "nil" /\ (c.role = "primary" => db.sync = c.down)
      BY <2>2 DEF Good, Safe, Db!AlreadyApplied, Db!BecomingSync, Db!Equal
    <3>4. After(Db!Applied(Db!Ok(proc, db), c), c)
      BY <1>2, <3>1, <3>2, <3>3, AppliedOk
    <3> QED BY <1>2, <2>1, <2>2, <3>4 DEF After, Outcome
  <2>3. CASE ~(c.role = "none" \/ Db!AlreadyApplied(c) \/ Db!BecomingSync(c))
    BY <1>2, <2>1, <2>3, ChangedGood DEF After, Outcome
  <2> QED BY <2>2, <2>3
<1> QED BY <1>1, <1>2

(* The peer after a command. *)
LEMMA DoneFacts ==
  ASSUME peer \in Peer, NEW c \in Sane
  PROVE  /\ Db!Done(peer, c) \in Peer /\ Db!Done(peer, c).pc = "idle"
         /\ Db!Done(peer, c).online <=> c.role # "none"
<1> DEFINE q == [peer EXCEPT !.applied = c, !.online = c.role # "none", !.pc = "idle"]
<1>1. q \in Peer
  BY DEF Peer
<1>2. q.pc = "idle"
  BY DEF Peer
<1>3. q.online <=> c.role # "none"
  BY DEF Peer
<1> QED BY <1>1, <1>2, <1>3 DEF Db!Done

LEMMA PcFacts ==
  ASSUME peer \in Peer, NEW pc \in {"idle", "panic"}
  PROVE  /\ [peer EXCEPT !.pc = pc] \in Peer /\ [peer EXCEPT !.pc = pc].pc = pc
         /\ [peer EXCEPT !.pc = pc].online <=> peer.online
<1>1. [peer EXCEPT !.pc = pc] \in Peer
  BY DEF Peer
<1>2. [peer EXCEPT !.pc = pc].pc = pc
  BY DEF Peer
<1>3. [peer EXCEPT !.pc = pc].online <=> peer.online
  BY DEF Peer
<1> QED BY <1>1, <1>2, <1>3

LEMMA TallyFacts ==
  ASSUME Replicated, tally \in Tally
  PROVE  /\ tally.changes < MaxChanges => [tally EXCEPT !.changes = @ + 1] \in Tally
         /\ tally.errors < MaxErrors => [tally EXCEPT !.errors = @ + 1] \in Tally
         /\ [tally EXCEPT !.exits = @ + 1] \in Tally
         /\ [tally EXCEPT !.stalls = @ + 1] \in Tally
BY DEF Tally, Replicated

(* A command: what its three kinds of outcome do to the peer. *)
LEMMA CommandStep ==
  ASSUME Replicated, ProcessInv, NEW outcomes, NEW next \in Peer, Db!Command(outcomes, next),
         \A o \in outcomes : Outcome(o)
  PROVE  \E o \in outcomes :
           /\ proc' = o.proc /\ db' = o.db /\ Good(proc, db)' /\ tally' \in Tally
           /\ \/ o.res = "ok" /\ peer' = next
              \/ o.res = "err" /\ peer' = [peer EXCEPT !.pc = "idle"]
              \/ o.res = "panic" /\ peer' = [peer EXCEPT !.pc = "panic"]
<1>1. PICK o \in outcomes :
        /\ proc' = o.proc /\ db' = o.db
        /\ \/ o.res = "ok" /\ peer' = next /\ UNCHANGED tally
           \/ /\ o.res = "err" /\ tally.errors < MaxErrors
              /\ tally' = [tally EXCEPT !.errors = @ + 1]
              /\ peer' = [peer EXCEPT !.pc = "idle"]
           \/ o.res = "panic" /\ peer' = [peer EXCEPT !.pc = "panic"] /\ UNCHANGED tally
  BY DEF Db!Command
<1>2. Good(proc', db')
  BY <1>1 DEF Outcome
<1>3. Good(proc, db)'
  BY <1>2 DEF Good, Awaited, Safe
<1>4. tally' \in Tally
  BY <1>1, TallyFacts DEF ProcessInv
<1> QED BY <1>1, <1>3, <1>4

LEMMA ProcessInit == ASSUME Replicated, Db!Init PROVE ProcessInv
<1>1. peer \in Peer /\ peer.pc = "idle"
  BY ServerTypes DEF Db!Init, Db!NewPeer, Peer
<1>2. proc \in Process /\ ~proc.running /\ proc.wait = Db!NoWait
  BY ServerTypes DEF Db!Init, Db!NewProcess, Process
<1>3. Good(proc, db)
  BY <1>2, StoppedGood DEF Db!Init
<1>4. tally \in Tally
  BY DEF Db!Init, Tally, Replicated
<1> QED BY <1>1, <1>2, <1>3, <1>4 DEF ProcessInv, Driven

LEMMA ProcessDecide == ASSUME Replicated, ProcessInv, Db!Decide PROVE ProcessInv'
<1>1. /\ tally.changes < MaxChanges /\ tally' = [tally EXCEPT !.changes = @ + 1]
      /\ UNCHANGED <<proc, db>>
  BY DEF Db!Decide
<1>a. PICK role \in Db!NextRoles(peer.want.role) :
        \E c \in Db!Configs(role, tally.changes + 1) : peer' = [peer EXCEPT !.want = c]
  BY DEF Db!Decide
<1>2. PICK c \in Db!Configs(role, tally.changes + 1) : peer' = [peer EXCEPT !.want = c]
  BY <1>a
<1>3. peer.want \in Sane /\ peer.want.role \in Db!Roles
  BY SaneFacts DEF ProcessInv, Peer, Db!Roles
<1>4. role \in Db!Roles
  BY <1>2, <1>3 DEF Db!NextRoles, Db!Roles
<1>5. tally.changes + 1 \in 0..MaxChanges
  BY <1>1 DEF ProcessInv, Tally, Replicated
<1>6. c \in Db!Config /\ c.role = role
  BY <1>2, <1>4, <1>5 DEF Db!Configs, Db!Config
<1>7. (c.role \in {"async", "sync"} <=> c.up # "nil") /\ (c.role = "primary" => c.down # "nil")
  BY <1>2, <1>6 DEF Db!Configs, Replicated
<1>8. c \in Sane
  BY <1>6, <1>7 DEF Sane
<1>9. peer' \in Peer
  BY <1>2, <1>8 DEF ProcessInv, Peer
<1>10. peer'.pc = peer.pc /\ peer'.config = peer.config
  BY <1>2 DEF ProcessInv, Peer
<1>11. peer'.online <=> peer.online
  BY <1>2 DEF ProcessInv, Peer
<1>12. Good(proc, db)' /\ Driven'
  BY <1>1, <1>10, <1>11 DEF ProcessInv, Good, Awaited, Safe, Driven
<1> QED BY <1>1, <1>9, <1>12, TallyFacts DEF ProcessInv

LEMMA ProcessConfig == ASSUME Replicated, ProcessInv, Db!applyConfig PROVE ProcessInv'
<1> DEFINE c == peer.want
           later == [peer EXCEPT !.pc = IF peer.online THEN "stop" ELSE "start", !.config = c]
           next == IF (c.role # "none") = peer.online THEN Db!Done(peer, c) ELSE later
<1>1. peer.pc = "idle" /\ Db!Command(Db!Reconfigure(c), next)
  BY DEF Db!applyConfig
<1>2. /\ peer \in Peer /\ c \in Sane /\ peer.online \in BOOLEAN /\ Good(proc, db)
      /\ proc.running => peer.online /\ proc.config.role # "none"
  BY <1>1 DEF ProcessInv, Peer, Driven
<1>3. later \in Peer /\ later.config = c /\ (later.online <=> peer.online)
      /\ later.pc = IF peer.online THEN "stop" ELSE "start"
  <2> DEFINE pc == IF peer.online THEN "stop" ELSE "start"
  <2>1. pc \in {"idle", "start", "stop", "panic"} /\ later = [peer EXCEPT !.pc = pc, !.config = c]
    OBVIOUS
  <2> HIDE DEF pc, later, c
  <2>2. later \in Peer
    BY <1>2, <2>1 DEF Peer
  <2>3. later.config = c /\ later.pc = pc
    BY <1>2, <2>1 DEF Peer
  <2>4. later.online <=> peer.online
    BY <1>2, <2>1 DEF Peer
  <2> QED BY <2>2, <2>3, <2>4 DEF pc
<1>4. next \in Peer
  BY <1>2, <1>3, DoneFacts
<1> HIDE DEF later
<1>5. \A o \in Db!Reconfigure(c) :
        /\ Outcome(o)
        /\ o.res = "ok" => (o.proc.running <=> proc.running) /\ o.proc.config = c
        /\ o.res = "err" => o.proc.config = proc.config /\ (o.proc.running => proc.running)
  BY <1>2, ReconfigureGood
<1>6. PICK o \in Db!Reconfigure(c) :
        /\ proc' = o.proc /\ db' = o.db /\ Good(proc, db)' /\ tally' \in Tally
        /\ \/ o.res = "ok" /\ peer' = next
           \/ o.res = "err" /\ peer' = [peer EXCEPT !.pc = "idle"]
           \/ o.res = "panic" /\ peer' = [peer EXCEPT !.pc = "panic"]
  BY <1>1, <1>4, <1>5, CommandStep
<1>7. CASE o.res = "ok" /\ peer' = next /\ (c.role # "none") = peer.online
  <2>1. peer' = Db!Done(peer, c)
    BY <1>7
  <2>2. peer' \in Peer /\ peer'.pc = "idle" /\ (peer'.online <=> c.role # "none")
    BY <1>2, <2>1, DoneFacts
  <2>3. proc'.running => proc.running /\ proc'.config = c
    BY <1>5, <1>6, <1>7
  <2>4. proc.running => c.role # "none"
    BY <1>2, <1>7
  <2>5. Driven'
    BY <2>2, <2>3, <2>4 DEF Driven
  <2> QED BY <1>6, <2>2, <2>5 DEF ProcessInv
<1>8. CASE o.res = "ok" /\ peer' = next /\ (c.role # "none") # peer.online
  <2>1. peer' = later
    BY <1>8
  <2>2. (proc'.running <=> proc.running) /\ proc'.config = c
    BY <1>5, <1>6, <1>8
  <2>3. CASE peer.online
    BY <1>3, <1>6, <2>1, <2>3 DEF ProcessInv, Driven
  <2>4. CASE ~peer.online
    <3>1. ~proc'.running /\ c.role # "none" /\ proc'.config.role # "none"
      BY <1>2, <1>8, <2>2, <2>4
    <3>2. peer' \in Peer /\ peer'.config.role # "none"
      BY <1>3, <2>1, <3>1
    <3> QED BY <1>6, <3>1, <3>2 DEF ProcessInv, Driven
  <2> QED BY <2>3, <2>4
<1>9. CASE o.res = "err" /\ peer' = [peer EXCEPT !.pc = "idle"]
  <2>1. peer' \in Peer /\ peer'.pc = "idle" /\ (peer'.online <=> peer.online)
    BY <1>2, <1>9, PcFacts
  <2>2. proc'.config = proc.config /\ (proc'.running => proc.running)
    BY <1>5, <1>6, <1>9
  <2>3. Driven'
    BY <1>2, <2>1, <2>2 DEF Driven
  <2> QED BY <1>6, <2>1, <2>3 DEF ProcessInv
<1>10. CASE o.res = "panic" /\ peer' = [peer EXCEPT !.pc = "panic"]
  <2>1. peer' \in Peer /\ peer'.pc = "panic"
    BY <1>2, <1>10, PcFacts
  <2> QED BY <1>6, <2>1 DEF ProcessInv, Driven
<1> QED BY <1>6, <1>7, <1>8, <1>9, <1>10

LEMMA ProcessStart == ASSUME Replicated, ProcessInv, Db!applyStart PROVE ProcessInv'
<1> DEFINE c == peer.config
           next == Db!Done(peer, c)
<1>1. peer.pc = "start" /\ Db!Command(Db!Start, next)
  BY DEF Db!applyStart
<1>2. /\ peer \in Peer /\ c \in Sane /\ c.role # "none" /\ Good(proc, db) /\ ~proc.running
      /\ proc.config \in Sane /\ proc.config.role # "none"
  BY <1>1 DEF ProcessInv, Peer, Driven, Good, Process
<1>3. next \in Peer /\ next.pc = "idle" /\ next.online
  BY <1>2, DoneFacts
<1> HIDE DEF next
<1>4. \A o \in Db!Start : After(o, proc.config)
  BY <1>2, ChangedGood DEF Db!Start, Db!reconfigure
<1>5. PICK o \in Db!Start :
        /\ proc' = o.proc /\ db' = o.db /\ Good(proc, db)' /\ tally' \in Tally
        /\ \/ o.res = "ok" /\ peer' = next
           \/ o.res = "err" /\ peer' = [peer EXCEPT !.pc = "idle"]
           \/ o.res = "panic" /\ peer' = [peer EXCEPT !.pc = "panic"]
  BY <1>1, <1>3, <1>4, CommandStep DEF After, Outcome
<1>6. CASE o.res = "ok" /\ peer' = next
  <2>1. proc'.config = proc.config
    BY <1>4, <1>5, <1>6 DEF After
  <2> QED BY <1>2, <1>3, <1>5, <1>6, <2>1 DEF ProcessInv, Driven
<1>7. CASE o.res = "err" /\ peer' = [peer EXCEPT !.pc = "idle"]
  <2>1. peer' \in Peer /\ peer'.pc = "idle"
    BY <1>2, <1>7, PcFacts
  <2>2. ~proc'.running
    BY <1>2, <1>4, <1>5, <1>7 DEF After
  <2> QED BY <1>5, <2>1, <2>2 DEF ProcessInv, Driven
<1>8. CASE o.res = "panic" /\ peer' = [peer EXCEPT !.pc = "panic"]
  <2>1. peer' \in Peer /\ peer'.pc = "panic"
    BY <1>2, <1>8, PcFacts
  <2> QED BY <1>5, <2>1 DEF ProcessInv, Driven
<1> QED BY <1>5, <1>6, <1>7, <1>8

LEMMA ProcessStop == ASSUME Replicated, ProcessInv, Db!applyStop PROVE ProcessInv'
<1> DEFINE next == Db!Done(peer, peer.config)
           p == IF proc.running THEN Db!stop(proc) ELSE proc
<1>1. Db!Command(Db!Stop, next) /\ peer \in Peer /\ peer.config \in Sane
  BY DEF Db!applyStop, ProcessInv, Peer
<1>2. next \in Peer /\ next.pc = "idle"
  BY <1>1, DoneFacts
<1>3. p \in Process /\ ~p.running /\ p.wait = Db!NoWait
  BY Stops DEF ProcessInv, Good
<1>4. Db!Stop = {[res |-> "ok", proc |-> p, db |-> Db!Off]}
  BY DEF Db!Stop, Db!Ok
<1> HIDE DEF next, p
<1>5. \A o \in Db!Stop : Outcome(o) /\ o.res = "ok" /\ o.proc = p
  BY <1>3, <1>4, StoppedGood DEF Outcome
<1>6. proc' = p /\ Good(proc, db)' /\ tally' \in Tally /\ peer' = next
  BY <1>1, <1>2, <1>5, CommandStep
<1> QED BY <1>2, <1>3, <1>6 DEF ProcessInv, Driven

LEMMA ProcessCaught == ASSUME Replicated, ProcessInv, Db!Caught PROVE ProcessInv'
<1>1. /\ proc.wait # Db!NoWait /\ proc.running /\ UNCHANGED <<peer, tally>>
      /\ proc' = [proc EXCEPT !.wait = Db!NoWait, !.synced = proc.wait.inst]
      /\ db' = IF proc.wait.writes
               THEN [db EXCEPT !.readOnly = FALSE, !.mode = "primary", !.sync = proc.wait.inst]
               ELSE db
  BY DEF Db!Caught, Db!Waiting
<1>2. /\ proc \in Process /\ db \in Server /\ proc.wait.inst \in Peers /\ Safe(proc, db)
      /\ proc.wait.writes /\ proc.config.role = "primary" => proc.wait.inst = proc.config.down
  BY <1>1 DEF ProcessInv, Good, Awaited
<1>3. proc' \in Process
  BY <1>1, <1>2, ServerTypes DEF Process
<1>4. proc'.wait = Db!NoWait /\ proc'.config = proc.config
  BY <1>1, <1>2 DEF Process
<1>5. proc'.running
  BY <1>1, <1>2 DEF Process
<1>6. db' \in Server /\ Safe(proc', db')
  <2>1. CASE proc.wait.writes
    <3> DEFINE d == [db EXCEPT !.readOnly = FALSE, !.mode = "primary", !.sync = proc.wait.inst]
    <3>1. db' = d
      BY <1>1, <2>1
    <3>2. d \in Server
      BY <1>2 DEF Server
    <3>3. d.mode = "primary" /\ d.sync = proc.wait.inst
      BY <1>2 DEF Server
    <3> HIDE DEF d
    <3> QED BY <1>2, <1>4, <2>1, <3>1, <3>2, <3>3 DEF Safe, Replicated
  <2>2. CASE ~proc.wait.writes
    BY <1>1, <1>2, <1>4, <2>2 DEF Safe
  <2> QED BY <2>1, <2>2
<1>7. Good(proc, db)'
  BY <1>3, <1>4, <1>5, <1>6, ServerTypes DEF Good, Awaited, Safe
<1>8. Driven'
  BY <1>1, <1>4, <1>5 DEF ProcessInv, Driven
<1> QED BY <1>1, <1>7, <1>8 DEF ProcessInv

(* A goroutine that ends without enabling writes. *)
LEMMA EndedGood ==
  ASSUME Replicated, ProcessInv, Db!Waiting, NEW synced \in Peers \cup {"nil"},
         proc' = [proc EXCEPT !.wait = Db!NoWait, !.gaveUp = proc.wait.writes, !.synced = synced],
         UNCHANGED <<peer, db>>
  PROVE  Good(proc, db)' /\ Driven'
<1>1. proc \in Process /\ db \in Server /\ Safe(proc, db) /\ proc.running /\ proc.wait.writes \in BOOLEAN
  BY DEF ProcessInv, Good, Db!Waiting, Process, Wait
<1>2. proc' \in Process
  BY <1>1, ServerTypes DEF Process
<1>3. proc'.wait = Db!NoWait /\ proc'.config = proc.config
  BY <1>1 DEF Process
<1>4. proc'.running
  BY <1>1 DEF Process
<1> QED BY <1>1, <1>2, <1>3, <1>4, ServerTypes DEF ProcessInv, Good, Awaited, Safe, Driven

LEMMA ProcessNotEnabled == ASSUME Replicated, ProcessInv, Db!NotEnabled PROVE ProcessInv'
<1>1. /\ Db!Waiting /\ UNCHANGED <<peer, db>> /\ tally.errors < MaxErrors
      /\ proc' = [Db!Ended EXCEPT !.synced = proc.wait.inst]
      /\ tally' = [tally EXCEPT !.errors = @ + 1]
  BY DEF Db!NotEnabled
<1>2. proc.wait.inst \in Peers /\ proc \in Process
  BY <1>1 DEF ProcessInv, Good, Awaited, Db!Waiting
<1>3. proc' = [proc EXCEPT !.wait = Db!NoWait, !.gaveUp = proc.wait.writes, !.synced = proc.wait.inst]
  BY <1>1, <1>2 DEF Db!Ended, Process
<1>4. Good(proc, db)' /\ Driven'
  BY <1>1, <1>2, <1>3, EndedGood
<1> QED BY <1>1, <1>4, TallyFacts DEF ProcessInv

LEMMA ProcessGiveUp == ASSUME Replicated, ProcessInv, Db!GiveUp PROVE ProcessInv'
<1>1. /\ Db!Waiting /\ UNCHANGED <<peer, db>> /\ proc' = Db!Ended
      /\ tally' = [tally EXCEPT !.stalls = @ + 1]
  BY DEF Db!GiveUp
<1>2. proc \in Process /\ proc.synced \in Peers \cup {"nil"}
  BY DEF ProcessInv, Good, Process
<1>3. proc' = [proc EXCEPT !.wait = Db!NoWait, !.gaveUp = proc.wait.writes, !.synced = proc.synced]
  BY <1>1, <1>2 DEF Db!Ended, Process
<1>4. Good(proc, db)' /\ Driven'
  BY <1>1, <1>2, <1>3, EndedGood
<1> QED BY <1>1, <1>4, TallyFacts DEF ProcessInv

LEMMA ProcessExit == ASSUME Replicated, ProcessInv, Db!Exit PROVE ProcessInv'
<1>1. db' = Db!Off /\ tally' = [tally EXCEPT !.exits = @ + 1] /\ proc \in Process /\ peer \in Peer
  BY DEF Db!Exit, ProcessInv, Good
<1>2. CASE proc.wait = Db!NoWait
  <2>1. proc' = [proc EXCEPT !.running = FALSE, !.exited = TRUE] /\ UNCHANGED peer
    BY <1>2 DEF Db!Exit, Replicated
  <2>2. proc' \in Process
    BY <1>1, <2>1 DEF Process
  <2>3. proc'.wait = proc.wait /\ proc'.config = proc.config
    BY <1>1, <2>1 DEF Process
  <2>4. ~proc'.running
    BY <1>1, <2>1 DEF Process
  <2>5. Good(proc', Db!Off)
    BY <1>2, <2>2, <2>3, <2>4, StoppedGood
  <2>6. Good(proc, db)' /\ Driven'
    BY <1>1, <2>1, <2>3, <2>4, <2>5 DEF ProcessInv, Good, Awaited, Safe, Driven
  <2> QED BY <1>1, <2>1, <2>6, TallyFacts DEF ProcessInv
<1>3. CASE proc.wait # Db!NoWait
  <2>1. peer' = [peer EXCEPT !.pc = "panic"] /\ UNCHANGED proc /\ proc.running
    BY <1>3 DEF Db!Exit, Replicated
  <2>2. peer' \in Peer
    BY <1>1, <2>1 DEF Peer
  <2>3. peer'.pc = "panic"
    BY <1>1, <2>1 DEF Peer
  <2>4. Good(proc, db)' /\ Driven'
    BY <1>1, <2>1, <2>3, ServerTypes DEF ProcessInv, Good, Awaited, Safe, Driven
  <2> QED BY <1>1, <2>2, <2>4, TallyFacts DEF ProcessInv
<1> QED BY <1>2, <1>3

LEMMA ProcessRestart == ASSUME Replicated, ProcessInv, Db!Restart PROVE ProcessInv'
<1>1. peer.want \in Sane /\ UNCHANGED tally /\ db' = Db!Off
  BY DEF Db!Restart, ProcessInv, Peer
<1>2. peer' \in Peer /\ peer'.pc = "idle"
  BY <1>1, ServerTypes DEF Db!Restart, Db!NewPeer, Peer
<1>3. proc' \in Process /\ ~proc'.running /\ proc'.wait = Db!NoWait
  BY ServerTypes DEF Db!Restart, Db!NewProcess, Process
<1>4. Good(proc', Db!Off)
  BY <1>3, StoppedGood
<1>5. Good(proc, db)' /\ Driven'
  BY <1>1, <1>2, <1>3, <1>4 DEF Good, Awaited, Safe, Driven
<1> QED BY <1>1, <1>2, <1>5 DEF ProcessInv

LEMMA ProcessNext == ASSUME Replicated, ProcessInv, [Db!Next]_Db!vars PROVE ProcessInv'
<1>1. CASE UNCHANGED Db!vars
  BY <1>1 DEF Db!vars, ProcessInv, Good, Awaited, Safe, Driven
<1>2. CASE Db!Next
  BY <1>2, ProcessDecide, ProcessConfig, ProcessStart, ProcessStop, ProcessCaught, ProcessNotEnabled, ProcessGiveUp,
     ProcessExit, ProcessRestart DEF Db!Next
<1> QED BY <1>1, <1>2

(* Types of the peer, the process and the server. *)
THEOREM ProcessTypes == ASSUME Replicated PROVE Db!Spec => []Db!TypeOK
<1>1. Db!Init => ProcessInv
  BY ProcessInit
<1>2. ProcessInv /\ [Db!Next]_Db!vars => ProcessInv'
  BY ProcessNext
<1>3. ProcessInv => Db!TypeOK
  BY DEF ProcessInv, Peer, Good, Process, Server, Awaited, Sane, Tally, Db!TypeOK, Replicated
<1> QED BY <1>1, <1>2, <1>3, PTL DEF Db!Spec

(* A PostgreSQL primary with a downstream accepts writes only while every  *)
(* commit waits for the downstream of its configuration: no goroutine of   *)
(* an earlier waitForSync enables them, and no reconfiguration leaves them *)
(* enabled when the sync changes, whatever fails, exits or is restarted.   *)
THEOREM WritesAreSafe == ASSUME Replicated PROVE Db!Spec => []SafeWrites
<1>1. Db!Init => ProcessInv
  BY ProcessInit
<1>2. ProcessInv /\ [Db!Next]_Db!vars => ProcessInv'
  BY ProcessNext
<1>3. ProcessInv => Db!SafeWrites
  BY DEF ProcessInv, Good, Safe, Db!SafeWrites
<1>4. Db!TypeOK /\ Db!SafeWrites => SafeWrites
  BY DEF SafeWrites
<1> QED BY <1>1, <1>2, <1>3, <1>4, ProcessTypes, PTL DEF Db!Spec

=============================================================================
