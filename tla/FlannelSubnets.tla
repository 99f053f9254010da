--------------------------- MODULE FlannelSubnets ---------------------------
(***************************************************************************)
(* Flannel: every host leases a subnet of the overlay in the metadata of a *)
(* discoverd service, which is replaced by compare-and-swap, and routes    *)
(* the subnets of the other hosts as it hears of them.  An event carries   *)
(* the whole metadata, and the registry works out what is new in it.  Left *)
(* out: a command to the kernel that fails, which the backend only logs.   *)
(***************************************************************************)
EXTENDS Integers, Sequences, FiniteSets

CONSTANTS
  Hosts,
  Subnets,      \* from SubnetMin to SubnetMax
  Wanted,       \* the preferred subnet of each host, or none
  None,
  MaxLost,      \* bounds: answers to a write that are lost
  MaxRestarts,  \* restarts of flanneld or its host
  MaxResumes    \* watches that lose their connection

VARIABLES
  log,          \* the leases in the metadata at every index
  sm,           \* the subnet manager of each host and its registry
  routes,       \* the routes of each host's kernel
  count         \* what has happened, for the bounds

vars == <<log, sm, routes, count>>

Index == Len(log)
NoLease == [host |-> None, mac |-> 0]
NoLeases == [s \in Subnets |-> NoLease]

(* NewRegistry watches the service, which sends the current metadata. *)
NewSubnetManager(preferred, mac) ==
  [pc |-> "new", preferred |-> preferred, mac |-> mac, leases |-> NoLeases, lastIndex |-> 0,
   op |-> "none", sn |-> None, net |-> 0, myLease |-> None, next |-> 0, known |-> NoLeases,
   open |-> TRUE, whole |-> TRUE]

Init ==
  /\ log = <<NoLeases>>
  /\ sm = [h \in Hosts |-> NewSubnetManager(Wanted[h], 1)]
  /\ routes = [h \in Hosts |-> NoLeases]
  /\ count = [lost |-> 0, restarts |-> 0, resumes |-> 0]

Attrs(h) == [host |-> h, mac |-> sm[h].mac]
Set(h, r) == sm' = [sm EXCEPT ![h] = r]

NewRegistry(h) ==
  /\ sm[h].pc = "new"
  /\ Set(h, [sm[h] EXCEPT !.pc = "lease", !.next = Index])
  /\ UNCHANGED <<log, routes, count>>

-----------------------------------------------------------------------------
(* The subnets a host may ask for, and how: the one it prefers unless      *)
(* another host has it, the one it has, or any that is free.               *)
Held(leases, h) == {s \in Subnets : leases[s].host = h}
Free(leases) == {s \in Subnets : leases[s] = NoLease}
Preferred(leases, h) ==
  {s \in {sm[h].preferred} \ {None} : leases[s] = NoLease \/ leases[s].host = h}

tryAcquireLease(h) ==
  LET leases == log[Index]
      update == IF Preferred(leases, h) # {} THEN Preferred(leases, h) ELSE Held(leases, h)
  IN /\ sm[h].pc = "lease"
     /\ \E s \in IF update # {} THEN update ELSE Free(leases) :
          Set(h, [sm[h] EXCEPT !.pc = "read", !.leases = leases, !.lastIndex = Index,
                               !.op = IF update # {} THEN "update" ELSE "create", !.sn = s])
     /\ UNCHANGED <<log, routes, count>>

(* UpdateSubnet and CreateSubnet read the network again; only CreateSubnet *)
(* looks whether the subnet is taken.                                      *)
Exists_Never(h) == FALSE
Exists(h) == sm[h].op = "create" /\ log[Index][sm[h].sn] # NoLease

getNetwork(h) ==
  /\ sm[h].pc = "read"
  /\ Set(h, IF Exists(h) THEN [sm[h] EXCEPT !.pc = "lease"]
            ELSE [sm[h] EXCEPT !.pc = "write", !.net = Index])
  /\ UNCHANGED <<log, routes, count>>

applySubnetChange(leases, new, S) == [s \in Subnets |-> IF s \in S THEN new[s] ELSE leases[s]]

(* The backend adds a route for every subnet that it is told of. *)
handleSubnetEvents(h, new, S) ==
  routes' = [routes EXCEPT ![h] = applySubnetChange(@, new, S)]

(* WatchLeases starts with the leases that are known. *)
Leased(h) ==
  /\ Set(h, [sm[h] EXCEPT !.pc = "watch", !.myLease = sm[h].sn])
  /\ handleSubnetEvents(h, sm[h].leases, Subnets \ (Free(sm[h].leases) \cup {sm[h].sn}))

setNetwork(h) ==
  /\ sm[h].pc = "write"
  /\ IF sm[h].net = Index
     THEN /\ log' = Append(log, [log[Index] EXCEPT ![sm[h].sn] = Attrs(h)])
          /\ \/ Leased(h) /\ UNCHANGED count
             \/ /\ count.lost < MaxLost /\ count' = [count EXCEPT !.lost = @ + 1]
                /\ Set(h, [sm[h] EXCEPT !.pc = "lease"]) /\ UNCHANGED routes
     ELSE /\ Set(h, [sm[h] EXCEPT !.pc = "lease"])
          /\ UNCHANGED <<log, routes, count>>

-----------------------------------------------------------------------------
(* WatchSubnets returns what is new in an event unless it is older than    *)
(* the leases, and parseSubnetWatchResponse passes on one of the changes   *)
(* that are not this host's own; "whole" is a history variable: no event   *)
(* had several.  Once the events have been closed it returns an error for  *)
(* ever, which WatchLeases logs.                                           *)
New(h, leases) == {s \in Subnets : leases[s] # NoLease /\ leases[s] # sm[h].known[s]}

Since_Late(h) == sm[h].lastIndex + 2
Since(h) == sm[h].lastIndex + 1

WatchSubnets(h) ==
  LET leases == log[sm[h].next]
      others == New(h, leases) \ {sm[h].myLease}
      seen   == [sm[h] EXCEPT !.next = @ + 1, !.known = leases]
  IN /\ sm[h].pc = "watch" /\ sm[h].open /\ sm[h].next <= Index
     /\ IF sm[h].next < Since(h) THEN Set(h, seen) /\ UNCHANGED routes
        ELSE /\ Set(h, [seen EXCEPT !.lastIndex = sm[h].next,
                                    !.leases = applySubnetChange(@, leases, others),
                                    !.whole = @ /\ Cardinality(others) <= 1])
             /\ \/ others = {} /\ UNCHANGED routes
                \/ \E s \in others : handleSubnetEvents(h, leases, {s})
     /\ UNCHANGED <<log, count>>

(* The watch loses its connection.  It reconnects and gets the current     *)
(* metadata, or gives up and closes the events of the registry.            *)
Resume(h) ==
  /\ sm[h].pc # "new" /\ sm[h].open /\ count.resumes < MaxResumes
  /\ count' = [count EXCEPT !.resumes = @ + 1]
  /\ \/ Set(h, [sm[h] EXCEPT !.next = Index])
     \/ Set(h, [sm[h] EXCEPT !.open = FALSE])
  /\ UNCHANGED <<log, routes>>

(* flanneld is started again and prefers the subnet it had.  When its host *)
(* has been started again the device and the routes are new.               *)
Restart(h) ==
  /\ sm[h].pc = "watch" /\ count.restarts < MaxRestarts
  /\ count' = [count EXCEPT !.restarts = @ + 1]
  /\ \E reboot \in BOOLEAN :
       /\ Set(h, NewSubnetManager(sm[h].myLease, sm[h].mac + IF reboot THEN 1 ELSE 0))
       /\ routes' = IF reboot THEN [routes EXCEPT ![h] = NoLeases] ELSE routes
  /\ UNCHANGED log

Flanneld(h) ==
  NewRegistry(h) \/ tryAcquireLease(h) \/ getNetwork(h) \/ setNetwork(h) \/ WatchSubnets(h)

Next == \E h \in Hosts : Flanneld(h) \/ Resume(h) \/ Restart(h)

Spec == Init /\ [][Next]_vars

(* flanneld goes on, and a write that competes with others succeeds in the *)
(* end, because each host writes until it has its lease.                   *)
Fairness == \A h \in Hosts : WF_vars(Flanneld(h))

-----------------------------------------------------------------------------
(* Managers and routes have their types. *)
TypeOK ==
  \A h \in Hosts : /\ sm[h].pc \in {"new", "lease", "read", "write", "watch"}
                   /\ sm[h].myLease \in Subnets \cup {None}
                   /\ sm[h].lastIndex \in 0..Index /\ sm[h].next \in 0..(Index + 1)

(* Two hosts never use one subnet: what a host believes to be its lease is *)
(* its lease in the metadata.                                              *)
NoSharedSubnet ==
  \A h \in Hosts : sm[h].myLease # None => log[Index][sm[h].myLease].host = h

(* In the end every host has a lease, and a route to the subnet of every   *)
(* other host, as the other host's device is now, unless its watch has     *)
(* given up or has passed on one of several new subnets.                   *)
AllRouted ==
  <>[](\A h \in Hosts : \A g \in Hosts \ {h} :
         /\ sm[g].myLease # None
         /\ sm[h].open /\ sm[h].whole => routes[h][sm[g].myLease] = Attrs(g))
=============================================================================
