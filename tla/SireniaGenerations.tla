------------------------- MODULE SireniaGenerations -------------------------
(***************************************************************************)
(* What the cluster state of a Sirenia cluster promises, without peers,    *)
(* events or faults: a chain of generations.  Within a generation the      *)
(* primary, the sync and the log position at which the generation began    *)
(* are fixed; a new generation of a cluster in normal mode is declared     *)
(* only by the primary or by the sync of the one before, and never begins  *)
(* at an earlier log position.                                             *)
(***************************************************************************)
EXTENDS Naturals

CONSTANTS Peers, WALs

VARIABLE cluster   \* the generation in force

Initial == [gen |-> 0, primary |-> "none", sync |-> "none",
            initWAL |-> 0, singleton |-> FALSE]

Init == cluster = Initial

Declare(primary, sync, wal, singleton) ==
  cluster' = [gen |-> cluster.gen + 1, primary |-> primary, sync |-> sync,
              initWAL |-> wal, singleton |-> singleton]

(* The first generation. *)
Create(p) ==
  /\ cluster.gen = 0
  /\ \/ Declare(p, "none", 0, TRUE)
     \/ \E q \in Peers : Declare(p, q, 0, FALSE)

(* The sync takes over from the primary, or the primary replaces the sync. *)
Succeed(p) ==
  /\ cluster.gen > 0 /\ ~cluster.singleton
  /\ p \in {cluster.primary, cluster.sync}
  /\ \E q \in Peers, wal \in WALs :
       wal >= cluster.initWAL /\ Declare(p, q, wal, FALSE)

(* A singleton cluster is claimed by another peer, which has no data, *)
(* or its primary converts it to normal mode.                         *)
Claim(p) ==
  /\ cluster.gen > 0 /\ cluster.singleton /\ p # cluster.primary
  /\ Declare(p, "none", 0, TRUE)

Convert ==
  /\ cluster.gen > 0 /\ cluster.singleton
  /\ \E q \in Peers \ {cluster.primary}, wal \in WALs :
       Declare(cluster.primary, q, wal, FALSE)

Next == (\E p \in Peers : Create(p) \/ Succeed(p) \/ Claim(p)) \/ Convert

Spec == Init /\ [][Next]_cluster
=============================================================================
