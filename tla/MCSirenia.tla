----------------------------- MODULE MCSirenia -----------------------------
(***************************************************************************)
(* Sirenia for TLC.  The scenarios are instances of the same cluster with  *)
(* their own bounds; the constants of the run are the widest of them.      *)
(***************************************************************************)
EXTENDS Sirenia, TLC

CONSTANTS p1, p2, p3,
          Scenes   \* the scenarios of a run
VARIABLE scene

(* Jobs are restarted, a write or its answer is lost, the watch of a peer  *)
(* is replaced, the log has moved on, jobs come and go in singleton mode.  *)
Restart == INSTANCE Sirenia WITH
  WALs <- {0}, SingletonModes <- {FALSE}, Lingering <- FALSE, MaxInc <- 2,
  MaxIndex <- 4, MaxReg <- 4, MaxFaults <- 1, MaxLosses <- 0, Reconnects <- FALSE
Lost == INSTANCE Sirenia WITH
  WALs <- {0}, SingletonModes <- {FALSE}, Lingering <- FALSE, MaxInc <- 1,
  MaxIndex <- 4, MaxReg <- 2, MaxFaults <- 1, MaxLosses <- 1, Reconnects <- FALSE
Reconnect == INSTANCE Sirenia WITH
  WALs <- {0}, SingletonModes <- {FALSE}, Lingering <- FALSE, MaxInc <- 1,
  MaxIndex <- 3, MaxReg <- 2, MaxFaults <- 1, MaxLosses <- 0, Reconnects <- TRUE
Log == INSTANCE Sirenia WITH
  WALs <- {0, 1}, SingletonModes <- {FALSE}, Lingering <- FALSE, MaxInc <- 2,
  MaxIndex <- 6, MaxReg <- 3, MaxFaults <- 1, MaxLosses <- 0, Reconnects <- FALSE
Singleton == INSTANCE Sirenia WITH
  WALs <- {0}, SingletonModes <- {TRUE, FALSE}, Lingering <- TRUE, MaxInc <- 2,
  MaxIndex <- 3, MaxReg <- 4, MaxFaults <- 1, MaxLosses <- 0, Reconnects <- FALSE
Failover == INSTANCE Sirenia WITH
  WALs <- {0}, SingletonModes <- {FALSE}, Lingering <- FALSE, MaxInc <- 1,
  MaxIndex <- 5, MaxReg <- 2, MaxFaults <- 1, MaxLosses <- 1, Reconnects <- FALSE
Claim == INSTANCE Sirenia WITH
  WALs <- {0}, SingletonModes <- {TRUE}, Lingering <- FALSE, MaxInc <- 1,
  MaxIndex <- 3, MaxReg <- 4, MaxFaults <- 1, MaxLosses <- 1, Reconnects <- FALSE

(* The first jobs have started and registered, in this order, and none has *)
(* received an event yet: a state Init reaches by three StartPeer steps.   *)
Boot == <<p1, p2, p3>>
BootedInit ==
  /\ meta = <<>>
  /\ registry = << [k \in 1..3 |-> [id |-> Boot[k], inc |-> 1]] >> /\ stamp = <<0>>
  /\ peer = [p \in Peers |-> NewPeer("run", 1, FALSE)]
  /\ faults = 0 /\ losses = 0

(* All jobs have just been restarted, in a cluster whose primary replaced  *)
(* its first sync p3 by p2 at log position 1 and took p3 back as an async. *)
Old(p) == [id |-> p, inc |-> 1]
First ==
  [gen |-> 1, freeze |-> FALSE, singleton |-> FALSE, initWAL |-> 0,
   primary |-> Old(p1), sync |-> Old(p3), async |-> <<Old(p2)>>, deposed |-> <<>>]
Second ==
  [First EXCEPT !.gen = 2, !.initWAL = 1, !.sync = Old(p2), !.async = <<>>]
RestartedInit ==
  /\ meta = <<First, Second, [Second EXCEPT !.async = <<Old(p3)>>]>>
  /\ registry = << [k \in 1..3 |-> [id |-> Boot[k], inc |-> 2]] >> /\ stamp = <<3>>
  /\ peer = [p \in Peers |-> NewPeer("run", 2, FALSE)]
  /\ faults = 0 /\ losses = 0

MCInit ==
  /\ scene \in Scenes
  /\ \/ scene \in {"singleton", "claim"} /\ Init
     \/ scene = "log" /\ RestartedInit
     \/ scene \in {"restart", "lost", "reconnect", "failover"} /\ BootedInit

(* The scenarios in singleton mode have two peers, and p1 starts first. *)
Two == peer'[p3] = peer[p3] /\ (peer[p1].inc = 0 => peer'[p2] = peer[p2])

MCNext ==
  /\ UNCHANGED scene
  /\ \/ scene = "restart" /\ Restart!Next
     \/ scene = "lost" /\ Lost!Next
     \/ scene = "reconnect" /\ Reconnect!Next
     \/ scene = "log" /\ Log!Next
     \/ scene = "singleton" /\ Singleton!Next /\ Two
     \/ scene = "failover" /\ Failover!Next
     \/ scene = "claim" /\ Claim!Next /\ Two

MCSpec == MCInit /\ [][MCNext]_<<scene, vars>>

-----------------------------------------------------------------------------
(* Failover completes: the sync retries its takeover until the cluster has *)
(* a primary again, and a peer in singleton mode that could claim an       *)
(* orphaned cluster does so in the end.                                    *)
PrimaryReturns ==
  /\ Failover!Fairness => FailoverCompletes
  /\ Claim!Fairness => ClaimCompletes
=============================================================================
