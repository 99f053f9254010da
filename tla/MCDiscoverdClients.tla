------------------------- MODULE MCDiscoverdClients --------------------------
(***************************************************************************)
(* discoverd's clients for TLC: the deployment lock, the expiry of         *)
(* instances and a watch, each on its own.  Instances of one component     *)
(* differ in their bounds only.                                            *)
(***************************************************************************)
EXTENDS DiscoverdClients, TLC

(* Jobs that neither start again nor give up. *)
Undisturbed == INSTANCE DiscoverdDeployment WITH MaxRestarts <- 0, Timeouts <- FALSE

CONSTANT Parts  \* the components and scenarios a run is about
VARIABLE part   \* the one that moves


VARIABLES eRegistered, eRequests, eLeader, eServer, eInst, eChanges
restartsVars == <<eRegistered, eRequests, eLeader, eServer, eInst, eChanges>>
Restarting == INSTANCE DiscoverdExpiry WITH
  Ids <- {"i1"}, Restarts <- TRUE, registered <- eRegistered,
  requests <- eRequests, leader <- eLeader, server <- eServer, inst <- eInst,
  changes <- eChanges

VARIABLES wHist, wServer, wSub, wWatch, wOut, wAdapter, wFaults
watchVars == <<wHist, wServer, wSub, wWatch, wOut, wAdapter, wFaults>>
Watch == INSTANCE DiscoverdWatch WITH
  Ids <- {"i1"}, InstMetas <- {"a"}, BufferSize <- 5, MaxDisconnects <- 1,
  MaxLog <- 3, MaxGiveUps <- 0, MaxSnapshots <- 0, hist <- wHist,
  server <- wServer, sub <- wSub, watch <- wWatch, out <- wOut,
  adapter <- wAdapter, faults <- wFaults

-----------------------------------------------------------------------------
(* A component moves, and the others stay where they began. *)
MCInit ==
  /\ part \in Parts
  /\ Init
  /\ Expiry!Init
  /\ Restarting!Init
  /\ Watch!Init

MCNext ==
  /\ UNCHANGED part
  /\ \/ part = "deployment" /\ Next /\ UNCHANGED <<expiryVars, restartsVars, watchVars>>
     \/ part = "deployment_fair" /\ Undisturbed!Next /\ UNCHANGED <<expiryVars, restartsVars, watchVars>>
     \/ part = "expiry" /\ Expiry!Next /\ UNCHANGED <<vars, restartsVars, watchVars>>
     \/ part = "expiry_restarts" /\ Restarting!Next /\ UNCHANGED <<vars, expiryVars, watchVars>>
     \/ part = "watch" /\ Watch!Next /\ UNCHANGED <<vars, expiryVars, restartsVars>>

MCSpec == MCInit /\ [][MCNext]_<<part, vars, expiryVars, restartsVars,
                                 watchVars>>

-----------------------------------------------------------------------------
(* With the fairness of the heartbeaters, raft and EnforceExpiry, an       *)
(* instance that has ended does not stay registered, and one that goes on  *)
(* heartbeating is registered and stays so.                                *)
FollowsLife ==
  part = "expiry_restarts" /\ Restarting!Fairness => Restarting!DeadExpire /\ Restarting!LiveStays

(* A watch whose server stays up hears in the end of every entry of the    *)
(* log.                                                                    *)
CatchesUp == part = "watch" /\ Watch!Fairness => Watch!CatchesUp

(* A deployment whose jobs do not give up ends: whoever waits to perform   *)
(* is woken by the event of the one before; nobody holds a version that    *)
(* does not exist.                                                         *)
DeploymentsEnd ==
  /\ []TypeOK
  /\ part = "deployment_fair" /\ Undisturbed!Fairness => Undisturbed!DeploymentEnds
=============================================================================
