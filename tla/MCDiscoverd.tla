----------------------------- MODULE MCDiscoverd -----------------------------
(***************************************************************************)
(* discoverd's servers for TLC: the store and watches of it, each on its   *)
(* own.  Instances of one component differ in their bounds only.           *)
(***************************************************************************)
EXTENDS Discoverd, TLC

CONSTANTS i1, i2
Symmetric == Permutations(Ids)

(* A service without instances: its metadata is all that changes, also     *)
(* while it is removed and added again and its leader is set by hand.      *)
Metadata == INSTANCE DiscoverdStore WITH Removals <- TRUE, MaxRestarts <- 1
ByHand == INSTANCE DiscoverdStore WITH
  Configs <- {"oldest", "manual"}, Removals <- TRUE, LeaderWrites <- TRUE,
  MaxLog <- 3, MaxRequests <- 1
NoInstances == \A c \in requests : c.type \notin {"addInstance", "removeInstance"}

CONSTANT Parts  \* the components and scenarios a run is about
VARIABLE part   \* the one that moves

Again == INSTANCE DiscoverdWatch WITH
  MaxLog <- 2, MaxGiveUps <- 1, MaxSnapshots <- 1, hist <- wHist,
  server <- wServer, sub <- wSub, watch <- wWatch, out <- wOut,
  adapter <- wAdapter, faults <- wFaults

-----------------------------------------------------------------------------
(* A component moves, and the others stay where they began. *)
MCInit ==
  /\ part \in Parts
  /\ Init
  /\ Watch!Init
  /\ part \notin {"oldest", "metadata", "by_hand"} => leader = "s1"

MCNext ==
  /\ UNCHANGED part
  /\ \/ part = "oldest" /\ Next /\ UNCHANGED <<watchVars>>
     \/ part = "metadata" /\ Metadata!Next /\ NoInstances' /\ UNCHANGED <<watchVars>>
     \/ part = "by_hand" /\ ByHand!Next /\ NoInstances' /\ UNCHANGED <<watchVars>>
     \/ part = "watch" /\ Watch!Next /\ UNCHANGED <<vars>>
     \/ part = "watch_replaced" /\ Again!Next /\ UNCHANGED <<vars>>

MCSpec == MCInit /\ [][MCNext]_<<part, vars, watchVars>>
=============================================================================
