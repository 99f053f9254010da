----------------------------- MODULE MCServices ------------------------------
(***************************************************************************)
(* The database appliances, the router and flannel for TLC, each on its    *)
(* own.  Instances of one component differ in the kind of database or      *)
(* listener, in the number of hosts and in their bounds.                   *)
(***************************************************************************)
EXTENDS Services, TLC

(* No host prefers a subnet of its own accord. *)
wanted == [h \in Hosts |-> None]

(* A watch that reconnects. *)
Reconnecting == INSTANCE FlannelSubnets WITH MaxRestarts <- 1, MaxResumes <- 1

CONSTANT Parts  \* the components and scenarios a run is about
VARIABLE part   \* the one that moves

PgFaults == INSTANCE Appliance WITH
  Unrepaired <- TRUE, count <- tally

VARIABLES aPeer, aProc, aDb, aCount
processVars == <<aPeer, aProc, aDb, aCount>>
Maria == INSTANCE Appliance WITH
  Kind <- "mariadb", Peers <- {"a", "b"}, Singleton <- FALSE,
  Unrepaired <- FALSE, MaxChanges <- 3, MaxErrors <- 1, MaxExits <- 1,
  MaxStalls <- 1, peer <- aPeer, proc <- aProc, db <- aDb, count <- aCount
Mongo == INSTANCE Appliance WITH
  Kind <- "mongodb", Peers <- {"a", "b"}, Singleton <- FALSE,
  Unrepaired <- FALSE, MaxChanges <- 3, MaxErrors <- 1, MaxExits <- 1,
  MaxStalls <- 1, peer <- aPeer, proc <- aProc, db <- aDb, count <- aCount
Single == INSTANCE Appliance WITH
  Kind <- "mongodb", Peers <- {"a", "b"}, Singleton <- TRUE,
  Unrepaired <- FALSE, MaxChanges <- 3, MaxErrors <- 1, MaxExits <- 1,
  MaxStalls <- 1, peer <- aPeer, proc <- aProc, db <- aDb, count <- aCount

VARIABLES rStore, rOpen, rLog, rSync, rRoutes, rTable, rRefs, rCount
routerVars == <<rStore, rOpen, rLog, rSync, rRoutes, rTable, rRefs, rCount>>
Http == INSTANCE RouterSync WITH
  Kind <- "http", Services <- {"app", "api"}, MaxOpen <- 2, MaxRoutes <- 3,
  MaxUpdates <- 0, MaxBreaks <- 1, MaxResumes <- 0, store <- rStore,
  open <- rOpen, log <- rLog, sync <- rSync, routes <- rRoutes,
  table <- rTable, refs <- rRefs, count <- rCount
Updated == INSTANCE RouterSync WITH
  Kind <- "http", Services <- {"app", "api"}, MaxOpen <- 1, MaxRoutes <- 2,
  MaxUpdates <- 1, MaxBreaks <- 1, MaxResumes <- 0, store <- rStore,
  open <- rOpen, log <- rLog, sync <- rSync, routes <- rRoutes,
  table <- rTable, refs <- rRefs, count <- rCount
Tcp == INSTANCE RouterSync WITH
  Kind <- "tcp", Services <- {"app", "api"}, MaxOpen <- 1, MaxRoutes <- 3,
  MaxUpdates <- 1, MaxBreaks <- 1, MaxResumes <- 0, store <- rStore,
  open <- rOpen, log <- rLog, sync <- rSync, routes <- rRoutes,
  table <- rTable, refs <- rRefs, count <- rCount
Resumed == INSTANCE RouterSync WITH
  Kind <- "http", Services <- {"app", "api"}, MaxOpen <- 1, MaxRoutes <- 2,
  MaxUpdates <- 0, MaxBreaks <- 1, MaxResumes <- 1, store <- rStore,
  open <- rOpen, log <- rLog, sync <- rSync, routes <- rRoutes,
  table <- rTable, refs <- rRefs, count <- rCount

VARIABLES tLog, tSm, tRoutes, tCount
trioVars == <<tLog, tSm, tRoutes, tCount>>
Trio == INSTANCE FlannelSubnets WITH
  Hosts <- {"h1", "h2", "h3"}, Subnets <- {"s1", "s2", "s3"},
  Wanted <- [h \in {"h1", "h2", "h3"} |-> "none"], None <- "none",
  MaxLost <- 0, MaxRestarts <- 0, MaxResumes <- 0, log <- tLog, sm <- tSm,
  routes <- tRoutes, count <- tCount

-----------------------------------------------------------------------------
(* A component moves, and the others stay where they began. *)
MCInit ==
  /\ part \in Parts
  /\ Init
  /\ Db!Init
  /\ Maria!Init
  /\ Http!Init
  /\ Trio!Init

MCNext ==
  /\ UNCHANGED part
  /\ \/ part = "flannel" /\ Next /\ UNCHANGED <<dbVars, processVars, routerVars, trioVars>>
     \/ part = "flannel_resume" /\ Reconnecting!Next /\ UNCHANGED <<dbVars, processVars, routerVars, trioVars>>
     \/ part = "postgres" /\ Db!Next /\ UNCHANGED <<vars, processVars, routerVars, trioVars>>
     \/ part = "postgres_faults" /\ PgFaults!Next /\ UNCHANGED <<vars, processVars, routerVars, trioVars>>
     \/ part = "mariadb" /\ Maria!Next /\ UNCHANGED <<vars, dbVars, routerVars, trioVars>>
     \/ part = "mongodb" /\ Mongo!Next /\ UNCHANGED <<vars, dbVars, routerVars, trioVars>>
     \/ part = "singleton" /\ Single!Next /\ UNCHANGED <<vars, dbVars, routerVars, trioVars>>
     \/ part = "router_http" /\ Http!Next /\ UNCHANGED <<vars, dbVars, processVars, trioVars>>
     \/ part = "router_update" /\ Updated!Next /\ UNCHANGED <<vars, dbVars, processVars, trioVars>>
     \/ part = "router_tcp" /\ Tcp!Next /\ UNCHANGED <<vars, dbVars, processVars, trioVars>>
     \/ part = "router_resume" /\ Resumed!Next /\ UNCHANGED <<vars, dbVars, processVars, trioVars>>
     \/ part = "flannel_three" /\ Trio!Next /\ UNCHANGED <<vars, dbVars, processVars, routerVars>>

MCSpec == MCInit /\ [][MCNext]_<<part, vars, dbVars, processVars, routerVars,
                                 trioVars>>

-----------------------------------------------------------------------------
(* The database of a configuration that stays runs in its role in the end  *)
(* and a primary accepts writes, although commands fail in ways that       *)
(* trying again repairs, downstreams stall, databases exit and jobs are    *)
(* restarted. Not so after PostgreSQL has exited by itself, and writes     *)
(* stay disabled when the goroutine that was to enable them fails or gives *)
(* up. Each kind has its types.                                            *)
Serves ==
  /\ []Maria!TypeOK
  /\ part = "postgres" /\ Db!Fairness => Db!Serves
  /\ part = "mariadb" /\ Maria!Fairness => Maria!Serves
  /\ part = "mongodb" /\ Mongo!Fairness => Mongo!Serves
  /\ part = "singleton" /\ Single!Fairness => Single!Serves

(* In the end every HTTP request meets the route that the controller has   *)
(* for it, although the synchronisation was broken off and repeats what is *)
(* known, but for a path whose default route was deleted while it was      *)
(* added. On a TCP port the route of the controller listens, and no other  *)
(* unless one that was known has been set again. No HTTP route ever uses a *)
(* service that was closed.                                                *)
RoutesFollow ==
  /\ [](Http!TypeOK /\ Http!Backed)
  /\ part = "router_http" /\ Http!Fairness => Http!RoutesFollow
  /\ part = "router_update" /\ Updated!Fairness => Updated!RoutesFollow
  /\ part = "router_tcp" /\ Tcp!Fairness => Tcp!RoutesFollow

(* In the end every host has a lease and routes the subnet of every other  *)
(* host to the device that host has now, unless its watch of the leases    *)
(* has given up or got several new leases in one event, of which it passes *)
(* on one; three hosts that start at once share no subnet either.          *)
Routed ==
  /\ [](TypeOK /\ Trio!TypeOK /\ Trio!NoSharedSubnet)
  /\ part = "flannel" /\ Fairness => AllRouted
  /\ part = "flannel_resume" /\ Reconnecting!Fairness => Reconnecting!AllRouted
  /\ part = "flannel_three" /\ Trio!Fairness => Trio!AllRouted
=============================================================================
