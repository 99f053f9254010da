-------------------------- MODULE DiscoverdClients ---------------------------
(***************************************************************************)
(* What jobs use discoverd for: to take over from each other during a      *)
(* deployment (DiscoverdDeployment), and to be registered as long as they  *)
(* send heartbeats (DiscoverdExpiry).                                      *)
(***************************************************************************)
EXTENDS DiscoverdDeployment

CONSTANTS Ids, Servers, TTL, LostNotices, Restarts, MaxChanges
VARIABLES registered, requests, leader, server, inst, changes
expiryVars == <<registered, requests, leader, server, inst, changes>>

Expiry == INSTANCE DiscoverdExpiry

-----------------------------------------------------------------------------
(* EnforceExpiry never marks an instance that runs and has been heard,     *)
(* whatever the changes of the raft leader.                                *)
LiveNotMarked == Expiry!LiveNotMarked
=============================================================================
