----------------------------- MODULE Discoverd ------------------------------
(***************************************************************************)
(* A service of discoverd: the store that keeps it (DiscoverdStore) and,   *)
(* with variables of its own, a watch of it, from the server that          *)
(* broadcasts what it applies to the peer of Sirenia that is told          *)
(* (DiscoverdWatch).                                                       *)
(***************************************************************************)
EXTENDS DiscoverdStore

CONSTANTS MaxEntries, BufferSize, MaxDisconnects, MaxGiveUps, MaxSnapshots
VARIABLES wHist, wServer, wSub, wWatch, wOut, wAdapter, wFaults
watchVars == <<wHist, wServer, wSub, wWatch, wOut, wAdapter, wFaults>>

Watch == INSTANCE DiscoverdWatch WITH
  hist <- wHist, server <- wServer, sub <- wSub, watch <- wWatch, out <- wOut,
  adapter <- wAdapter, faults <- wFaults, MaxLog <- MaxEntries

-----------------------------------------------------------------------------
(* A watch that has handled all that its server has broadcast knows the    *)
(* instances and the metadata of its server, also after it has             *)
(* reconnected, and Sirenia's peer has been told (Watch, receiveEvents).   *)
InSync == Watch!InSync

(* receiveEvents never hands the peer an older cluster state than before,  *)
(* not even after it has replaced its watch.                               *)
AdapterNeverBack == Watch!NeverBack
=============================================================================
