------------------------------ MODULE Services ------------------------------
(***************************************************************************)
(* What the applications of a cluster use: the overlay network, in which   *)
(* every host leases a subnet (FlannelSubnets), and the database process   *)
(* of an appliance peer (Appliance), whose count is tally here.            *)
(***************************************************************************)
EXTENDS FlannelSubnets

CONSTANTS Kind, Peers, Singleton, Unrepaired, MaxChanges, MaxErrors, MaxExits, MaxStalls
VARIABLES peer, proc, db, tally
dbVars == <<peer, proc, db, tally>>

Db == INSTANCE Appliance WITH count <- tally

-----------------------------------------------------------------------------
(* A PostgreSQL primary accepts writes only when every commit waits for    *)
(* the downstream of its configuration, no server waits for a downstream   *)
(* that the configuration does not have, and peer, process and server have *)
(* their types.                                                            *)
SafeWrites == Db!TypeOK /\ Db!SafeWrites
=============================================================================
