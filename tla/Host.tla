-------------------------------- MODULE Host --------------------------------
(***************************************************************************)
(* The daemon of a host: its jobs (HostJobs) and its volumes               *)
(* (HostVolumes), whose bound on updates and whose count have names of     *)
(* their own here.  Jobs refer to volumes by their IDs only.               *)
(***************************************************************************)
EXTENDS HostJobs

CONSTANTS Requests, Kinds, Names, Layers, Given, None, Resumes, MaxRequests, MaxRestarts,
          MaxClosings, MaxErrors
VARIABLES zfs, mounts, bolt, volumes, mutex, dbMtx, db, op, told, tally
volumeVars == <<zfs, mounts, bolt, volumes, mutex, dbMtx, db, op, told, tally>>

Volumes == INSTANCE HostVolumes WITH MaxUpdates <- MaxClosings, count <- tally

-----------------------------------------------------------------------------
(* What the volume manager told a caller of a volume is true of ZFS and of *)
(* the database, also when the daemon or the host died since, until it is  *)
(* created, imported or destroyed again; and no two volumes share a        *)
(* dataset.                                                                *)
VolumesKept == Volumes!VolumesKept /\ Volumes!OneDataset
=============================================================================
