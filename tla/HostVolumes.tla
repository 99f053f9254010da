----------------------------- MODULE HostVolumes ------------------------------
(***************************************************************************)
(* The volumes of a host: the volume manager (host/volume/manager), its    *)
(* database and its ZFS provider (host/volume/zfs).  A request takes the   *)
(* manager's mutex, then a read lock that keeps the database open, then    *)
(* changes ZFS, and then the manager's map and the database; the daemon or *)
(* the host may die between these steps.  ZFS and mounts of a host outlive *)
(* the daemon, and ZFS outlives the host's boot.                           *)
(*                                                                         *)
(* The provider's own map has the volumes of the manager's map.  Volumes'  *)
(* contents, sizes and events are left out.                                *)
(***************************************************************************)
EXTENDS Integers, FiniteSets

CONSTANTS
  Requests,     \* goroutines that call the manager
  Kinds,        \* what they ask for
  Names,        \* names of volumes and datasets
  Layers,       \* those of layers, which callers give and import again
  Given,        \* those of volumes that callers give and may create again
  None,
  Resumes,      \* may a daemon whose update failed open its database again?
  MaxRequests,  \* bounds: requests
  MaxRestarts,  \* deaths of the daemon or its host
  MaxUpdates,   \* updates of the daemon
  MaxErrors     \* commands that fail

VARIABLES
  zfs,      \* the datasets, with the transaction that created each
  mounts,   \* the volumes that are mounted
  bolt,     \* the volumes bucket: the dataset of each volume
  volumes,  \* Manager.volumes
  mutex,    \* who holds Manager.mutex
  dbMtx,    \* Manager.dbMtx: its readers, and CloseDB or OpenDB as its writer
  db,       \* "open", "closed", or "gone" without a daemon
  op,       \* the call of each goroutine
  told,     \* what callers were told of a volume last
  count     \* what has happened, for the bounds

disk == <<zfs, bolt>>
locks == <<mutex, dbMtx>>
vars == <<zfs, mounts, bolt, volumes, mutex, dbMtx, db, op, told, count>>

NoOp == [pc |-> "idle", kind |-> None, id |-> None, new |-> None]
NoDataset == [kind |-> "none", of |-> None, txg |-> 0]
Has(name) == name # None /\ zfs[name] # NoDataset
Children(name) == {n \in Names : Has(n) /\ zfs[n].of = name}
Newest(S) == CHOOSE n \in S : \A m \in S : zfs[m].txg <= zfs[n].txg
NewDataset(name, kind, of) ==
  [zfs EXCEPT ![name] = [kind |-> kind, of |-> of, txg |-> 1 + zfs[Newest(Names)].txg]]
IsSnapshot(name) == zfs[name].kind = "snapshot"
Unlocked == [readers |-> {}, writer |-> "none"]

Init ==
  /\ zfs = [v \in Names |-> NoDataset] /\ mounts = {} /\ bolt = [v \in Names |-> None]
  /\ volumes = bolt /\ mutex = None /\ dbMtx = Unlocked /\ db = "open"
  /\ op = [r \in Requests |-> NoOp] /\ told = [v \in Names |-> "nothing"]
  /\ count = [requests |-> 0, restarts |-> 0, updates |-> 0, errors |-> 0]

TypeOK ==
  /\ zfs \in [Names -> [kind : {"none", "filesystem", "zvol", "snapshot", "clone"},
                       of : Names \cup {None}, txg : Nat]]
  /\ mounts \subseteq Names
  /\ {bolt, volumes} \subseteq [Names -> Names \cup {None}]
  /\ mutex \in Requests \cup {None, "OpenDB"}
  /\ dbMtx \in [readers : SUBSET Requests, writer : {"none", "CloseDB", "OpenDB"}]
  /\ db \in {"open", "closed", "gone"}
  /\ op \in [Requests -> [pc : {"idle", "mutex", "LockDB", "zfs", "latest", "again",
                                "persist"},
             kind : Kinds \cup {None}, id : Names \cup {None}, new : Names \cup {None}]]
  /\ told \in [Names -> {"nothing", "exists", "destroyed"}]

(* random.UUID: a name that nothing uses. *)
Unused(v) ==
  /\ v \notin Layers \cup Given /\ ~Has(v) /\ bolt[v] = None /\ told[v] = "nothing"
  /\ \A r \in Requests : v \notin {op[r].id, op[r].new}

(* A call of NewVolume, ImportFilesystem, CreateSnapshot, ForkVolume,      *)
(* ReceiveSnapshot or DestroyVolume.  A volume to create may be given its  *)
(* ID: the scheduler does, and asks again with the same one when it has    *)
(* had no answer or an error.                                              *)
Call(r) ==
  /\ db # "gone" /\ op[r].pc = "idle" /\ count.requests < MaxRequests
  /\ \E k \in Kinds, v \in Names, n \in Names \cup {None} :
       /\ k = "NewVolume" => v = n
       /\ IF k \in {"NewVolume", "CreateSnapshot", "ForkVolume", "ReceiveSnapshot"}
            THEN n # None /\ (Unused(n) \/ (k = "NewVolume" /\ n \in Given)) ELSE n = None
       /\ k = "ImportFilesystem" => v \in Layers
       /\ op' = [op EXCEPT ![r] = [pc |-> "mutex", kind |-> k, id |-> v, new |-> n]]
  /\ count' = [count EXCEPT !.requests = @ + 1]
  /\ UNCHANGED <<zfs, mounts, bolt, volumes, locks, db, told>>

Release(r) ==
  /\ mutex' = IF mutex = r THEN None ELSE mutex
  /\ dbMtx' = [dbMtx EXCEPT !.readers = @ \ {r}]

(* m.mutex.Lock, and the look at the map: all but NewVolume return when    *)
(* there is no such volume, and ImportFilesystem when there is.            *)
Lock(r) ==
  /\ op[r].pc = "mutex" /\ mutex = None
  /\ IF \/ op[r].kind = "NewVolume"
        \/ (op[r].kind = "ImportFilesystem") = (volumes[op[r].id] = None)
       THEN mutex' = r /\ op' = [op EXCEPT ![r].pc = "LockDB"]
       ELSE op' = [op EXCEPT ![r] = NoOp] /\ UNCHANGED mutex
  /\ UNCHANGED <<disk, mounts, volumes, dbMtx, db, told, count>>

(* RLock waits for a writer, one that is waiting itself too.  A closed     *)
(* database ends the call; ReceiveSnapshot gives the mutex back.           *)
LockDB(r) ==
  /\ op[r].pc = "LockDB" /\ dbMtx.writer = "none"
  /\ IF db = "closed"
       THEN Release(r) /\ op' = [op EXCEPT ![r] = NoOp] /\ UNCHANGED told
       ELSE /\ dbMtx' = [dbMtx EXCEPT !.readers = @ \cup {r}]
            /\ mutex' = IF op[r].kind = "ReceiveSnapshot" THEN None ELSE mutex
            /\ op' = [op EXCEPT ![r].pc = "zfs"]
            /\ told' = IF op[r].kind \in {"NewVolume", "DestroyVolume", "ImportFilesystem"}
                         THEN [told EXCEPT ![op[r].id] = "nothing"] ELSE told
  /\ UNCHANGED <<disk, mounts, volumes, db, count>>

-----------------------------------------------------------------------------
(* The provider's part of a call. *)

Goes(r, pc) ==
  /\ op' = [op EXCEPT ![r].pc = pc]
  /\ UNCHANGED <<bolt, volumes, locks, db, told>>
Fails(r) ==
  /\ op' = [op EXCEPT ![r] = NoOp]
  /\ Release(r)
  /\ UNCHANGED <<bolt, volumes, db, told>>
Error ==
  /\ count.errors < MaxErrors
  /\ count' = [count EXCEPT !.errors = @ + 1]

(* A filesystem that is there, or could not be mounted, is destroyed and   *)
(* created again for ten seconds; one that has snapshots stays.  When that *)
(* fails, the filesystem is as it was, gone, or new and not mounted.       *)
NewVolume(r) ==
  LET v == op[r].new
      new == NewDataset(v, "filesystem", None)
  IN \/ /\ Children(v) = {}
        /\ zfs' = new /\ mounts' = mounts \cup {v}
        /\ Goes(r, "persist") /\ UNCHANGED count
     \/ /\ Children(v) # {}
        /\ Fails(r) /\ UNCHANGED <<zfs, mounts, count>>
     \/ /\ Children(v) = {}
        /\ \/ UNCHANGED <<zfs, mounts>>
           \/ zfs' \in {[zfs EXCEPT ![v] = NoDataset], new} /\ mounts' = mounts \ {v}
        /\ Fails(r) /\ Error

(* A name that ZFS has is refused.  If the data cannot be copied or the    *)
(* device not be mounted, destroy fails as well, because it begins with an *)
(* unmount: the dataset stays.                                             *)
ImportFilesystem(r) ==
  IF Has(op[r].id) THEN Fails(r) /\ UNCHANGED <<zfs, mounts, count>>
  ELSE /\ zfs' = NewDataset(op[r].id, "zvol", None)
       /\ \/ Goes(r, "persist") /\ mounts' = mounts \cup {op[r].id} /\ UNCHANGED count
          \/ Fails(r) /\ Error /\ UNCHANGED mounts

(* Only filesystems have snapshots that can be mounted; one that cannot is *)
(* not destroyed.                                                          *)
CreateSnapshot(r) ==
  LET dataset == volumes[op[r].id]
      snap == NewDataset(op[r].new, "snapshot", dataset)
      mountable == zfs[dataset].kind \in {"filesystem", "clone"}
  IN \/ /\ IsSnapshot(dataset) \/ ~Has(dataset)
        /\ Fails(r) /\ UNCHANGED <<zfs, mounts, count>>
     \/ /\ mountable
        /\ zfs' = snap /\ mounts' = mounts \cup {op[r].new}
        /\ Goes(r, "persist") /\ UNCHANGED count
     \/ /\ Has(dataset) /\ ~IsSnapshot(dataset)
        /\ zfs' = snap /\ UNCHANGED mounts
        /\ Fails(r) /\ IF mountable THEN Error ELSE UNCHANGED count

ForkVolume(r) ==
  IF IsSnapshot(volumes[op[r].id])
    THEN /\ zfs' = NewDataset(op[r].new, "clone", volumes[op[r].id])
         /\ mounts' = mounts \cup {op[r].new}
         /\ Goes(r, "persist") /\ UNCHANGED count
    ELSE Fails(r) /\ UNCHANGED <<zfs, mounts, count>>

(* destroy: snapshots and imported volumes are unmounted first, and not    *)
(* mounted again when it fails.  ZFS keeps what has snapshots or clones,   *)
(* and what it finds busy six times.                                       *)
DestroyVolume(r) ==
  LET v == op[r].id
      dataset == volumes[v]
      first == zfs[dataset].kind \in {"snapshot", "zvol"}
  IN IF first /\ v \notin mounts THEN Fails(r) /\ UNCHANGED <<zfs, mounts, count>>
     ELSE \/ /\ mounts' = IF first THEN mounts \ {v} ELSE mounts
             /\ IF Has(dataset) /\ Children(dataset) = {} THEN Error ELSE UNCHANGED count
             /\ Fails(r) /\ UNCHANGED zfs
          \/ /\ Has(dataset) /\ Children(dataset) = {}
             /\ zfs' = [zfs EXCEPT ![dataset] = NoDataset]
             /\ mounts' = mounts \ {v}
             /\ Goes(r, "persist") /\ UNCHANGED count

(* zfs recv adds a snapshot; a volume that has been destroyed, or is none  *)
(* that can receive, is refused.                                           *)
ReceiveSnapshot(r) ==
  IF volumes[op[r].id] # None /\ Has(volumes[op[r].id])
       /\ zfs[volumes[op[r].id]].kind \in {"filesystem", "clone"}
    THEN /\ zfs' = NewDataset(op[r].new, "snapshot", volumes[op[r].id])
         /\ Goes(r, "latest") /\ UNCHANGED <<mounts, count>>
    ELSE Fails(r) /\ UNCHANGED <<zfs, mounts, count>>

Provider(r) ==
  /\ op[r].pc = "zfs"
  /\ CASE op[r].kind = "NewVolume" -> NewVolume(r)
       [] op[r].kind = "ImportFilesystem" -> ImportFilesystem(r)
       [] op[r].kind = "CreateSnapshot" -> CreateSnapshot(r)
       [] op[r].kind = "ForkVolume" -> ForkVolume(r)
       [] op[r].kind = "DestroyVolume" -> DestroyVolume(r)
       [] op[r].kind = "ReceiveSnapshot" -> ReceiveSnapshot(r)

(* "whatever the latest snapshot is must be what we received": it is       *)
(* mounted as the new volume, whose dataset id names from here on.         *)
Latest(r) ==
  LET snaps == {n \in Children(volumes[op[r].id]) : IsSnapshot(n)}
  IN /\ op[r].pc = "latest"
     /\ IF snaps = {} THEN Fails(r) /\ UNCHANGED mounts
        ELSE /\ op' = [op EXCEPT ![r].pc = "again", ![r].id = Newest(snaps)]
             /\ mounts' = mounts \cup {op[r].new}
             /\ UNCHANGED <<bolt, volumes, locks, db, told>>
     /\ UNCHANGED <<zfs, count>>

LockAgain(r) ==
  /\ op[r].pc = "again" /\ mutex = None
  /\ mutex' = r /\ op' = [op EXCEPT ![r].pc = "persist"]
  /\ UNCHANGED <<disk, mounts, volumes, dbMtx, db, told, count>>

(* The map and the database, in one transaction; the caller is told. *)
Result(r) ==
  CASE op[r].kind = "DestroyVolume" -> <<op[r].id, None, "destroyed">>
    [] op[r].kind = "ImportFilesystem" -> <<op[r].id, op[r].id, "exists">>
    [] op[r].kind = "ReceiveSnapshot" -> <<op[r].new, op[r].id, "exists">>
    [] OTHER -> <<op[r].new, op[r].new, "exists">>

(* Mutant: a snapshot is not written. *)
persistVolume_NoSnapshots(r) ==
  bolt' = IF op[r].kind = "CreateSnapshot" THEN bolt
          ELSE [bolt EXCEPT ![Result(r)[1]] = Result(r)[2]]
persistVolume(r) == bolt' = [bolt EXCEPT ![Result(r)[1]] = Result(r)[2]]

Persist(r) ==
  /\ op[r].pc = "persist"
  /\ volumes' = [volumes EXCEPT ![Result(r)[1]] = Result(r)[2]]
  /\ persistVolume(r)
  /\ told' = [told EXCEPT ![Result(r)[1]] = Result(r)[3]]
  /\ op' = [op EXCEPT ![r] = NoOp]
  /\ Release(r)
  /\ UNCHANGED <<zfs, mounts, db, count>>

-----------------------------------------------------------------------------
(* Opening and closing the database. *)

(* restore skips the volumes whose dataset has gone and mounts the others; *)
(* one that cannot be read or mounted is fatal to the daemon.              *)
Restored(v) == bolt[v] # None /\ Has(bolt[v])
restore ==
  /\ volumes' = [v \in Names |-> IF Restored(v) THEN bolt[v] ELSE volumes[v]]
  /\ mounts' = mounts \cup {v \in Names : Restored(v)}
restoreFails ==
  /\ Error
  /\ \E v \in Names : Restored(v)
  /\ \E S \in SUBSET {v \in Names : Restored(v)} : mounts' = mounts \cup S

(* CloseDB waits for the readers; new ones wait behind it. *)
CloseDB ==
  /\ db = "open" /\ dbMtx.writer = "none" /\ count.updates < MaxUpdates
  /\ dbMtx' = [dbMtx EXCEPT !.writer = "CloseDB"]
  /\ count' = [count EXCEPT !.updates = @ + 1]
  /\ UNCHANGED <<disk, mounts, volumes, mutex, db, op, told>>
Close ==
  /\ dbMtx.writer = "CloseDB" /\ dbMtx.readers = {}
  /\ db' = "closed" /\ dbMtx' = Unlocked
  /\ UNCHANGED <<disk, mounts, volumes, mutex, op, told, count>>

(* The end of a daemon. *)
Gone ==
  /\ db' = "gone"
  /\ volumes' = [v \in Names |-> None]
  /\ mutex' = None /\ dbMtx' = Unlocked
  /\ op' = [r \in Requests |-> NoOp]
  /\ UNCHANGED <<disk, told>>

(* The update failed: the daemon opens the database again, and holds its   *)
(* lock while maybeInitDefaultProvider waits for the mutex.                *)
Reopen ==
  /\ Resumes /\ db = "closed" /\ dbMtx = Unlocked
  /\ \/ /\ restore /\ dbMtx' = [dbMtx EXCEPT !.writer = "OpenDB"]
        /\ UNCHANGED <<disk, mutex, db, op, told, count>>
     \/ restoreFails /\ Gone
maybeInitDefaultProvider ==
  /\ dbMtx.writer = "OpenDB" /\ mutex = None
  /\ db' = "open" /\ dbMtx' = Unlocked
  /\ UNCHANGED <<disk, mounts, volumes, mutex, op, told, count>>

(* The daemon is replaced by its child, or it dies, alone or with the      *)
(* host; the next one opens the database before it serves requests.        *)
Replace == db = "closed" /\ dbMtx.writer = "none" /\ Gone /\ UNCHANGED <<mounts, count>>
Die ==
  /\ db # "gone" /\ count.restarts < MaxRestarts
  /\ count' = [count EXCEPT !.restarts = @ + 1]
  /\ Gone
  /\ mounts' \in {mounts, {}}
OpenDB ==
  /\ db = "gone"
  /\ \/ restore /\ db' = "open" /\ UNCHANGED count
     \/ restoreFails /\ UNCHANGED <<volumes, db>>
  /\ UNCHANGED <<disk, locks, op, told>>

Step(r) == Lock(r) \/ LockDB(r) \/ Provider(r) \/ Latest(r) \/ LockAgain(r) \/ Persist(r)

Next ==
  \/ \E r \in Requests : Call(r) \/ Step(r)
  \/ CloseDB \/ Close \/ Reopen \/ maybeInitDefaultProvider \/ Replace \/ Die \/ OpenDB

(* The goroutines run, mutexes are fair enough, and the daemon is started. *)
Fairness ==
  /\ \A r \in Requests : WF_vars(Step(r)) /\ SF_vars(Lock(r)) /\ SF_vars(LockAgain(r))
  /\ WF_vars(Close) /\ WF_vars(Reopen \/ Replace) /\ WF_vars(maybeInitDefaultProvider)
  /\ WF_vars(OpenDB)
Spec == Init /\ [][Next]_vars
FairSpec == Spec /\ Fairness

-----------------------------------------------------------------------------
(* What a caller was told of a volume is true of ZFS and of the database,  *)
(* so that the next daemon finds it too: a volume that exists has its      *)
(* dataset and its record, and one that was destroyed does not come back.  *)
(* A request to create, import or destroy the volume again takes back what *)
(* was told: creating it again destroys its data, and may then fail.       *)
VolumesKept ==
  \A v \in Names :
    /\ told[v] = "exists" =>
         Restored(v) /\ (db = "open" => volumes[v] = bolt[v])
    /\ told[v] = "destroyed" => volumes[v] = None /\ ~Restored(v)

(* No two volumes share a dataset: destroying one would take the other. *)
OneDataset ==
  \A v, w \in Names : v # w /\ volumes[v] # None => volumes[v] # volumes[w]

(* A volume that the manager has is mounted, so jobs see its data and it   *)
(* can be destroyed, as long as no command has failed and no snapshot is   *)
(* forked: destroying one that has a clone only unmounts it.               *)
Mounted ==
  count.errors = 0 /\ "ForkVolume" \notin Kinds =>
    \A v \in Names : volumes[v] # None /\ Has(volumes[v]) /\ db = "open" => v \in mounts

(* Every call of the manager ends, and so does CloseDB, when no snapshots  *)
(* are received and no daemon opens its database again: ReceiveSnapshot    *)
(* needs the mutex while it reads the database, OpenDB while it holds the  *)
(* database's lock, and whoever has the mutex may wait for that lock.      *)
CallsEnd ==
  "ReceiveSnapshot" \notin Kinds /\ ~Resumes =>
    /\ \A r \in Requests : op[r].pc # "idle" ~> op[r].pc = "idle"
    /\ dbMtx.writer # "none" ~> dbMtx.writer = "none"
=============================================================================
