-------------------------- MODULE HostVolumesProofs -------------------------
(***************************************************************************)
(* Proofs about HostVolumes, for any volumes, callers, deaths of the       *)
(* daemon, updates and failing commands: what a caller was told of a       *)
(* volume is kept until it is created or destroyed again, and no two       *)
(* volumes share a dataset, provided that no snapshot is received.         *)
(* ReceiveSnapshot runs without the mutex and takes the latest snapshot    *)
(* for its own, so with it the theorem does not hold.                      *)
(*                                                                         *)
(* VolumesKept is not inductive.  InCall adds what a call under way knows: *)
(* past the first lock it holds the mutex, the volume that it destroys, or *)
(* creates under an ID that may have one, is one that nobody relies on any *)
(* more, and the dataset that it is about to record exists.  Kept adds     *)
(* that a volume has its own dataset or none.                              *)
(***************************************************************************)
EXTENDS Host, TLAPS

(* Nothing is called None, and no snapshots are received. *)
NoReceive ==
  /\ None \notin Names \cup Requests
  /\ Kinds \subseteq {"NewVolume", "ImportFilesystem", "CreateSnapshot", "ForkVolume",
                      "DestroyVolume"}

Calls ==
  [pc : {"idle", "mutex", "LockDB", "zfs", "persist"}, kind : Kinds \cup {None},
   id : Names \cup {None}, new : Names \cup {None}]

Types ==
  /\ DOMAIN zfs = Names
  /\ bolt \in [Names -> Names \cup {None}]
  /\ volumes \in [Names -> Names \cup {None}]
  /\ op \in [Requests -> Calls]
  /\ told \in [Names -> {"nothing", "exists", "destroyed"}]
  /\ dbMtx \in [readers : SUBSET Requests, writer : {"none", "CloseDB", "OpenDB"}]
  /\ dbMtx.writer # "none" => db # "gone"

(* The volume that a call is about to record. *)
Target(r) ==
  IF op[r].kind \in {"ImportFilesystem", "DestroyVolume"} THEN op[r].id ELSE op[r].new

InCall(r) ==
  /\ op[r].pc # "idle" =>
       op[r].kind \in Kinds /\ op[r].id \in Names /\ Target(r) \in Names
  /\ op[r].pc \in {"LockDB", "zfs", "persist"} => mutex = r
  /\ op[r].pc # "idle" /\ op[r].kind = "NewVolume" => op[r].id = op[r].new
  /\ op[r].pc \in {"zfs", "persist"} /\ op[r].kind \in {"DestroyVolume", "NewVolume"} =>
       told[op[r].id] # "exists"
  /\ op[r].pc = "persist" /\ op[r].kind # "DestroyVolume" => Volumes!Has(Target(r))

Kept(v) ==
  /\ volumes[v] \in {v, None} /\ bolt[v] \in {v, None}
  /\ told[v] = "exists" =>
       bolt[v] = v /\ Volumes!Has(v) /\ (db # "gone" => volumes[v] = v)
  /\ told[v] = "destroyed" => volumes[v] = None /\ bolt[v] = None

Inv == Types /\ (\A r \in Requests : InCall(r)) /\ (\A v \in Names : Kept(v))

-----------------------------------------------------------------------------
LEMMA InvInit == ASSUME NoReceive, Volumes!Init PROVE Inv
BY DEF NoReceive, Volumes!Init, Inv, Types, InCall, Kept, Calls, Volumes!NoOp, Target, Volumes!Unlocked

(* What the steps of a call may do to the lock of the database. *)
Reading == \E S \in SUBSET Requests : dbMtx' = [dbMtx EXCEPT !.readers = S]

LEMMA Releases ==
  ASSUME Inv, NEW r \in Requests, Volumes!Release(r) \/ UNCHANGED dbMtx PROVE Reading
<1>1. dbMtx.readers \in SUBSET Requests /\ dbMtx = [dbMtx EXCEPT !.readers = dbMtx.readers]
  BY DEF Inv, Types
<1> QED
  BY <1>1 DEF Volumes!Release, Reading

(* A dataset is added for one name, and the others keep theirs. *)
LEMMA Added ==
  ASSUME NoReceive, DOMAIN zfs = Names, NEW n \in Names, NEW of,
         NEW kind \in {"filesystem", "zvol", "snapshot", "clone"},
         zfs' = Volumes!NewDataset(n, kind, of)
  PROVE  DOMAIN zfs' = Names /\ Volumes!Has(n)' /\ (\A m \in Names : Volumes!Has(m) => Volumes!Has(m)')
<1> DEFINE d == [kind |-> kind, of |-> of, txg |-> 1 + zfs[Volumes!Newest(Names)].txg]
<1>1. d.kind # Volumes!NoDataset.kind
  BY DEF Volumes!NoDataset
<1>2. d # Volumes!NoDataset
  BY <1>1
<1>3. zfs' = [zfs EXCEPT ![n] = d]
  BY DEF Volumes!NewDataset
<1> HIDE DEF d
<1>4. DOMAIN zfs' = Names /\ zfs'[n] = d /\ \A m \in Names \ {n} : zfs'[m] = zfs[m]
  BY <1>3
<1> QED
  BY <1>2, <1>4 DEF Volumes!Has, NoReceive, Volumes!NoDataset

(* A call that ends without a result. *)
LEMMA Ended ==
  ASSUME NoReceive, Inv, NEW r \in Requests,
         op' = [op EXCEPT ![r] = Volumes!NoOp],
         mutex' \in {mutex, None}, mutex' = mutex \/ mutex = r,
         UNCHANGED <<bolt, volumes, db, told>>, Reading,
         DOMAIN zfs' = Names, mutex = r \/ UNCHANGED zfs,
         \A m \in Names : Volumes!Has(m) /\ told[m] = "exists" => Volumes!Has(m)'
  PROVE  Inv'
<1>1. /\ op' \in [Requests -> Calls] /\ op'[r].pc = "idle"
      /\ \A q \in Requests \ {r} : op'[q] = op[q]
  BY DEF Inv, Types, Calls, Volumes!NoOp
<1>2. ASSUME NEW q \in Requests PROVE InCall(q)'
  <2>1. CASE q = r
    BY <1>1, <2>1 DEF InCall
  <2>2. CASE q # r /\ mutex = r
    <3>1. op'[q] = op[q] /\ op[q].pc \notin {"LockDB", "zfs", "persist"}
      BY <1>1, <1>2, <2>2 DEF Inv, InCall
    <3> QED
      BY <1>2, <3>1 DEF Inv, InCall, Target
  <2>3. CASE q # r /\ mutex # r
    <3>1. op'[q] = op[q] /\ UNCHANGED <<zfs, mutex>>
      BY <1>1, <1>2, <2>3
    <3> QED
      BY <1>2, <3>1 DEF Inv, InCall, Target, Volumes!Has
  <2> QED
    BY <2>1, <2>2, <2>3
<1>3. \A v \in Names : Kept(v)'
  BY DEF Inv, Kept
<1> QED
  BY <1>1, <1>2, <1>3 DEF Inv, Types, Reading

(* A call that goes on to its next step. *)
LEMMA GoneOn ==
  ASSUME NoReceive, Inv, NEW r \in Requests,
         NEW pc \in {"LockDB", "zfs", "persist"},
         op' = [op EXCEPT ![r].pc = pc], op[r].pc # "idle",
         mutex' = r, mutex \in {r, None},
         UNCHANGED <<bolt, volumes, db>>, Reading,
         told' \in [Names -> {"nothing", "exists", "destroyed"}],
         \A v \in Names : told'[v] \in {told[v], "nothing"},
         DOMAIN zfs' = Names,
         \A v \in Names : Volumes!Has(v) /\ told'[v] = "exists" => Volumes!Has(v)',
         pc \in {"zfs", "persist"} /\ op[r].kind \in {"DestroyVolume", "NewVolume"} =>
           told'[op[r].id] # "exists",
         pc = "persist" /\ op[r].kind # "DestroyVolume" => Volumes!Has(Target(r))'
  PROVE  Inv'
<1>1. /\ op' \in [Requests -> Calls] /\ op'[r].pc = pc
      /\ op'[r].kind = op[r].kind /\ op'[r].id = op[r].id /\ op'[r].new = op[r].new
      /\ \A q \in Requests \ {r} : op'[q] = op[q]
  BY DEF Inv, Types, Calls
<1>2. InCall(r)'
  BY <1>1 DEF Inv, InCall, Target
<1>3. ASSUME NEW q \in Requests \ {r} PROVE InCall(q)'
  <2>1. op[q].pc \notin {"LockDB", "zfs", "persist"}
    BY <1>3 DEF Inv, InCall, NoReceive
  <2> QED
    BY <1>1, <1>3, <2>1 DEF Inv, InCall, Target
<1>4. ASSUME NEW v \in Names PROVE Kept(v)'
  BY <1>4 DEF Inv, Kept
<1> QED
  BY <1>1, <1>2, <1>3, <1>4 DEF Inv, Types, Reading

-----------------------------------------------------------------------------
LEMMA CallStep ==
  ASSUME NoReceive, Inv, NEW r \in Requests, Volumes!Call(r) PROVE Inv'
<1>1. PICK k \in Kinds, v \in Names, n \in Names \cup {None} :
        /\ (k \in {"NewVolume", "CreateSnapshot", "ForkVolume"}) => n # None
        /\ k = "NewVolume" => v = n
        /\ op' = [op EXCEPT ![r] = [pc |-> "mutex", kind |-> k, id |-> v, new |-> n]]
  BY DEF Volumes!Call
<1>2. /\ op' \in [Requests -> Calls] /\ op'[r].pc = "mutex" /\ op'[r].kind = k
      /\ op'[r].id = v /\ op'[r].new = n
      /\ \A q \in Requests \ {r} : op'[q] = op[q]
  BY <1>1 DEF Inv, Types, Calls
<1>3. UNCHANGED <<zfs, bolt, volumes, mutex, dbMtx, db, told>>
  BY DEF Volumes!Call, Volumes!locks
<1>4. InCall(r)'
  BY <1>1, <1>2 DEF InCall, Target, NoReceive
<1>5. ASSUME NEW q \in Requests \ {r} PROVE InCall(q)'
  BY <1>2, <1>3, <1>5 DEF Inv, InCall, Target, Volumes!Has
<1>6. \A w \in Names : Kept(w)'
  BY <1>3 DEF Inv, Kept, Volumes!Has
<1> QED
  BY <1>2, <1>3, <1>4, <1>5, <1>6 DEF Inv, Types

LEMMA LockStep ==
  ASSUME NoReceive, Inv, NEW r \in Requests, Volumes!Lock(r) PROVE Inv'
<1>1. UNCHANGED <<zfs, bolt, volumes, dbMtx, db, told>> /\ DOMAIN zfs' = Names
      /\ \A m \in Names : Volumes!Has(m) => Volumes!Has(m)'
  BY DEF Volumes!Lock, Volumes!disk, Volumes!Has, Inv, Types
<1>r. Reading
  BY <1>1, Releases
<1>2. CASE mutex' = r /\ op' = [op EXCEPT ![r].pc = "LockDB"]
  <2>1. op[r].pc # "idle" /\ mutex = None
    BY DEF Volumes!Lock
  <2>2. told \in [Names -> {"nothing", "exists", "destroyed"}]
    BY DEF Inv, Types
  <2> QED
    BY <1>1, <1>r, <1>2, <2>1, <2>2, GoneOn
<1>3. CASE op' = [op EXCEPT ![r] = Volumes!NoOp] /\ UNCHANGED mutex
  BY <1>1, <1>r, <1>3, Ended
<1> QED
  BY <1>2, <1>3 DEF Volumes!Lock

LEMMA LockDBStep ==
  ASSUME NoReceive, Inv, NEW r \in Requests, Volumes!LockDB(r) PROVE Inv'
<1>1. UNCHANGED <<zfs, bolt, volumes, db>> /\ DOMAIN zfs' = Names
      /\ \A m \in Names : Volumes!Has(m) => Volumes!Has(m)'
  BY DEF Volumes!LockDB, Volumes!disk, Volumes!Has, Inv, Types
<1>2. /\ op[r].pc # "idle" /\ mutex = r /\ op[r].kind \in Kinds /\ op[r].id \in Names
      /\ op[r].kind # "ReceiveSnapshot"
  BY DEF Volumes!LockDB, Inv, InCall, NoReceive
<1>3. CASE db = "closed"
  BY <1>1, <1>2, <1>3, Releases, Ended DEF Volumes!LockDB, Volumes!Release
<1>4. CASE db # "closed"
  <2>1. /\ mutex' = r /\ op' = [op EXCEPT ![r].pc = "zfs"]
        /\ dbMtx' = [dbMtx EXCEPT !.readers = @ \cup {r}]
    BY <1>2, <1>4 DEF Volumes!LockDB
  <2>3. Reading
    <3>1. dbMtx.readers \cup {r} \in SUBSET Requests
      BY DEF Inv, Types
    <3> QED
      BY <2>1, <3>1 DEF Reading
  <2>2. /\ told' \in [Names -> {"nothing", "exists", "destroyed"}]
        /\ \A v \in Names : told'[v] \in {told[v], "nothing"}
        /\ op[r].kind \in {"DestroyVolume", "NewVolume"} => told'[op[r].id] # "exists"
    BY <1>2, <1>4 DEF Volumes!LockDB, Inv, Types
  <2> QED
    BY <1>1, <1>2, <2>1, <2>2, <2>3, GoneOn
<1> QED
  BY <1>3, <1>4

LEMMA ProviderStep ==
  ASSUME NoReceive, Inv, NEW r \in Requests, Volumes!Provider(r) PROVE Inv'
<1>t. PICK t : t = Target(r)
  OBVIOUS
<1> DEFINE Adds == DOMAIN zfs' = Names /\ Volumes!Has(t)' /\ \A m \in Names : Volumes!Has(m) => Volumes!Has(m)'
           Same == /\ DOMAIN zfs' = Names
                   /\ \A m \in Names : Volumes!Has(m) /\ told[m] = "exists" => Volumes!Has(m)'
<1>1. /\ op[r].pc = "zfs" /\ mutex = r /\ op[r].kind \in Kinds
      /\ op[r].id \in Names /\ t \in Names
      /\ op[r].kind \in {"DestroyVolume", "NewVolume"} => told[op[r].id] # "exists"
      /\ op[r].kind = "NewVolume" => op[r].id = op[r].new
  BY <1>t DEF Volumes!Provider, Inv, InCall
<1>2. DOMAIN zfs = Names /\ told \in [Names -> {"nothing", "exists", "destroyed"}]
      /\ op \in [Requests -> Calls]
  BY DEF Inv, Types
<1>3. ASSUME UNCHANGED zfs PROVE Same
  BY <1>2, <1>3 DEF Volumes!Has
<1>4. ASSUME Same, Volumes!Fails(r) PROVE Inv'
  BY <1>1, <1>4, Releases, Ended DEF Volumes!Fails, Volumes!Release
<1>5. ASSUME Volumes!Goes(r, "persist") PROVE Target(r)' = t
  <2>1. op'[r].kind = op[r].kind /\ op'[r].id = op[r].id /\ op'[r].new = op[r].new
    BY <1>2, <1>5 DEF Volumes!Goes, Calls
  <2> QED
    BY <1>t, <2>1 DEF Target
<1>6. ASSUME Adds, Volumes!Goes(r, "persist"), op[r].kind # "DestroyVolume"
      PROVE  Inv'
  <2>1. Volumes!Has(Target(r))'
    BY <1>5, <1>6 DEF Volumes!Has
  <2> QED
    BY <1>1, <1>2, <1>6, <2>1, Releases, GoneOn DEF Volumes!Goes, Volumes!locks
<1>7. ASSUME NEW kind \in {"filesystem", "zvol", "snapshot", "clone"}, NEW of,
             zfs' = Volumes!NewDataset(t, kind, of)
      PROVE  Adds /\ Same
  BY <1>1, <1>2, <1>7, Added
<1> HIDE DEF Adds, Same
<1>8. CASE op[r].kind = "NewVolume"
  <2>1. Volumes!NewVolume(r) /\ t = op[r].new /\ told[t] # "exists"
    BY <1>t, <1>1, <1>8 DEF Volumes!Provider, Target
  <2>2. CASE UNCHANGED zfs /\ Volumes!Fails(r)
    BY <1>3, <1>4, <2>2
  <2>3. CASE zfs' = [zfs EXCEPT ![t] = Volumes!NoDataset] /\ Volumes!Fails(r)
    <3>1. DOMAIN zfs' = Names /\ \A m \in Names \ {t} : zfs'[m] = zfs[m]
      BY <1>1, <1>2, <2>3
    <3>2. Same
      BY <2>1, <3>1 DEF Same, Volumes!Has
    <3> QED
      BY <1>4, <2>3, <3>2
  <2>4. CASE /\ zfs' = Volumes!NewDataset(t, "filesystem", None)
             /\ Volumes!Fails(r) \/ Volumes!Goes(r, "persist")
    BY <1>4, <1>6, <1>7, <1>8, <2>4
  <2> QED
    BY <2>1, <2>2, <2>3, <2>4 DEF Volumes!NewVolume
<1>9. CASE op[r].kind = "ImportFilesystem"
  BY <1>t, <1>3, <1>4, <1>6, <1>7, <1>9 DEF Volumes!Provider, Volumes!ImportFilesystem, Target
<1>10. CASE op[r].kind = "CreateSnapshot"
  BY <1>t, <1>3, <1>4, <1>6, <1>7, <1>10 DEF Volumes!Provider, Volumes!CreateSnapshot, Target
<1>11. CASE op[r].kind = "ForkVolume"
  BY <1>t, <1>3, <1>4, <1>6, <1>7, <1>11 DEF Volumes!Provider, Volumes!ForkVolume, Target
<1>12. CASE op[r].kind = "DestroyVolume"
  <2>1. Volumes!DestroyVolume(r)
    BY <1>12 DEF Volumes!Provider
  <2>2. CASE UNCHANGED zfs /\ Volumes!Fails(r)
    BY <1>3, <1>4, <2>2
  <2>3. CASE zfs' = [zfs EXCEPT ![volumes[op[r].id]] = Volumes!NoDataset] /\ Volumes!Goes(r, "persist")
    <3>1. volumes[op[r].id] \in {op[r].id, None}
      BY <1>1 DEF Inv, Kept
    <3>2. DOMAIN zfs' = Names /\ \A m \in Names \ {op[r].id} : zfs'[m] = zfs[m]
      BY <1>2, <2>3, <3>1 DEF NoReceive
    <3>3. \A v \in Names : Volumes!Has(v) /\ told[v] = "exists" => Volumes!Has(v)'
      BY <1>1, <1>12, <3>2 DEF Volumes!Has
    <3> QED
      BY <1>1, <1>2, <1>12, <2>3, <3>2, <3>3, Releases, GoneOn DEF Volumes!Goes, Volumes!locks
  <2> QED
    BY <2>1, <2>2, <2>3 DEF Volumes!DestroyVolume
<1> QED
  BY <1>1, <1>8, <1>9, <1>10, <1>11, <1>12 DEF NoReceive

LEMMA PersistStep ==
  ASSUME NoReceive, Inv, NEW r \in Requests, Volumes!Persist(r) PROVE Inv'
<1> DEFINE t == Target(r)
           d == IF op[r].kind = "DestroyVolume" THEN None ELSE t
           said == IF op[r].kind = "DestroyVolume" THEN "destroyed" ELSE "exists"
<1>1. /\ op[r].pc = "persist" /\ mutex = r /\ op[r].kind \in Kinds /\ t \in Names
      /\ op[r].kind # "DestroyVolume" => Volumes!Has(t)
  BY DEF Volumes!Persist, Inv, InCall
<1>2. Volumes!Result(r)[1] = t /\ Volumes!Result(r)[2] = d /\ Volumes!Result(r)[3] = said
  BY <1>1 DEF Volumes!Result, Target, NoReceive
<1>3. /\ volumes' = [volumes EXCEPT ![t] = d]
      /\ bolt' = [bolt EXCEPT ![t] = d]
      /\ told' = [told EXCEPT ![t] = said]
      /\ op' = [op EXCEPT ![r] = Volumes!NoOp]
      /\ zfs' = zfs /\ db' = db /\ mutex' = None /\ Reading
  BY Releases, <1>1, <1>2 DEF Volumes!Persist, Volumes!persistVolume, Volumes!Release
<1>4. /\ d \in {t, None} /\ said \in {"exists", "destroyed"}
      /\ said = "exists" => d = t /\ Volumes!Has(t)
      /\ said = "destroyed" => d = None
  BY <1>1
<1> HIDE DEF t, d, said
<1>5. Types'
  BY <1>1, <1>3, <1>4 DEF Inv, Types, Calls, Volumes!NoOp, Reading
<1>6. ASSUME NEW q \in Requests PROVE InCall(q)'
  <2>1. op'[q].pc \in {"idle", "mutex"} /\ (op'[q] = op[q] \/ op'[q].pc = "idle")
    BY <1>1, <1>3, <1>6 DEF Inv, Types, Calls, InCall, Volumes!NoOp
  <2> QED
    BY <2>1, <1>6 DEF Inv, InCall, Target
<1>7. ASSUME NEW v \in Names PROVE Kept(v)'
  <2>1. CASE v = t
    BY <1>1, <1>3, <1>4, <2>1 DEF Inv, Types, Kept, Volumes!Has
  <2>2. CASE v # t
    BY <1>1, <1>3, <1>7, <2>2 DEF Inv, Types, Kept, Volumes!Has
  <2> QED
    BY <2>1, <2>2
<1> QED
  BY <1>5, <1>6, <1>7 DEF Inv

-----------------------------------------------------------------------------
LEMMA SameStep ==
  ASSUME Inv, UNCHANGED <<zfs, bolt, volumes, mutex, dbMtx, db, op, told>> PROVE Inv'
<1>1. \A r \in Requests : InCall(r)'
  BY DEF Inv, InCall, Target, Volumes!Has
<1>2. \A v \in Names : Kept(v)'
  BY DEF Inv, Kept, Volumes!Has
<1> QED
  BY <1>1, <1>2 DEF Inv, Types

(* The database is closed or open, and the calls are left alone. *)
LEMMA DatabaseStep ==
  ASSUME NoReceive, Inv, Volumes!CloseDB \/ Volumes!Close \/ Volumes!maybeInitDefaultProvider PROVE Inv'
<1>1. UNCHANGED <<zfs, bolt, volumes, mutex, op, told>>
  BY DEF Volumes!CloseDB, Volumes!Close, Volumes!maybeInitDefaultProvider, Volumes!disk
<1>2. /\ db # "gone" /\ db' # "gone"
      /\ dbMtx' \in [readers : SUBSET Requests, writer : {"none", "CloseDB", "OpenDB"}]
  BY DEF Volumes!CloseDB, Volumes!Close, Volumes!maybeInitDefaultProvider, Inv, Types, Volumes!Unlocked
<1>3. \A r \in Requests : InCall(r)'
  BY <1>1 DEF Inv, InCall, Target, Volumes!Has
<1>4. \A v \in Names : Kept(v)'
  BY <1>1, <1>2 DEF Inv, Kept, Volumes!Has
<1> QED
  BY <1>1, <1>2, <1>3, <1>4 DEF Inv, Types

(* restore gives every volume that a caller relies on its dataset back. *)
LEMMA RestoreStep ==
  ASSUME NoReceive, Inv, Volumes!Reopen \/ Volumes!OpenDB,
         Volumes!restore, UNCHANGED <<zfs, bolt, mutex, op, told>>, db' # "gone"
  PROVE  Inv'
<1>1. UNCHANGED <<zfs, bolt, mutex, op, told>>
  OBVIOUS
<1>2. volumes' = [v \in Names |-> IF Volumes!Restored(v) THEN bolt[v] ELSE volumes[v]]
  BY DEF Volumes!restore
<1>r. dbMtx' \in [readers : SUBSET Requests, writer : {"none", "CloseDB", "OpenDB"}]
      /\ db' # "gone"
  BY DEF Volumes!Reopen, Volumes!OpenDB, Volumes!Gone, Volumes!locks, Inv, Types
<1>3. Types'
  BY <1>1, <1>2, <1>r DEF Inv, Types
<1>4. \A r \in Requests : InCall(r)'
  BY <1>1 DEF Inv, InCall, Target, Volumes!Has
<1>5. \A v \in Names : Kept(v)'
  BY <1>1, <1>2 DEF Inv, Kept, Volumes!Has, Volumes!Restored, NoReceive
<1> QED
  BY <1>3, <1>4, <1>5 DEF Inv

LEMMA GoneStep ==
  ASSUME NoReceive, Inv, Volumes!Gone PROVE Inv'
<1>1. /\ db' = "gone" /\ volumes' = [v \in Names |-> None]
      /\ op' = [r \in Requests |-> Volumes!NoOp] /\ UNCHANGED <<zfs, bolt, told>>
      /\ dbMtx' = Volumes!Unlocked
  BY DEF Volumes!Gone, Volumes!disk
<1>2. Types'
  BY <1>1 DEF Inv, Types, Calls, Volumes!NoOp, Volumes!Unlocked
<1>3. \A r \in Requests : InCall(r)'
  BY <1>1 DEF InCall, Volumes!NoOp
<1>4. \A v \in Names : Kept(v)'
  BY <1>1 DEF Inv, Kept, Volumes!Has
<1> QED
  BY <1>2, <1>3, <1>4 DEF Inv

(* A database that cannot be loaded is left alone. *)
LEMMA OpenStep ==
  ASSUME NoReceive, Inv, Volumes!Reopen \/ Volumes!OpenDB PROVE Inv'
<1>1. CASE Volumes!Gone
  BY <1>1, GoneStep
<1>2. CASE Volumes!restore /\ db' # "gone" /\ UNCHANGED <<zfs, bolt, mutex, op, told>>
  BY <1>2, RestoreStep
<1>3. CASE UNCHANGED <<zfs, bolt, volumes, mutex, dbMtx, db, op, told>>
  BY <1>3, SameStep
<1> QED
  BY <1>1, <1>2, <1>3 DEF Volumes!Reopen, Volumes!OpenDB, Volumes!disk, Volumes!locks

LEMMA InvNext == ASSUME NoReceive, Inv, [Volumes!Next]_Volumes!vars PROVE Inv'
<1>1. CASE UNCHANGED Volumes!vars
  BY <1>1, SameStep DEF Volumes!vars
<1>2. ASSUME NEW r \in Requests, Volumes!Call(r) \/ Volumes!Step(r) PROVE Inv'
  <2>1. ~Volumes!Latest(r) /\ ~Volumes!LockAgain(r)
    BY DEF Volumes!Latest, Volumes!LockAgain, Inv, Types, Calls
  <2> QED
    BY <1>2, <2>1, CallStep, LockStep, LockDBStep, ProviderStep, PersistStep DEF Volumes!Step
<1>3. CASE Volumes!CloseDB \/ Volumes!Close \/ Volumes!maybeInitDefaultProvider
  BY <1>3, DatabaseStep
<1>4. CASE Volumes!Reopen \/ Volumes!OpenDB
  BY <1>4, OpenStep
<1>5. CASE Volumes!Replace \/ Volumes!Die
  BY <1>5, GoneStep DEF Volumes!Replace, Volumes!Die
<1> QED
  BY <1>1, <1>2, <1>3, <1>4, <1>5 DEF Volumes!Next

(* What a caller was told of a volume is true of ZFS, the database and the *)
(* manager's map, whatever calls run at once and wherever the daemon dies: *)
(* Manager.NewVolumeFromProvider, ImportFilesystem, CreateSnapshot,        *)
(* ForkVolume and DestroyVolume.  Every volume of the manager's map has    *)
(* the dataset of its own name, so no two volumes share one.  Creating a   *)
(* volume again under its ID takes back what was told of it.               *)
THEOREM CallersNotMisled == ASSUME NoReceive PROVE Volumes!Spec => []VolumesKept
<1>1. Volumes!Init => Inv
  BY InvInit
<1>2. Inv /\ [Volumes!Next]_Volumes!vars => Inv'
  BY InvNext
<1>3. Inv => Volumes!VolumesKept
  BY DEF NoReceive, Inv, Kept, Volumes!VolumesKept, Volumes!Restored, Volumes!Has
<1>4. Inv => Volumes!OneDataset
  BY DEF NoReceive, Inv, Kept, Volumes!OneDataset
<1>5. Inv => VolumesKept
  BY <1>3, <1>4 DEF VolumesKept
<1> QED
  BY <1>1, <1>2, <1>5, PTL DEF Volumes!Spec
=============================================================================
