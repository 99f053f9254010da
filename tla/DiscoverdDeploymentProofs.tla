---------------------- MODULE DiscoverdDeploymentProofs ---------------------
(***************************************************************************)
(* Proofs about DiscoverdDeployment, for any number of addresses,          *)
(* deployments, restarts and lost writes.                                  *)
(*                                                                         *)
(* That only one job takes over at a time is not inductive: a job relies   *)
(* on metadata that may have been replaced.  JobInv says what is true of   *)
(* the last version whatever the job has heard: a job that is performing   *)
(* is marked there, a job that is marking itself is marked there if it is  *)
(* listed anywhere (its write was stored and the answer lost), and a job   *)
(* that has not started is listed nowhere.                                 *)
(***************************************************************************)
EXTENDS DiscoverdDeployment, TLAPS

Quiet == deployer.id <= 1 /\ faults.restarts = 0
Released == deployer.state = "idle" /\ deployer.id = 1
Creating == deployer.state \in {"creating", "replacing"} \/ deployer.id = 0

JobInv(a) ==
  /\ job[a].state = "performing" => hist[Last].states[a] = "performing"
  /\ job[a].state = "marking" =>
       \A k \in 1..Last : hist[k].states[a] # "none" => hist[Last].states[a] = "performing"
  /\ job[a].state = "new" /\ ~Released => \A k \in 1..Last : hist[k].states[a] = "none"

MarkInv ==
  Quiet => /\ \A a \in Addrs : JobInv(a)
           /\ Creating => \A a \in Addrs : job[a].state = "new"

IdleInv == deployer.id = 0 => deployer.state = "idle"

IInv == TypeOK /\ OneMarked /\ MarkInv /\ IdleInv

-----------------------------------------------------------------------------
(* What SetMeta does: it leaves the history alone or appends the new       *)
(* version to the one whose index it carries, and counts what is lost.     *)
Appended(meta) ==
  /\ hist' \in Seq(DeploymentMeta) /\ Last' = Last + 1
  /\ \A k \in 1..Last : hist'[k] = hist[k]
  /\ hist'[Last'] = meta

LEMMA SetStep ==
  ASSUME TypeOK, NEW p, NEW meta \in DeploymentMeta, NEW ok \in BOOLEAN, set(p, meta, ok)
  PROVE  /\ hist' = hist \/ (p = Last /\ Appended(meta))
         /\ ok => p = Last /\ Appended(meta)
         /\ faults' \in [restarts : 0..MaxRestarts, lost : 0..MaxLost]
         /\ faults'.restarts = faults.restarts
<1>1. hist \in Seq(DeploymentMeta) /\ Len(hist) \in Nat
  BY DEF TypeOK
<1>2. hist' = Append(hist, meta) => Appended(meta)
  BY <1>1 DEF Appended, Last
<1>3. /\ faults' \in [restarts : 0..MaxRestarts, lost : 0..MaxLost]
      /\ faults'.restarts = faults.restarts
  BY DeploymentAssumption DEF set, TypeOK
<1> QED BY <1>2, <1>3 DEF set

LEMMA LastType == TypeOK => Last \in Nat \ {0} /\ Last \in 1..Last
BY DEF TypeOK, Last

(* An event takes a reader to a version that exists. *)
LEMMA UpdateBounds ==
  ASSUME TypeOK, NEW q \in Nat \ {0}, q <= Last, NEW p \in update(q)
  PROVE  p \in 1..Last /\ p \in Nat \ {0} /\ p <= Last
BY LastType DEF update

LEMMA JobBounds ==
  ASSUME TypeOK, NEW a \in Addrs, NEW p \in update(job[a].pos)
  PROVE  p \in 1..Last /\ p \in Nat \ {0} /\ p <= Last
<1>1. job[a].pos \in Nat \ {0} /\ job[a].pos <= Last
  BY DEF TypeOK, JobRec
<1> QED BY <1>1, UpdateBounds

LEMMA MetaType ==
  ASSUME TypeOK, NEW k \in 1..Last
  PROVE  /\ hist[k] \in DeploymentMeta /\ hist[k].states \in [Addrs -> DeploymentState]
         /\ hist[k].id \in 0..MaxCreates
<1>1. hist[k] \in DeploymentMeta
  BY DEF TypeOK, Last
<1> QED BY <1>1 DEF DeploymentMeta

(* A job that moves leaves the others alone. *)
LEMMA MoveStep ==
  ASSUME TypeOK, NEW a \in Addrs,
         NEW state \in {"new", "marking", "performing", "serving", "finished", "failed"},
         NEW pos \in Nat \ {0}, Move(a, state, pos)
  PROVE  /\ job' \in [Addrs -> JobRec] /\ job'[a].state = state /\ job'[a].pos = pos
         /\ \A b \in Addrs \ {a} : job'[b] = job[b]
BY DEF TypeOK, Move, JobRec

(* A version in which one address has another state. *)
LEMMA ExceptStep ==
  ASSUME NEW m \in DeploymentMeta, NEW a \in Addrs, NEW state \in DeploymentState
  PROVE  LET n == [m EXCEPT !.states[a] = state]
         IN  /\ n \in DeploymentMeta /\ n.states[a] = state
             /\ \A b \in Addrs \ {a} : n.states[b] = m.states[b]
BY DEF DeploymentMeta

(* Nobody but job a moves, nothing is written. *)
LEMMA ReaderStep ==
  ASSUME IInv, NEW a \in Addrs, job' \in [Addrs -> JobRec],
         \A b \in Addrs \ {a} : job'[b] = job[b],
         job'[a].pos <= Last, hist' = hist, deployer' = deployer,
         faults'.restarts = faults.restarts,
         faults' \in [restarts : 0..MaxRestarts, lost : 0..MaxLost],
         job[a].state # "new" \/ ~Creating,
         job'[a].state # "new",
         Quiet => JobInv(a)'
  PROVE  IInv'
<1>1. Last' = Last
  BY DEF Last
<1>2. TypeOK'
  BY <1>1 DEF IInv, TypeOK
<1>3. OneMarked'
  BY <1>1 DEF IInv, OneMarked
<1>4. ASSUME Quiet' PROVE (\A b \in Addrs : JobInv(b)') /\ ~Creating'
  <2>1. Quiet
    BY <1>4 DEF Quiet
  <2>2. ~Creating
    BY <2>1 DEF IInv, MarkInv
  <2>3. ASSUME NEW b \in Addrs \ {a} PROVE JobInv(b)'
    BY <1>1, <2>1, <2>3 DEF IInv, MarkInv, JobInv, Released
  <2>4. JobInv(a)'
    BY <2>1
  <2>5. ~Creating'
    BY <2>2 DEF Creating
  <2> QED BY <2>3, <2>4, <2>5
<1>5. MarkInv'
  BY <1>4 DEF MarkInv
<1> QED BY <1>2, <1>3, <1>5 DEF IInv, IdleInv

(* Job a appends a version in which it is marked as state. *)
LEMMA WriterStep ==
  ASSUME IInv, NEW a \in Addrs, NEW state \in DeploymentState,
         Appended([hist[Last] EXCEPT !.states[a] = state]),
         job' \in [Addrs -> JobRec], \A b \in Addrs \ {a} : job'[b] = job[b],
         job'[a].pos <= Last', deployer' = deployer,
         faults'.restarts = faults.restarts,
         faults' \in [restarts : 0..MaxRestarts, lost : 0..MaxLost],
         job[a].state # "new", job'[a].state # "new",
         state = "performing" => Performing(Last, a) = {},
         job'[a].state \in {"performing", "marking"} => state = "performing"
  PROVE  IInv'
<1> DEFINE n == [hist[Last] EXCEPT !.states[a] = state]
<1>1. Last \in Nat \ {0} /\ Last \in 1..Last /\ hist[Last] \in DeploymentMeta
  BY LastType, MetaType DEF IInv
<1>2. /\ n \in DeploymentMeta /\ n.states[a] = state
      /\ \A b \in Addrs \ {a} : n.states[b] = hist[Last].states[b]
  BY <1>1, ExceptStep
<1>3. /\ hist' \in Seq(DeploymentMeta) /\ Last' = Last + 1
      /\ (\A k \in 1..Last : hist'[k] = hist[k]) /\ hist'[Last'] = n
  BY DEF Appended
<1> HIDE DEF n
<1>4. \A k \in 1..Last' : k \in 1..Last \/ k = Last'
  BY <1>1, <1>3
<1>5. TypeOK'
  <2>1. \A b \in Addrs : job'[b].pos <= Last'
    <3>1. \A b \in Addrs : job[b].pos \in Nat /\ job[b].pos <= Last
      BY DEF IInv, TypeOK, JobRec
    <3> QED BY <1>1, <1>3, <3>1
  <2>2. deployer.pos <= Last'
    BY <1>1, <1>3 DEF IInv, TypeOK, DeployerRec
  <2> QED BY <1>1, <1>3, <2>1, <2>2 DEF IInv, TypeOK
<1>6. OneMarked'
  <2>1. ASSUME NEW b \in Addrs, NEW c \in Addrs,
               n.states[b] = "performing", n.states[c] = "performing"
        PROVE  b = c
    <3>1. CASE state = "performing"
      BY <1>2, <2>1, <3>1 DEF Performing
    <3>2. CASE state # "performing"
      BY <1>1, <1>2, <2>1, <3>2 DEF IInv, OneMarked
    <3> QED BY <3>1, <3>2
  <2> QED BY <1>3, <1>4, <2>1 DEF IInv, OneMarked
<1>7. ASSUME Quiet' PROVE (\A b \in Addrs : JobInv(b)') /\ ~Creating'
  <2>1. Quiet
    BY <1>7 DEF Quiet
  <2>2. ~Creating'
    BY <2>1 DEF IInv, MarkInv, Creating
  <2>3. ASSUME NEW b \in Addrs \ {a} PROVE JobInv(b)'
    <3>1. JobInv(b)
      BY <2>1 DEF IInv, MarkInv
    <3>2. hist'[Last'].states[b] = hist[Last].states[b]
      BY <1>2, <1>3
    <3> QED BY <1>1, <1>3, <1>4, <3>1, <3>2 DEF JobInv, Released
  <2>4. JobInv(a)'
    BY <1>2, <1>3 DEF JobInv
  <2> QED BY <2>2, <2>3, <2>4
<1>8. MarkInv'
  BY <1>7 DEF MarkInv
<1> QED BY <1>5, <1>6, <1>8 DEF IInv, IdleInv

-----------------------------------------------------------------------------
LEMMA InitInv == Init => IInv
<1> SUFFICES ASSUME Init PROVE IInv OBVIOUS
<1>0. NewDeploymentMeta(0) \in DeploymentMeta
  BY DeploymentAssumption DEF DeploymentMeta, NewDeploymentMeta, DeploymentState
<1>1. /\ hist \in Seq(DeploymentMeta) /\ Last = 1 /\ hist[1] = NewDeploymentMeta(0)
      /\ 1..Last = {1}
  BY <1>0 DEF Init, Last
<1>2. \A a \in Addrs : hist[1].states[a] = "none"
  BY <1>1 DEF NewDeploymentMeta
<1>3. TypeOK
  BY <1>1, DeploymentAssumption DEF Init, TypeOK, JobRec, DeployerRec
<1>4. OneMarked
  BY <1>1, <1>2 DEF OneMarked
<1>5. MarkInv
  BY <1>1, <1>2 DEF MarkInv, JobInv, Init
<1> QED BY <1>3, <1>4, <1>5 DEF IInv, IdleInv, Init

LEMMA NewDeploymentInv == ASSUME IInv, NEW a \in Addrs, NewDeployment(a) PROVE IInv'
<1>1. PICK p \in 1..Last : Move(a, "marking", p)
  BY DEF NewDeployment
<1>2. p \in Nat \ {0} /\ p <= Last
  BY <1>1, LastType DEF IInv
<1>3. /\ job' \in [Addrs -> JobRec] /\ job'[a].state = "marking" /\ job'[a].pos = p
      /\ \A b \in Addrs \ {a} : job'[b] = job[b]
  BY <1>1, <1>2, MoveStep DEF IInv
<1>4. hist' = hist /\ deployer' = deployer /\ faults' = faults /\ Last' = Last
  BY DEF NewDeployment, Last
<1>5. deployer.state = "waiting" /\ job[a].state = "new" /\ ~Creating
  BY DEF NewDeployment, Creating, IInv, IdleInv
<1>6. ASSUME Quiet PROVE JobInv(a)'
  <2>1. \A k \in 1..Last : hist[k].states[a] = "none"
    BY <1>5, <1>6 DEF IInv, MarkInv, JobInv, Released
  <2> QED BY <1>3, <1>4, <2>1 DEF JobInv
<1> QED BY <1>2, <1>3, <1>4, <1>5, <1>6, ReaderStep DEF IInv, TypeOK

LEMMA MarkPerformingKnownInv ==
  ASSUME IInv, NEW a \in Addrs, MarkPerformingKnown(a) PROVE IInv'
<1>1. PICK p \in update(job[a].pos) : hist[p].states[a] # "none" /\ Move(a, "performing", p)
  BY DEF MarkPerformingKnown
<1>2. p \in 1..Last /\ p \in Nat \ {0} /\ p <= Last
  BY <1>1, JobBounds DEF IInv
<1>3. /\ job' \in [Addrs -> JobRec] /\ job'[a].state = "performing" /\ job'[a].pos = p
      /\ \A b \in Addrs \ {a} : job'[b] = job[b]
  BY <1>1, <1>2, MoveStep DEF IInv
<1>4. hist' = hist /\ deployer' = deployer /\ faults' = faults /\ Last' = Last
  BY DEF MarkPerformingKnown, Last
<1>5. job[a].state = "marking"
  BY DEF MarkPerformingKnown
<1>6. ASSUME Quiet PROVE JobInv(a)'
  <2>1. hist[Last].states[a] = "performing"
    BY <1>1, <1>2, <1>5, <1>6 DEF IInv, MarkInv, JobInv
  <2> QED BY <1>3, <1>4, <2>1 DEF JobInv
<1> QED BY <1>2, <1>3, <1>4, <1>5, <1>6, ReaderStep DEF IInv, TypeOK

LEMMA MarkPerformingWaitInv ==
  ASSUME IInv, NEW a \in Addrs, MarkPerformingWait(a) PROVE IInv'
<1>1. PICK p \in update(job[a].pos) :
        (p < Last /\ Move(a, "marking", p + 1)) \/ Move(a, "failed", p)
  BY DEF MarkPerformingWait
<1>2. p \in 1..Last /\ p \in Nat \ {0} /\ p <= Last
  BY <1>1, JobBounds DEF IInv
<1>3. PICK q \in Nat \ {0}, state \in {"marking", "failed"} : q <= Last /\ Move(a, state, q)
  BY <1>1, <1>2, LastType DEF IInv
<1>4. /\ job' \in [Addrs -> JobRec] /\ job'[a].state = state /\ job'[a].pos = q
      /\ \A b \in Addrs \ {a} : job'[b] = job[b]
  BY <1>3, MoveStep DEF IInv
<1>5. /\ hist' = hist /\ deployer' = deployer /\ faults' = faults /\ Last' = Last
      /\ job[a].state = "marking"
  BY DEF MarkPerformingWait, Last
<1>6. ASSUME Quiet PROVE JobInv(a)'
  BY <1>3, <1>4, <1>5, <1>6 DEF IInv, MarkInv, JobInv
<1> QED BY <1>3, <1>4, <1>5, <1>6, ReaderStep DEF IInv, TypeOK

LEMMA TakeOverInv == ASSUME IInv, NEW a \in Addrs, TakeOver(a) PROVE IInv'
<1>1. job[a].pos \in Nat \ {0} /\ job[a].pos <= Last
  BY DEF IInv, TypeOK, JobRec
<1>2. /\ job' \in [Addrs -> JobRec] /\ job'[a].state = "serving" /\ job'[a].pos = job[a].pos
      /\ \A b \in Addrs \ {a} : job'[b] = job[b]
  BY <1>1, MoveStep DEF IInv, TakeOver
<1>3. /\ hist' = hist /\ deployer' = deployer /\ faults' = faults
      /\ job[a].state = "performing"
  BY DEF TakeOver
<1>4. JobInv(a)'
  BY <1>2 DEF JobInv
<1> QED BY <1>1, <1>2, <1>3, <1>4, ReaderStep DEF IInv, TypeOK

LEMMA RestartInv == ASSUME IInv, NEW a \in Addrs, Restart(a) PROVE IInv'
<1>1. /\ job' \in [Addrs -> JobRec] /\ job'[a].pos = 1
      /\ \A b \in Addrs \ {a} : job'[b] = job[b]
  BY MoveStep DEF IInv, Restart
<1>2. hist' = hist /\ deployer' = deployer /\ Last' = Last
  BY DEF Restart, Last
<1>3. faults' \in [restarts : 0..MaxRestarts, lost : 0..MaxLost] /\ faults'.restarts # 0
  BY DeploymentAssumption DEF IInv, TypeOK, Restart
<1>4. TypeOK'
  BY <1>1, <1>2, <1>3, LastType DEF IInv, TypeOK
<1>5. OneMarked' /\ IdleInv'
  BY <1>2 DEF IInv, OneMarked, IdleInv
<1>6. MarkInv'
  BY <1>3 DEF MarkInv, Quiet
<1> QED BY <1>4, <1>5, <1>6 DEF IInv

LEMMA MarkPerformingInv == ASSUME IInv, NEW a \in Addrs, MarkPerforming(a) PROVE IInv'
<1>1. PICK p \in update(job[a].pos), ok \in BOOLEAN :
        /\ hist[p].states[a] = "none" /\ Performing(p, a) = {}
        /\ set(p, [hist[p] EXCEPT !.states[a] = "performing"], ok)
        /\ Move(a, IF ok THEN "performing" ELSE "marking", p)
  BY DEF MarkPerforming
<1>2. p \in 1..Last /\ p \in Nat \ {0} /\ p <= Last /\ hist[p] \in DeploymentMeta
  BY <1>1, JobBounds, MetaType DEF IInv
<1> DEFINE m == [hist[p] EXCEPT !.states[a] = "performing"]
<1>3. m \in DeploymentMeta
  BY <1>2, ExceptStep DEF DeploymentState
<1>4. /\ hist' = hist \/ (p = Last /\ Appended(m))
      /\ ok => p = Last /\ Appended(m)
      /\ faults' \in [restarts : 0..MaxRestarts, lost : 0..MaxLost]
      /\ faults'.restarts = faults.restarts
  <2> HIDE DEF m
  <2>1. set(p, m, ok)
    BY <1>1 DEF m
  <2> QED BY <1>3, <2>1, SetStep DEF IInv
<1>5. /\ job' \in [Addrs -> JobRec] /\ job'[a].pos = p
      /\ job'[a].state = IF ok THEN "performing" ELSE "marking"
      /\ \A b \in Addrs \ {a} : job'[b] = job[b]
  BY <1>1, <1>2, MoveStep DEF IInv
<1>6. deployer' = deployer /\ job[a].state = "marking"
  BY DEF MarkPerforming
<1>7. CASE p = Last /\ Appended(m)
  <2>1. job'[a].pos <= Last'
    BY <1>2, <1>5, <1>7, LastType DEF Appended, IInv
  <2>2. job'[a].state # "new" /\ job'[a].state \in {"performing", "marking"}
    BY <1>5
  <2>3. Performing(Last, a) = {} /\ hist[Last].states[a] = "none"
    BY <1>1, <1>7
  <2>4. Appended([hist[Last] EXCEPT !.states[a] = "performing"])
    BY <1>7
  <2> QED BY <1>4, <1>5, <1>6, <2>1, <2>2, <2>3, <2>4, WriterStep DEF DeploymentState
<1>8. CASE hist' = hist /\ ~(p = Last /\ Appended(m))
  <2>1. ~ok
    BY <1>4, <1>8
  <2>2. ASSUME Quiet PROVE JobInv(a)'
    BY <1>5, <1>6, <1>8, <2>1, <2>2 DEF IInv, MarkInv, JobInv, Last
  <2> QED BY <1>2, <1>4, <1>5, <1>6, <1>8, <2>1, <2>2, ReaderStep
<1> HIDE DEF m
<1> QED BY <1>4, <1>7, <1>8

LEMMA MarkDoneInv == ASSUME IInv, NEW a \in Addrs, MarkDone(a) PROVE IInv'
<1>1. PICK p \in update(job[a].pos), ok \in BOOLEAN :
        /\ set(p, [hist[p] EXCEPT !.states[a] = "done"], ok)
        /\ IF ok THEN Move(a, "finished", Len(hist')) ELSE Move(a, "serving", p)
  BY DEF MarkDone
<1>2. p \in 1..Last /\ p \in Nat \ {0} /\ p <= Last /\ hist[p] \in DeploymentMeta
  BY <1>1, JobBounds, MetaType DEF IInv
<1> DEFINE m == [hist[p] EXCEPT !.states[a] = "done"]
<1>3. m \in DeploymentMeta
  BY <1>2, ExceptStep DEF DeploymentState
<1>4. /\ hist' = hist \/ (p = Last /\ Appended(m))
      /\ ok => p = Last /\ Appended(m)
      /\ faults' \in [restarts : 0..MaxRestarts, lost : 0..MaxLost]
      /\ faults'.restarts = faults.restarts
  <2> HIDE DEF m
  <2>1. set(p, m, ok)
    BY <1>1 DEF m
  <2> QED BY <1>3, <2>1, SetStep DEF IInv
<1>5. Last' \in Nat \ {0} /\ Last <= Last'
  BY <1>4, LastType DEF Appended, IInv, Last
<1>6. PICK q \in Nat \ {0}, state \in {"finished", "serving"} : q <= Last' /\ Move(a, state, q)
  BY <1>1, <1>2, <1>5, LastType DEF Last, IInv
<1>7. /\ job' \in [Addrs -> JobRec] /\ job'[a].state = state /\ job'[a].pos = q
      /\ \A b \in Addrs \ {a} : job'[b] = job[b]
  BY <1>6, MoveStep DEF IInv
<1>8. deployer' = deployer /\ job[a].state = "serving"
  BY DEF MarkDone
<1>9. CASE p = Last /\ Appended(m)
  BY <1>4, <1>6, <1>7, <1>8, <1>9, WriterStep DEF DeploymentState
<1>10. CASE hist' = hist
  <2>1. JobInv(a)'
    BY <1>6, <1>7 DEF JobInv
  <2>2. q <= Last
    BY <1>6, <1>10 DEF Last
  <2> QED BY <1>4, <1>6, <1>7, <1>8, <1>10, <2>1, <2>2, ReaderStep
<1> QED BY <1>4, <1>9, <1>10

-----------------------------------------------------------------------------
(* A step of the deployer that writes nothing and starts no job. *)
LEMMA DeployerStep ==
  ASSUME IInv, hist' = hist, job' = job, faults' = faults,
         deployer' \in DeployerRec, deployer'.pos <= Last,
         Quiet' => Quiet /\ (Creating' => Creating) /\ (Released => Released'),
         IdleInv'
  PROVE  IInv'
<1>1. Last' = Last
  BY DEF Last
<1>2. TypeOK' /\ OneMarked'
  BY <1>1 DEF IInv, TypeOK, OneMarked
<1>3. MarkInv'
  BY <1>1 DEF IInv, MarkInv, JobInv
<1> QED BY <1>2, <1>3 DEF IInv

LEMMA NewDeployerInv == ASSUME IInv, NewDeployer PROVE IInv'
<1>1. PICK p \in 1..Last :
        deployer' = [state |-> "creating", pos |-> p, id |-> deployer.id + 1]
  BY DEF NewDeployer
<1>2. /\ deployer.state = "idle" /\ deployer.id \in 0..MaxCreates /\ deployer.id < MaxCreates
      /\ hist' = hist /\ job' = job /\ faults' = faults
  BY DEF NewDeployer, IInv, TypeOK, DeployerRec
<1>3. p \in Nat \ {0} /\ p <= Last
  BY <1>1, LastType DEF IInv
<1>4. deployer' \in DeployerRec /\ deployer'.pos = p /\ deployer'.id = deployer.id + 1
  BY <1>1, <1>2, <1>3, DeploymentAssumption DEF DeployerRec
<1>5. Quiet' => Quiet /\ Creating /\ ~Released
  BY <1>2, <1>4 DEF Quiet, Creating, Released
<1>6. IdleInv'
  BY <1>2, <1>4 DEF IdleInv
<1> QED BY <1>2, <1>3, <1>4, <1>5, <1>6, DeployerStep

LEMMA WaitInv == ASSUME IInv, Wait PROVE IInv'
<1>1. /\ deployer.state = "waiting" /\ deployer.id # 0
      /\ hist' = hist /\ job' = job /\ faults' = faults
  BY DEF Wait, IInv, IdleInv
<1>2. /\ deployer' \in DeployerRec /\ deployer'.pos <= Last /\ deployer'.id = deployer.id
      /\ deployer'.state \in {"waiting", "done", "idle"}
  <2>1. deployer \in DeployerRec /\ deployer.pos \in Nat /\ deployer.pos <= Last /\ Last \in Nat
    BY LastType DEF IInv, TypeOK, DeployerRec
  <2>2. CASE deployer' = [deployer EXCEPT !.state = "idle"]
    BY <2>1, <2>2 DEF DeployerRec
  <2>3. CASE \E s \in {"waiting", "done"} :
               deployer.pos < Last /\ deployer' = [deployer EXCEPT !.pos = @ + 1, !.state = s]
    <3>1. PICK s \in {"waiting", "done"} :
            deployer.pos < Last /\ deployer' = [deployer EXCEPT !.pos = @ + 1, !.state = s]
      BY <2>3
    <3>2. deployer' = [state |-> s, pos |-> deployer.pos + 1, id |-> deployer.id]
      BY <2>1, <3>1 DEF DeployerRec
    <3>3. deployer.pos + 1 \in Nat \ {0} /\ deployer.pos + 1 <= Last
      BY <2>1, <3>1
    <3>4. deployer.id \in 0..MaxCreates
      BY <2>1 DEF DeployerRec
    <3> QED BY <3>2, <3>3, <3>4 DEF DeployerRec
  <2> QED BY <1>1, <2>2, <2>3 DEF Wait
<1>3. Quiet' => Quiet /\ ~Creating' /\ ~Released
  BY <1>1, <1>2 DEF Quiet, Creating, Released
<1>4. IdleInv'
  BY <1>1, <1>2 DEF IdleInv
<1> QED BY <1>1, <1>2, <1>3, <1>4, DeployerStep

LEMMA NextReleaseInv == ASSUME IInv, NextRelease PROVE IInv'
<1>1. /\ deployer.state = "done" /\ deployer.id # 0 /\ hist' = hist /\ faults' = faults
      /\ job' = [a \in Addrs |-> [state |-> "new", pos |-> 1]] /\ Last' = Last
  BY DEF NextRelease, IInv, IdleInv, Last
<1>2. /\ deployer' \in DeployerRec /\ deployer'.pos <= Last /\ deployer'.id = deployer.id
      /\ deployer'.state = "idle"
  BY DEF NextRelease, IInv, TypeOK, DeployerRec
<1>3. TypeOK'
  BY <1>1, <1>2, LastType DEF IInv, TypeOK, JobRec
<1>4. OneMarked' /\ IdleInv'
  BY <1>1, <1>2 DEF IInv, OneMarked, IdleInv
<1>5. deployer.id \in Nat
  BY DEF IInv, TypeOK, DeployerRec
<1>6. Quiet' => Released'
  BY <1>1, <1>2, <1>5 DEF Quiet, Released
<1>7. MarkInv'
  BY <1>1, <1>6 DEF MarkInv, JobInv
<1> QED BY <1>3, <1>4, <1>7 DEF IInv

(* Create writes a version in which nobody is listed.  In the first        *)
(* deployment no job has started yet.                                      *)
LEMMA CreatorStep ==
  ASSUME IInv, Creating, deployer.id # 0, job' = job,
         hist' = hist \/ Appended(NewDeploymentMeta(deployer.id)),
         deployer' \in DeployerRec, deployer'.pos <= Last, deployer'.id = deployer.id,
         deployer'.state # "idle",
         faults'.restarts = faults.restarts,
         faults' \in [restarts : 0..MaxRestarts, lost : 0..MaxLost]
  PROVE  IInv'
<1>1. Last \in Nat \ {0} /\ Last' \in Nat \ {0} /\ Last <= Last'
  BY LastType DEF Appended, IInv, Last
<1>2. \A k \in 1..Last' : \/ k \in 1..Last /\ hist'[k] = hist[k]
                          \/ \A a \in Addrs : hist'[k].states[a] = "none"
  <2>1. CASE hist' = hist
    BY <2>1 DEF Last
  <2>2. CASE Appended(NewDeploymentMeta(deployer.id))
    BY <1>1, <2>2 DEF Appended, NewDeploymentMeta
  <2> QED BY <2>1, <2>2
<1>3. hist' \in Seq(DeploymentMeta)
  BY DEF Appended, IInv, TypeOK
<1>4. \A a \in Addrs : job[a].pos <= Last'
  <2>1. \A a \in Addrs : job[a].pos \in Nat /\ job[a].pos <= Last
    BY DEF IInv, TypeOK, JobRec
  <2> QED BY <1>1, <2>1
<1>5. deployer'.pos <= Last'
  BY <1>1 DEF DeployerRec
<1>6. TypeOK'
  BY <1>1, <1>3, <1>4, <1>5 DEF IInv, TypeOK
<1>7. OneMarked'
  BY <1>2 DEF IInv, OneMarked
<1>8. ASSUME Quiet' PROVE \A a \in Addrs : job'[a].state = "new" /\ JobInv(a)'
  <2>1. Quiet
    BY <1>8 DEF Quiet
  <2>2. \A a \in Addrs : job[a].state = "new" /\ JobInv(a)
    BY <2>1 DEF IInv, MarkInv
  <2>3. ~Released
    BY DEF Creating, Released
  <2> QED BY <1>2, <2>2, <2>3 DEF JobInv
<1>9. MarkInv' /\ IdleInv'
  BY <1>8 DEF MarkInv, IdleInv
<1> QED BY <1>6, <1>7, <1>9 DEF IInv

LEMMA NewMeta ==
  ASSUME IInv PROVE NewDeploymentMeta(deployer.id) \in DeploymentMeta
<1>1. deployer.id \in 0..MaxCreates
  BY DEF IInv, TypeOK, DeployerRec
<1> QED BY <1>1 DEF NewDeploymentMeta, DeploymentMeta, DeploymentState

LEMMA CreateFirstInv == ASSUME IInv, CreateFirst PROVE IInv'
<1>1. PICK ok \in BOOLEAN :
        /\ set(1, NewDeploymentMeta(deployer.id), ok)
        /\ deployer' = [deployer EXCEPT !.state = IF ok THEN "waiting" ELSE "replacing"]
  BY DEF CreateFirst
<1>2. deployer.state = "creating" /\ job' = job
  BY DEF CreateFirst
<1>3. /\ hist' = hist \/ Appended(NewDeploymentMeta(deployer.id))
      /\ faults' \in [restarts : 0..MaxRestarts, lost : 0..MaxLost]
      /\ faults'.restarts = faults.restarts
  BY <1>1, NewMeta, SetStep DEF IInv
<1>4. /\ deployer' \in DeployerRec /\ deployer'.pos <= Last /\ deployer'.id = deployer.id
      /\ deployer'.state # "idle"
  BY <1>1 DEF IInv, TypeOK, DeployerRec
<1>5. Creating /\ deployer.id # 0
  BY <1>2 DEF Creating, IInv, IdleInv
<1> QED BY <1>2, <1>3, <1>4, <1>5, CreatorStep

LEMMA CreateInv == ASSUME IInv, Create PROVE IInv'
<1>1. PICK p \in update(deployer.pos), ok \in BOOLEAN :
        \/ deployer' = [deployer EXCEPT !.state = "panic"] /\ UNCHANGED <<hist, faults>>
        \/ /\ set(p, NewDeploymentMeta(deployer.id), ok)
           /\ deployer' = [deployer EXCEPT
                !.state = IF ok THEN "waiting" ELSE "creating", !.pos = p]
  BY DEF Create
<1>2. deployer.state = "replacing" /\ job' = job
  BY DEF Create
<1>3. p \in Nat \ {0} /\ p <= Last
  <2>1. deployer.pos \in Nat \ {0} /\ deployer.pos <= Last
    BY DEF IInv, TypeOK, DeployerRec
  <2> QED BY <1>1, <2>1, UpdateBounds DEF IInv
<1>4. /\ hist' = hist \/ Appended(NewDeploymentMeta(deployer.id))
      /\ faults' \in [restarts : 0..MaxRestarts, lost : 0..MaxLost]
      /\ faults'.restarts = faults.restarts
  BY <1>1, NewMeta, SetStep DEF IInv, TypeOK
<1>5. /\ deployer' \in DeployerRec /\ deployer'.pos <= Last /\ deployer'.id = deployer.id
      /\ deployer'.state # "idle"
  BY <1>1, <1>3 DEF IInv, TypeOK, DeployerRec
<1>6. Creating /\ deployer.id # 0
  BY <1>2 DEF Creating, IInv, IdleInv
<1> QED BY <1>2, <1>4, <1>5, <1>6, CreatorStep

-----------------------------------------------------------------------------
LEMMA NextInv == IInv /\ [Next]_vars => IInv'
<1> SUFFICES ASSUME IInv, [Next]_vars PROVE IInv'
  OBVIOUS
<1>1. CASE UNCHANGED vars
  BY <1>1 DEF vars, IInv, TypeOK, OneMarked, MarkInv, JobInv, IdleInv, Quiet, Creating,
     Released, Last
<1>2. ASSUME NEW a \in Addrs,
             \/ NewDeployment(a) \/ MarkPerformingKnown(a) \/ MarkPerformingWait(a)
             \/ MarkPerforming(a) \/ TakeOver(a) \/ MarkDone(a) \/ Restart(a)
      PROVE  IInv'
  BY <1>2, NewDeploymentInv, MarkPerformingKnownInv, MarkPerformingWaitInv,
     MarkPerformingInv, TakeOverInv, MarkDoneInv, RestartInv
<1>3. CASE NewDeployer \/ CreateFirst \/ Create \/ Wait \/ NextRelease
  BY <1>3, NewDeployerInv, CreateFirstInv, CreateInv, WaitInv, NextReleaseInv
<1> QED BY <1>1, <1>2, <1>3 DEF Next

(* The inductive invariant holds: the metadata of set is a chain of        *)
(* versions, and a job that performs is the one its version marks.         *)
THEOREM IInvHolds == Spec => []IInv
BY InitInv, NextInv, PTL DEF Spec

(* The versions, the jobs and the deployer of deployment.go have their     *)
(* types, and positions never pass the end of the history.                 *)
THEOREM DeploymentTypes == Spec => []TypeOK
BY IInvHolds, PTL DEF IInv

(* MarkPerforming keeps the promise of its comment: whatever versions jobs *)
(* decide on, the metadata never has two addresses performing.             *)
THEOREM DeploymentMarks == Spec => []OneMarked
BY IInvHolds, PTL DEF IInv

(* In the first deployment, without restarted jobs, at most one job is     *)
(* between MarkPerforming and the end of its takeover.                     *)
THEOREM DeploymentMutex == Spec => []OnePerforming
<1>1. IInv => OnePerforming
  BY LastType DEF IInv, MarkInv, JobInv, OneMarked, OnePerforming, Quiet
<1> QED BY <1>1, IInvHolds, PTL
=============================================================================
