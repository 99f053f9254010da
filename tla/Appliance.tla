----------------------------- MODULE Appliance ------------------------------
(***************************************************************************)
(* The database process of an appliance peer: Process of PostgreSQL,       *)
(* MariaDB and MongoDB, driven by Sirenia's applyConfig.  The peer's event *)
(* loop decides on a configuration, applyConfig hands it to Reconfigure    *)
(* and then starts or stops the database; waitForSync runs in a goroutine  *)
(* of its own and enables writes when the downstream has caught up.        *)
(*                                                                         *)
(* One call of Reconfigure, Start or Stop is one step: Process.mtx keeps   *)
(* the calls apart, and cancelSyncWait waits for the goroutine to end.     *)
(* Between the calls of one applyConfig the goroutine may move.  Left out: *)
(* a server that is not gone opTimeout after SIGKILL.                      *)
(***************************************************************************)
EXTENDS Integers, FiniteSets

CONSTANTS
  Kind,        \* "postgres", "mariadb" or "mongodb"
  Peers,       \* the other peers of the cluster
  Singleton,   \* the SINGLETON variable of the job
  Unrepaired,  \* may commands fail in a way that trying again does not repair:
               \* a restart half way, a new sync, a promotion that outlives pg_ctl?
  MaxChanges,  \* bounds: configurations the peer decides on
  MaxErrors,   \* commands that fail
  MaxExits,    \* unexpected exits of the database
  MaxStalls    \* replication that makes no progress for replTimeout

VARIABLES
  peer,   \* Sirenia's Peer: the configuration wanted and the one applied
  proc,   \* Process
  db,     \* the database server
  count   \* what has happened, for the bounds

vars == <<peer, proc, db, count>>

Roles == {"none", "async", "sync", "primary"}

(* state stands for the cluster state the configuration was taken from. *)
Config ==
  [role : Roles, up : Peers \cup {"nil"}, down : Peers \cup {"nil"}, state : 0..MaxChanges]
Nil == [role |-> "none", up |-> "nil", down |-> "nil", state |-> 0]

Equal(x, y) == x.role = y.role /\ x.up = y.up /\ x.down = y.down
IsNewDownstream(x, y) == x.up = y.up /\ y.down # "nil" /\ x.down # y.down

-----------------------------------------------------------------------------
NoWait == [inst |-> "none", writes |-> FALSE]
Off == [mode |-> "off", readOnly |-> TRUE, sync |-> "nil", members |-> 0]

(* The last two are history, for Serves: the server exited by itself; the  *)
(* goroutine that was to enable writes ended without doing so.             *)
NewProcess ==
  [running |-> FALSE, config |-> Nil, configApplied |-> FALSE, synced |-> "nil",
   wait |-> NoWait, exited |-> FALSE, gaveUp |-> FALSE]

NewPeer(want) ==
  [want |-> want, applied |-> Nil, online |-> FALSE, pc |-> "idle", config |-> Nil]

Init ==
  /\ peer = NewPeer(Nil) /\ proc = NewProcess /\ db = Off
  /\ count = [changes |-> 0, errors |-> 0, exits |-> 0, stalls |-> 0]

(* Outcomes of a command: what it returns and leaves behind. *)
Ok(p, d) == [res |-> "ok", proc |-> p, db |-> d]
Err(p, d) == [res |-> "err", proc |-> p, db |-> d]
Panic == [res |-> "panic", proc |-> proc, db |-> db]

(* waitForSync replaces the goroutine that waits for the downstream. *)
waitForSync(p, inst, writes) == [p EXCEPT !.wait = [inst |-> inst, writes |-> writes]]
waitForAny(p, inst, writes) == IF inst = "nil" THEN p ELSE waitForSync(p, inst, writes)

start(p) == [p EXCEPT !.running = TRUE, !.exited = FALSE]
stop(p) == [p EXCEPT !.running = FALSE, !.wait = NoWait]

-----------------------------------------------------------------------------
(* PostgreSQL.  A standby that runs is promoted and stays read-only until  *)
(* its downstream has caught up; a primary that starts with a downstream   *)
(* is read-only.  A new downstream makes a primary read-only again.        *)
updateSync_Wait(p, c) == {Ok(waitForSync(p, c.down, TRUE), db)}
updateSync(p, c) ==
  {Ok(waitForSync(p, c.down, TRUE), [db EXCEPT !.readOnly = TRUE, !.sync = c.down])}
  \cup (IF Unrepaired THEN {Err(p, db)} ELSE {})

promote(p, c) ==
  (IF db.mode = "primary" THEN {}
   ELSE {Ok(waitForSync(p, c.down, TRUE), [db EXCEPT !.mode = "primary"])})
  \cup {Err(p, db)}
  \cup (IF Unrepaired THEN {Err(p, [db EXCEPT !.mode = "primary"])} ELSE {})

PgPrimary(p, c) ==
  IF ~p.running
  THEN {Err(p, db), Ok(waitForAny(start(p), c.down, TRUE),
                       [Off EXCEPT !.mode = "primary", !.readOnly = c.down # "nil"])}
  ELSE IF p.config.role = "sync" THEN promote(p, c) ELSE {Panic}

(* A standby that runs is stopped and started again, one that does not     *)
(* pulls a base backup first.                                              *)
Restarted(p, c, writes) ==
  {Ok(waitForAny(start(p), c.down, writes), [Off EXCEPT !.mode = "standby"])}
  \cup (IF p.running
        THEN IF Unrepaired THEN {Err(stop(p), Off)} ELSE {}
        ELSE {Err(p, db)})

PgReconfigure(p, c) ==
  IF p.running /\ p.config.role = "primary" /\ c.role = "primary" THEN updateSync(p, c)
  ELSE IF p.running /\ IsNewDownstream(p.config, c) THEN {Ok(waitForSync(p, c.down, FALSE), db)}
  ELSE IF c.role = "primary" THEN PgPrimary(p, c)
  ELSE Restarted(p, c, FALSE)

-----------------------------------------------------------------------------
(* MariaDB.  Promotion only waits for the downstream; a primary with a new *)
(* downstream stays as it is.  A standby whose replication cannot be set   *)
(* up is left running.                                                     *)
MariaPrimary(p, c) ==
  IF ~p.running
  THEN {Err(p, db), Ok(waitForAny(start(p), c.down, TRUE),
                       [Off EXCEPT !.mode = "primary", !.readOnly = c.down # "nil"])}
  ELSE IF p.config.role = "sync" THEN {Ok(waitForSync(p, c.down, TRUE), db)} ELSE {Panic}

MariaStandby(p, c) ==
  Restarted(p, c, FALSE)
    \cup (IF Unrepaired THEN {Err(start(p), [Off EXCEPT !.mode = "standby"])} ELSE {})

MariaReconfigure(p, c) ==
  IF p.running /\ IsNewDownstream(p.config, c)
  THEN {Ok(waitForSync(p, c.down, c.role = "primary"), db)}
  ELSE IF c.role = "primary" THEN MariaPrimary(p, c)
  ELSE MariaStandby(p, c)

-----------------------------------------------------------------------------
(* MongoDB.  The primary writes the members of the cluster state to the    *)
(* replica set, which elects the member with a priority; a standby that    *)
(* runs stays as it is.                                                    *)
MongoPrimary(p, c) ==
  LET d == [Off EXCEPT !.mode = "primary", !.readOnly = FALSE, !.members = c.state] IN
  IF ~p.running
  THEN {Err(p, db), Ok(waitForAny(start(p), c.down, FALSE), d)}
  ELSE IF c.down = "nil" THEN {Err(p, db), Panic}
  ELSE {Err(p, db), Ok(waitForSync(p, c.down, FALSE), d)}

MongoStandby(p, c) ==
  (IF p.running THEN {} ELSE {Err(p, db)})
    \cup {Ok(waitForAny(start(p), c.down, FALSE),
             IF p.running THEN [db EXCEPT !.mode = "standby", !.readOnly = TRUE]
                          ELSE [Off EXCEPT !.mode = "standby"])}

MongoReconfigure(p, c) ==
  IF c.role = "primary" THEN MongoPrimary(p, c) ELSE MongoStandby(p, c)

-----------------------------------------------------------------------------
(* reconfigure, with the cases in which there is nothing to do.  Start     *)
(* passes no configuration, so that it applies the one that was stored.    *)
AlreadyApplied_NoState(c) == proc.configApplied /\ Equal(c, proc.config)
AlreadyApplied(c) ==
  /\ proc.configApplied /\ Equal(c, proc.config)
  /\ Kind = "mongodb" => c.state = proc.config.state
BecomingSync(c) ==
  /\ proc.configApplied /\ proc.running
  /\ proc.config.role = "async" /\ c.role = "sync" /\ c.up = proc.config.up

Applied(o, c) ==
  IF o.res = "ok"
  THEN [o EXCEPT !.proc = [@ EXCEPT !.config = c, !.configApplied = TRUE]] ELSE o

(* Make sure that we don't keep waiting for replication sync while         *)
(* reconfiguring.                                                          *)
cancelSyncWait(p) == [p EXCEPT !.wait = NoWait, !.synced = "nil", !.gaveUp = FALSE]

Changed(c) ==
  LET p == cancelSyncWait(proc) IN
  CASE Kind = "postgres" -> PgReconfigure(p, c)
    [] Kind = "mariadb"  -> MariaReconfigure(p, c)
    [] Kind = "mongodb"  -> MongoReconfigure(p, c)

reconfigure(c, asked) ==
  {Applied(o, c) : o \in
     IF asked /\ (c.role = "none" \/ AlreadyApplied(c) \/ BecomingSync(c))
     THEN {Ok(proc, db)} ELSE Changed(c)}

Reconfigure(c) ==
  IF proc.running THEN reconfigure(c, TRUE)
  ELSE {Ok([proc EXCEPT !.config = c, !.configApplied = FALSE], db)}

Start == IF proc.running THEN {Err(proc, db)} ELSE reconfigure(proc.config, FALSE)
Stop == {Ok(IF proc.running THEN stop(proc) ELSE proc, Off)}

-----------------------------------------------------------------------------
(* The peer decides: evalClusterState changes the role by one step, and    *)
(* several decisions may pass before the next applyConfig.                 *)
NextRoles(r) ==
  CASE r = "none" -> Roles
    [] r = "async" -> {"async", "sync", "none"}
    [] r = "sync" -> {"sync", "primary", "none"}
    [] r = "primary" -> {"primary", "none"}

Configs(role, n) ==
  {c \in [role : {role}, up : Peers \cup {"nil"}, down : Peers \cup {"nil"}, state : {n}] :
     /\ role \in {"async", "sync"} <=> c.up # "nil"
     /\ role = "none" => c.down = "nil"
     /\ role = "primary" => (c.down = "nil") = Singleton
     /\ c.up # "nil" => c.up # c.down}

Decide ==
  /\ count.changes < MaxChanges
  /\ count' = [count EXCEPT !.changes = @ + 1]
  /\ \E role \in NextRoles(peer.want.role) :
       /\ Singleton => role \in {"none", "primary"}
       /\ \E c \in Configs(role, count.changes + 1) : peer' = [peer EXCEPT !.want = c]
  /\ UNCHANGED <<proc, db>>

(* A command of the peer's loop, with what follows when it succeeds.  An   *)
(* error is tried again after a second; a panic ends the job.              *)
Command(outcomes, next) ==
  \E o \in outcomes :
    /\ proc' = o.proc /\ db' = o.db
    /\ \/ o.res = "ok" /\ peer' = next /\ UNCHANGED count
       \/ /\ o.res = "err" /\ count.errors < MaxErrors
          /\ count' = [count EXCEPT !.errors = @ + 1]
          /\ peer' = [peer EXCEPT !.pc = "idle"]
       \/ o.res = "panic" /\ peer' = [peer EXCEPT !.pc = "panic"] /\ UNCHANGED count

Done(q, c) == [q EXCEPT !.applied = c, !.online = c.role # "none", !.pc = "idle"]

applyConfig ==
  LET c == peer.want
      next == IF (c.role # "none") = peer.online THEN Done(peer, c)
              ELSE [peer EXCEPT !.pc = IF peer.online THEN "stop" ELSE "start", !.config = c]
  IN /\ peer.pc = "idle" /\ c # peer.applied
     /\ Command(Reconfigure(c), next)

applyStart == peer.pc = "start" /\ Command(Start, Done(peer, peer.config))
applyStop == peer.pc = "stop" /\ Command(Stop, Done(peer, peer.config))

(* The goroutine of waitForSync: the downstream has caught up and writes   *)
(* are enabled, or the configuration cannot be written or loaded, or the   *)
(* downstream makes no progress.  Nobody starts the goroutine again.       *)
Waiting == proc.wait # NoWait /\ proc.running /\ peer.pc # "panic"
Ended == [proc EXCEPT !.wait = NoWait, !.gaveUp = proc.wait.writes]

Caught ==
  /\ Waiting
  /\ proc' = [proc EXCEPT !.wait = NoWait, !.synced = proc.wait.inst]
  /\ db' = IF proc.wait.writes
           THEN [db EXCEPT !.readOnly = FALSE, !.mode = "primary", !.sync = proc.wait.inst]
           ELSE db
  /\ UNCHANGED <<peer, count>>

NotEnabled ==
  /\ Waiting /\ proc.wait.writes /\ count.errors < MaxErrors
  /\ count' = [count EXCEPT !.errors = @ + 1]
  /\ proc' = [Ended EXCEPT !.synced = proc.wait.inst]
  /\ UNCHANGED <<peer, db>>

GiveUp ==
  /\ Waiting /\ count.stalls < MaxStalls
  /\ count' = [count EXCEPT !.stalls = @ + 1]
  /\ proc' = Ended
  /\ UNCHANGED <<peer, db>>

(* The database exits by itself.  PostgreSQL's Process notes it, and a     *)
(* goroutine that still waits uses the connection it has lost; the others  *)
(* end the job.                                                            *)
Exit ==
  /\ proc.running /\ peer.pc # "panic" /\ count.exits < MaxExits
  /\ count' = [count EXCEPT !.exits = @ + 1]
  /\ db' = Off
  /\ IF Kind = "postgres" /\ proc.wait = NoWait
     THEN proc' = [proc EXCEPT !.running = FALSE, !.exited = TRUE] /\ UNCHANGED peer
     ELSE peer' = [peer EXCEPT !.pc = "panic"] /\ UNCHANGED proc

(* The scheduler starts the job again, and the peer finds its role. *)
Restart ==
  /\ peer.pc = "panic"
  /\ peer' = NewPeer(peer.want) /\ proc' = NewProcess /\ db' = Off
  /\ UNCHANGED count

Next ==
  \/ Decide \/ applyConfig \/ applyStart \/ applyStop
  \/ Caught \/ NotEnabled \/ GiveUp \/ Exit \/ Restart

Spec == Init /\ [][Next]_vars

(* The peer's loop and its timers run, downstreams catch up, and jobs are  *)
(* restarted.                                                              *)
Fairness ==
  /\ WF_vars(applyConfig \/ applyStart \/ applyStop) /\ WF_vars(Caught) /\ WF_vars(Restart)

-----------------------------------------------------------------------------
(* The peer, the process and the server have their types, and a goroutine  *)
(* that waits has a downstream to wait for.                                *)
TypeOK ==
  /\ peer.want \in Config /\ peer.applied \in Config /\ proc.config \in Config
  /\ peer.pc \in {"idle", "start", "stop", "panic"} /\ peer.online \in BOOLEAN
  /\ proc.synced \in Peers \cup {"nil"} /\ (proc.wait # NoWait => proc.wait.inst \in Peers)
  /\ db.mode \in {"off", "standby", "primary"} /\ db.sync \in Peers \cup {"nil"}
  /\ count.changes <= MaxChanges /\ count.errors <= MaxErrors

(* A PostgreSQL primary with a downstream accepts writes only when every   *)
(* commit waits for that downstream: no goroutine of an older              *)
(* configuration enables writes, and no reconfiguration leaves them        *)
(* enabled while the sync changes.                                         *)
SafeWrites ==
  Kind = "postgres" /\ ~Singleton /\ db.mode = "primary" /\ ~db.readOnly =>
    /\ db.sync # "nil"
    /\ proc.config.role = "primary" => db.sync = proc.config.down

(* A configuration that stays is served in the end: the database runs in   *)
(* the role, a primary accepts writes and has the replica set of its       *)
(* cluster state, and nothing runs without a role.  Not so after           *)
(* PostgreSQL has exited by itself, because the peer believes it online    *)
(* and nothing starts it; nor does a primary accept writes when the        *)
(* goroutine that was to enable them failed or waited for too long.        *)
Serving ==
  LET c == peer.want IN
  \/ proc.exited
  \/ /\ proc.running = (c.role # "none")
     /\ c.role \in {"async", "sync"} => db.mode = "standby"
     /\ c.role = "primary" /\ ~proc.gaveUp =>
          /\ db.mode = "primary" /\ ~db.readOnly
          /\ Kind = "postgres" => db.sync = c.down
          /\ Kind = "mongodb" => db.members = c.state
Serves == <>[]Serving
=============================================================================
