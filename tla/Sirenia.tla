------------------------------ MODULE Sirenia ------------------------------
(***************************************************************************)
(* The Sirenia cluster state machine (pkg/sirenia/state/state.go): every   *)
(* database peer runs one Peer, a single-threaded event loop that watches  *)
(* discoverd for the cluster state (the service metadata) and for the list *)
(* of registered instances, decides its role and, when it is the primary   *)
(* or the synchronous replica, writes a new cluster state with a           *)
(* compare-and-swap on the metadata index.                                 *)
(*                                                                         *)
(* discoverd is external to this module.  It is represented by the history *)
(* of the metadata values it accepted and the history of its instance      *)
(* lists.  A peer receives the events in the order of discoverd's log,     *)
(* after any delay; when its watch reconnects, the instance list may also  *)
(* be ahead of or behind the metadata.  A put may fail, and may fail after *)
(* it was applied.                                                         *)
(*                                                                         *)
(* One invocation of evalClusterState is one action; where the code calls  *)
(* evalClusterState again from inside (assumePrimary, assumeSync) the peer *)
(* stays at pc = "eval" and can do nothing else before the nested call.    *)
(* Handling a discoverd event only updates the struct and asks for an      *)
(* evaluation, and Run drains the events before it evaluates, so the       *)
(* events handled since the last evaluation are part of the next one.      *)
(***************************************************************************)
EXTENDS Integers, Sequences, Subsequences

CONSTANTS
  Peers,           \* appliance identities (POSTGRES_ID, kept in the data volume)
  WALs,            \* transaction log positions, a set of naturals with 0
  SingletonModes,  \* values the SINGLETON variable may have when a job starts
  Reconnects,      \* may the watch reconnect, also to a server that lags behind?
  Lingering,       \* may a job restart before its old instance has expired?
  MaxInc,          \* bound: jobs started per identity
  MaxIndex,        \* bound: metadata writes
  MaxReg,          \* bound: changes of the instance list
  MaxFaults,       \* bound: stops, crashes and partitions of peers
  MaxLosses        \* bound: metadata writes whose request or answer is lost

ASSUME PeersAssumption == "none" \notin Peers
ASSUME WALsAssumption == WALs \subseteq Nat /\ 0 \in WALs
ASSUME ModesAssumption == 
  SingletonModes \subseteq BOOLEAN /\ {Reconnects, Lingering} \subseteq BOOLEAN
ASSUME BoundsAssumption ==
  /\ MaxInc \in Nat /\ MaxIndex \in Nat /\ MaxReg \in Nat
  /\ MaxFaults \in Nat /\ MaxLosses \in Nat

VARIABLES
  meta,      \* meta[i]: the cluster state accepted as the i-th metadata write
  registry,  \* registry[i]: the i-th instance list, oldest registration first
  stamp,     \* stamp[i]: the metadata writes accepted before that list
  peer,      \* the Peer struct of every identity
  faults,    \* stops, crashes and partitions so far
  losses     \* lost requests and answers so far

vars == <<meta, registry, stamp, peer, faults, losses>>

-----------------------------------------------------------------------------
(* Data.  A discoverd.Instance is the identity in its Meta and the address *)
(* of the job, which only the incarnation number tells apart.              *)

Instance == [id : Peers, inc : 1..MaxInc]
NoInst == [id |-> "none", inc |-> 0]
OptInstance == Instance \cup {NoInst}

(* State; Freeze is reduced to whether it is set. *)
ClusterState ==
  [gen : Nat \ {0}, freeze : BOOLEAN, singleton : BOOLEAN, initWAL : WALs,
   primary : Instance, sync : OptInstance,
   async : Seq(Instance), deposed : Seq(Instance)]
NoState == [gen |-> 0]

Config == [role : {"primary", "sync", "async", "none"},
           upstream : OptInstance, downstream : OptInstance]
NoConfig == [role |-> "unapplied"]

Role == {"unknown", "primary", "sync", "async", "unassigned", "deposed"}

(* The panics of state.go: an update while updatingState is set, a role    *)
(* that cannot be evaluated, the peer's own identity where another one is  *)
(* expected, SINGLETON set in a cluster in normal mode, and a takeover     *)
(* that does not depose the old primary.                                   *)
PanicReason == {"updating", "role", "self", "mode", "undeposed"}

(* Peer.  "view" is the position of Info().Peers in the registry history   *)
(* (0 for nil), "updating" tells whether updatingState is non-nil,         *)
(* "evalCh" whether evalStateCh holds a token and "evalTimer" whether a    *)
(* time.AfterFunc of evalLater is pending.                                 *)
PeerState ==
  [pc : {"down", "run", "eval"} \cup PanicReason, inc : 0..MaxInc,
   singleton : BOOLEAN,
   role : Role, gen : Nat, state : ClusterState \cup {NoState},
   stateIndex : Nat, view : Nat, updating : BOOLEAN,
   upstream : OptInstance, downstream : OptInstance,
   evalCh : BOOLEAN, evalTimer : BOOLEAN,
   applied : Config \cup {NoConfig}]

(* NewPeer, after the database's Ready event: NewProcess buffers one that  *)
(* says neither online nor set up, and it is the first event Run takes.    *)
NewPeer(pc, inc, singleton) ==
  [pc |-> pc, inc |-> inc, singleton |-> singleton,
   role |-> "unknown", gen |-> 0, state |-> NoState,
   stateIndex |-> 0, view |-> 0, updating |-> FALSE,
   upstream |-> NoInst, downstream |-> NoInst,
   evalCh |-> FALSE, evalTimer |-> FALSE, applied |-> NoConfig]

(* The database runs when the last applied configuration has a role. *)
online(l) == l.applied.role \in {"primary", "sync", "async"}

self(p) == [id |-> p, inc |-> peer[p].inc]
Alive(p) == peer[p].pc \in {"run", "eval"}

(* The identities in a list of instances. *)
Identities(insts) == {insts[k].id : k \in DOMAIN insts}
Listed(id, insts) == id \in Identities(insts)

(* Info().Peers and peerIsPresent, without its panic. *)
peersOf(l) == registry[l.view]
peerIsPresent(l, id) == Listed(id, peersOf(l))

(* The position of an identity in the async list, whichAsync's -1 being 0. *)
whichAsync(id, s) ==
  IF Listed(id, s.async)
  THEN CHOOSE k \in DOMAIN s.async :
         s.async[k].id = id /\ \A j \in 1..(k - 1) : s.async[j].id # id
  ELSE 0
lookupUpstream(s, k) == IF k = 1 THEN s.sync ELSE s.async[k - 1]
lookupDownstream(s, k) == IF k = Len(s.async) THEN NoInst ELSE s.async[k + 1]

-----------------------------------------------------------------------------
(* Local steps of a Peer, as functions of its struct. *)

Panicked(l, why) == [l EXCEPT !.pc = why]

assumeUnassigned(l) ==
  [l EXCEPT !.role = "unassigned", !.upstream = NoInst, !.downstream = NoInst]

assumeDeposed(l) ==
  [l EXCEPT !.role = "deposed", !.upstream = NoInst, !.downstream = NoInst]

assumePrimary_OldSync(l) ==
  [l EXCEPT !.role = "primary", !.upstream = NoInst, !.pc = "eval"]
assumePrimary(l) ==
  [l EXCEPT !.role = "primary", !.upstream = NoInst,
            !.downstream = l.state.sync, !.pc = "eval"]

assumeSync(l) ==
  IF l.singleton
  THEN Panicked(l, "mode")
  ELSE [l EXCEPT !.role = "sync", !.upstream = l.state.primary,
                 !.downstream = IF l.state.async # <<>>
                                THEN l.state.async[1] ELSE @,
                 !.pc = "eval"]

assumeAsync(l, k) ==
  IF l.singleton
  THEN Panicked(l, "mode")
  ELSE [l EXCEPT !.role = "async", !.upstream = lookupUpstream(l.state, k),
                 !.downstream = lookupDownstream(l.state, k)]

canSingletonTakeover(p, l) ==
  /\ l.singleton /\ l.state.singleton /\ l.state.freeze
  /\ l.state.primary.id # p
  /\ ~peerIsPresent(l, l.state.primary.id)

(* The role the cluster state gives to p when p is neither its primary nor *)
(* about to claim a singleton cluster: the rest of evalInitClusterState.   *)
assumeListedRole(p, l) ==
  LET s == l.state  k == whichAsync(p, s) IN
  CASE s.singleton -> assumeUnassigned(l)
    [] ~s.singleton /\ s.sync.id = p -> assumeSync(l)
    [] ~s.singleton /\ s.sync.id # p /\ Listed(p, s.deposed) -> assumeDeposed(l)
    [] ~s.singleton /\ s.sync.id # p /\ ~Listed(p, s.deposed) /\ k # 0 ->
         assumeAsync(l, k)
    [] OTHER -> assumeUnassigned(l)

(* Config *)
DesiredConfig(l) ==
  IF l.role \in {"primary", "sync", "async"}
  THEN [role |-> l.role, upstream |-> l.upstream, downstream |-> l.downstream]
  ELSE [role |-> "none", upstream |-> NoInst, downstream |-> NoInst]

-----------------------------------------------------------------------------
(* Steps that do not touch discoverd. *)

Become(p, l) ==
  /\ peer' = [peer EXCEPT ![p] = l]
  /\ UNCHANGED <<meta, registry, stamp, faults, losses>>

Fault == faults < MaxFaults /\ faults' = faults + 1

(* Mutant: a write that does not carry the index of the state it replaces. *)
putClusterState_NoIndex(p, s, ok, err) ==
  /\ Len(meta) < MaxIndex
  /\ meta' = Append(meta, s)
  /\ peer' = [peer EXCEPT ![p] = [ok EXCEPT !.stateIndex = Len(meta) + 1]]
  /\ UNCHANGED <<registry, stamp, faults, losses>>

(* putClusterState: SetState with the index of the last state seen.  The   *)
(* metadata write is accepted only when that index is the current one.     *)
(* "ok" and "err" are the struct after a nil and after a non-nil error.    *)
putClusterState(p, s, ok, err) ==
  LET current == ok.stateIndex = Len(meta)
      Accept == Len(meta) < MaxIndex /\ meta' = Append(meta, s)
      Lose == losses < MaxLosses /\ losses' = losses + 1
      Succeed == peer' = [peer EXCEPT ![p] = [ok EXCEPT !.stateIndex = Len(meta) + 1]]
      Fail == peer' = [peer EXCEPT ![p] = err]
  IN /\ \/ current /\ Accept /\ Succeed /\ UNCHANGED losses
        \/ ~current /\ Fail /\ UNCHANGED <<meta, losses>>  \* the index has moved on
        \/ current /\ Lose /\ Fail /\ UNCHANGED meta       \* the request is lost
        \/ current /\ Accept /\ Lose /\ Fail               \* the answer is lost
     /\ UNCHANGED <<registry, stamp, faults>>

-----------------------------------------------------------------------------
(* The writes of the cluster state.  "l" is the struct at the call; the    *)
(* caller has already left evalClusterState (pc = "run").                  *)

startInitialSetup(p, l) ==
  LET insts == peersOf(l)
      s == [gen |-> 1, freeze |-> l.singleton, singleton |-> l.singleton,
            initWAL |-> 0, primary |-> self(p),
            sync |-> IF l.singleton THEN NoInst ELSE insts[2],
            async |-> IF l.singleton THEN <<>> ELSE SubSeq(insts, 3, Len(insts)),
            deposed |-> <<>>]
  IN IF l.updating
     THEN Become(p, Panicked(l, "updating"))
     ELSE putClusterState(p, s,
            [l EXCEPT !.state = s, !.evalCh = TRUE],
            [l EXCEPT !.updating = TRUE, !.evalTimer = TRUE])

(* Mutant: the claim does not declare a new generation. *)
startSingletonTakeover_SameGeneration(p, l) ==
  LET s == [l.state EXCEPT !.primary = self(p)] IN
  putClusterState(p, s,
    [l EXCEPT !.state = s, !.evalCh = TRUE], [l EXCEPT !.evalTimer = TRUE])

startSingletonTakeover(p, l) ==
  LET s == [gen |-> l.state.gen + 1, freeze |-> TRUE, singleton |-> TRUE,
            initWAL |-> 0, primary |-> self(p), sync |-> NoInst,
            async |-> <<>>, deposed |-> <<>>]
  IN IF l.updating
     THEN Become(p, Panicked(l, "updating"))
     ELSE putClusterState(p, s,
            [l EXCEPT !.state = s, !.evalCh = TRUE],
            [l EXCEPT !.evalTimer = TRUE])

(* Declares a new generation; "wal" is what XLogPosition returns.  (Its    *)
(* error is handled like a position that is too low.)                      *)
startTakeoverWithPeer(p, l, minWAL, wal, sync, async, deposed) ==
  LET s == [gen |-> l.state.gen + 1, freeze |-> FALSE, singleton |-> FALSE,
            initWAL |-> wal, primary |-> self(p), sync |-> sync,
            async |-> async, deposed |-> deposed]
      undeposed == l.state.primary.id # p /\ deposed = <<>>
  IN \/ /\ l.updating \/ undeposed
        /\ Become(p, Panicked(l, IF l.updating THEN "updating" ELSE "undeposed"))
     \/ /\ ~l.updating /\ ~undeposed
        /\ \/ l.state.freeze /\ Become(p, l)
           \/ /\ ~l.state.freeze /\ ~online(l)
              /\ Become(p, [l EXCEPT !.evalCh = TRUE])
           \/ /\ ~l.state.freeze /\ online(l) /\ wal < minWAL
              /\ Become(p, [l EXCEPT !.evalTimer = TRUE])
           \/ /\ ~l.state.freeze /\ online(l) /\ wal >= minWAL
              /\ putClusterState(p, s,
                   assumePrimary([l EXCEPT !.state = s, !.gen = s.gen]),
                   [l EXCEPT !.evalTimer = TRUE])

(* The instances of a list that are, are not present to the peer. *)
PresentOf(insts, l) ==
  Subsequence(insts, {k \in DOMAIN insts : peerIsPresent(l, insts[k].id)})
AbsentOf(insts, l) ==
  Subsequence(insts, {k \in DOMAIN insts : ~peerIsPresent(l, insts[k].id)})

(* The instances of a list with other identities than some given ones. *)
Others(insts, ids) ==
  Subsequence(insts, {k \in DOMAIN insts : insts[k].id \notin ids})

(* Mutant: the sync takes over without having caught up. *)
startTakeover_AnyWAL(p, l, wal) ==
  LET present == PresentOf(l.state.async, l) IN
  startTakeoverWithPeer(p, l, 0, wal, present[1], Tail(present),
    IF l.state.primary.id = p THEN l.state.deposed
    ELSE Append(l.state.deposed, l.state.primary))

(* startTakeover, for a caller that has found a present async peer; the    *)
(* panic of peerIsPresent on an async list that names the peer itself.     *)
startTakeover(p, l, wal) ==
  LET s == l.state
      present == PresentOf(s.async, l)
      sync == present[1]
  IN IF Listed(p, s.async)
     THEN Become(p, Panicked(l, "self"))
     ELSE startTakeoverWithPeer(p, l, s.initWAL, wal, sync,
            Others(present, {sync.id}),
            IF s.primary.id = p THEN s.deposed ELSE Append(s.deposed, s.primary))

(* Takes the last listed other peer as the sync. *)
startTransitionToNormalMode(p, l, wal) ==
  LET others == Others(peersOf(l), {p})
      sync == others[Len(others)]
      primary == l.state.primary.id = p
  IN \/ /\ primary /\ others # <<>>
        /\ startTakeoverWithPeer(p, l, 0, wal, sync, Others(others, {sync.id}), <<>>)
     \/ /\ ~primary \/ others = <<>>
        /\ Become(p, IF primary THEN l ELSE Panicked(l, "role"))

(* Mutant: a deposed peer that is re-added is not marked as listed. *)
newAsync_DeposedTwice(l) ==
  LET s == l.state  kept == PresentOf(s.async, l) IN
  kept \o PresentOf(s.deposed, l)
    \o Others(peersOf(l), {s.primary.id, s.sync.id} \cup Identities(kept))

(* The async list of the primary's housekeeping: the asyncs still present, *)
(* the deposed peers that came back, then the peers nobody lists.          *)
newAsync(l) ==
  LET s == l.state
      kept == PresentOf(s.async, l) \o PresentOf(s.deposed, l)
  IN kept \o Others(peersOf(l), {s.primary.id, s.sync.id} \cup Identities(kept))

startUpdateAsyncs(p, l) ==
  LET s == [l.state EXCEPT !.async = newAsync(l),
                           !.deposed = AbsentOf(l.state.deposed, l),
                           !.freeze = FALSE, !.singleton = FALSE]
      after == [l EXCEPT !.evalCh = TRUE]
  IN IF l.updating
     THEN Become(p, Panicked(l, "updating"))
     ELSE putClusterState(p, s, [after EXCEPT !.state = s], after)

-----------------------------------------------------------------------------
(* What the peer has received when it evaluates. *)

(* decodeState accepts only a state with a higher index than the last. *)
decodeState(l, j) ==
  IF j > l.stateIndex
  THEN [l EXCEPT !.stateIndex = j, !.state = meta[j]] ELSE l

handleDiscoverdInit(l, i, j) ==
  [decodeState(l, j) EXCEPT !.view = i, !.evalCh = TRUE]

handleDiscoverdState(l, j) ==
  IF j > l.stateIndex
  THEN [decodeState(l, j) EXCEPT !.evalCh = TRUE] ELSE l

(* Every element of the history differs from the one before. *)
handleDiscoverdPeers(l, i) ==
  IF i # l.view
  THEN [l EXCEPT !.view = i, !.evalCh = TRUE] ELSE l

(* The positions of the two histories at some moment. *)
Moments ==
  {m \in (1..Len(registry)) \X (0..Len(meta)) :
     /\ stamp[m[1]] <= m[2]
     /\ m[1] < Len(registry) => m[2] <= stamp[m[1] + 1]}

(* The structs a running peer may have after the events that reached it. *)
Received(p) ==
  LET l == peer[p]
      positions ==
        IF Reconnects THEN (1..Len(registry)) \X (0..Len(meta))
        ELSE {m \in Moments : m[1] >= l.view}
  IN IF l.view = 0
     THEN {handleDiscoverdInit(l, m[1], m[2]) : m \in Moments}
     ELSE {handleDiscoverdState(handleDiscoverdPeers(l, m[1]), m[2]) :
             m \in positions}

(* The structs with which a peer may be inside evalClusterState, by a      *)
(* nested call or by the token of evalStateCh.                             *)
Evaluating(p) ==
  IF peer[p].pc = "eval"
  THEN {peer[p]}
  ELSE {[l EXCEPT !.evalCh = FALSE, !.pc = "eval"] :
          l \in {m \in Received(p) : m.pc = "run" /\ m.evalCh}}

Return(l) == [l EXCEPT !.pc = "run"]

-----------------------------------------------------------------------------
(* evalClusterState with struct l, one action per branch of its cascade. *)

EvalNoState(p, l) ==
  LET insts == peersOf(l)
      canSetup == insts[1].id = p /\ (l.singleton \/ Len(insts) > 1)
  IN /\ l.state = NoState
     /\ \/ insts = <<>> /\ Become(p, Return(l))
        \/ insts # <<>> /\ canSetup /\ startInitialSetup(p, Return(l))
        \/ /\ insts # <<>> /\ ~canSetup
           /\ Become(p, IF l.role = "unassigned" THEN Return(l)
                        ELSE assumeUnassigned(Return(l)))

EvalSingletonInNormalMode(p, l) ==
  /\ l.state # NoState /\ l.singleton /\ ~l.state.singleton
  /\ Become(p, Panicked(l, "mode"))

(* Past the checks above: there is a cluster state we can work with. *)
Usable(l) == l.state # NoState /\ (l.singleton => l.state.singleton)

evalInitClusterState(p, l) ==
  \/ l.state.primary.id = p /\ Become(p, assumePrimary(l))
  \/ canSingletonTakeover(p, l) /\ startSingletonTakeover(p, l)
  \/ /\ l.state.primary.id # p /\ ~canSingletonTakeover(p, l)
     /\ Become(p, assumeListedRole(p, l))

EvalNewGeneration_Stays(p, l) ==
  LET new == [Return(l) EXCEPT !.gen = l.state.gen] IN
  /\ Usable(l) /\ l.gen # l.state.gen
  /\ \/ l.role = "primary"
        /\ Become(p, IF l.state.singleton THEN assumeDeposed(new) ELSE new)
     \/ l.role # "primary" /\ evalInitClusterState(p, new)
EvalNewGeneration(p, l) ==
  LET new == [Return(l) EXCEPT !.gen = l.state.gen] IN
  /\ Usable(l) /\ l.gen # l.state.gen
  /\ \/ /\ l.role = "primary"
        /\ Become(p, IF l.state.primary.id = p THEN new ELSE assumeDeposed(new))
     \/ l.role # "primary" /\ evalInitClusterState(p, new)

(* Past the generation check, with the given role. *)
InRole(l, role) == Usable(l) /\ l.gen = l.state.gen /\ l.role = role

EvalUnassigned(p, l) ==
  LET k == whichAsync(p, l.state) IN
  /\ InRole(l, "unassigned")
  /\ \/ k # 0 /\ Become(p, assumeAsync(Return(l), k))
     \/ k = 0 /\ canSingletonTakeover(p, l) /\ startSingletonTakeover(p, Return(l))
     \/ k = 0 /\ ~canSingletonTakeover(p, l) /\ Become(p, Return(l))

EvalAsync(p, l) ==
  LET k == whichAsync(p, l.state)
      down == lookupDownstream(l.state, k)
      moved == \/ lookupUpstream(l.state, k).id # l.upstream.id
               \/ down # NoInst /\ down.id # l.downstream.id
  IN /\ InRole(l, "async")
     /\ \/ k = 0 /\ Become(p, assumeUnassigned(Return(l)))
        \/ k # 0 /\ moved /\ Become(p, assumeAsync(Return(l), k))
        \/ k # 0 /\ ~moved /\ Become(p, Return(l))

EvalSync(p, l, wal) ==
  LET s == l.state
      moved == s.async # <<>> /\ s.async[1].id # l.downstream.id
      primaryGone == ~peerIsPresent(l, s.primary.id)
      nobody == PresentOf(s.async, l) = <<>> /\ ~Listed(p, s.async)
  IN /\ InRole(l, "sync")
     /\ \/ primaryGone /\ ~nobody /\ startTakeover(p, Return(l), wal)
        \/ primaryGone /\ nobody /\ Become(p, Return(l))
        \/ ~primaryGone /\ moved /\ Become(p, assumeSync(l))
        \/ ~primaryGone /\ ~moved /\ Become(p, Return(l))

EvalDeposed(p, l) ==
  /\ InRole(l, "deposed")
  /\ \/ Listed(p, l.state.deposed) /\ Become(p, Return(l))
     \/ ~Listed(p, l.state.deposed) /\ evalInitClusterState(p, Return(l))

EvalUnknownRole(p, l) == InRole(l, "unknown") /\ Become(p, Panicked(l, "role"))

(* A primary whose job was replaced records its new instance.  The struct  *)
(* written is the one Info().State points to, so it changes even when the  *)
(* put fails; evalClusterState then goes on.                               *)
EvalPrimaryInstance(p, l) ==
  LET s == [l.state EXCEPT !.primary = self(p)]
      after == [l EXCEPT !.state = s, !.updating = FALSE]
  IN /\ InRole(l, "primary")
     /\ l.state.primary.id = p /\ l.state.primary # self(p)
     /\ putClusterState(p, s, after, after)

(* The duties of the primary of a cluster in normal mode. *)
EvalPrimaryNormal(p, l, wal) ==
  LET s == l.state
      takeover == /\ ~peerIsPresent(l, s.sync.id)
                  /\ PresentOf(s.async, l) # <<>>
      changes == \/ newAsync(l) # s.async
                 \/ AbsentOf(s.deposed, l) # s.deposed
      mentioned == Listed(p, s.async \o s.deposed)
  IN \/ s.sync.id = p /\ Become(p, Panicked(l, "self"))
     \/ s.sync.id # p /\ takeover /\ startTakeover(p, l, wal)
     \/ /\ s.sync.id # p /\ ~takeover
        /\ \/ mentioned /\ Become(p, Panicked(l, "self"))
           \/ ~mentioned /\ changes /\ startUpdateAsyncs(p, l)
           \/ ~mentioned /\ ~changes /\ Become(p, l)

EvalPrimary(p, l, wal) ==
  LET s == l.state IN
  /\ InRole(l, "primary")
  /\ s.primary.id = p => s.primary = self(p)
  /\ \/ s.freeze /\ Become(p, Return(l))
     \/ /\ ~s.freeze /\ ~l.singleton /\ s.singleton
        /\ startTransitionToNormalMode(p, Return(l), wal)
     \/ ~s.freeze /\ l.singleton /\ Become(p, Return(l))
     \/ /\ ~s.freeze /\ ~l.singleton /\ ~s.singleton
        /\ EvalPrimaryNormal(p, Return(l), wal)

evalClusterState(p, l, wal) ==
  \/ EvalNoState(p, l)
  \/ EvalSingletonInNormalMode(p, l)
  \/ EvalNewGeneration(p, l)
  \/ EvalUnassigned(p, l)
  \/ EvalAsync(p, l)
  \/ EvalSync(p, l, wal)
  \/ EvalDeposed(p, l)
  \/ EvalUnknownRole(p, l)
  \/ EvalPrimaryInstance(p, l)
  \/ EvalPrimary(p, l, wal)

-----------------------------------------------------------------------------
(* The other cases of Run's select, and the timer. *)

Running(p) == peer[p].pc = "run"

(* Every change of the desired configuration triggers applyConfig and a    *)
(* failed attempt is repeated after a delay, so a token or a timer exists  *)
(* exactly while the desired configuration is not the applied one; a       *)
(* failed attempt changes nothing but the time of the next.  (The code     *)
(* also hands on an equal configuration whose State differs: the database  *)
(* ignores it.)                                                            *)
applyConfig(p) ==
  /\ Running(p) /\ peer[p].role # "unknown"
  /\ peer[p].applied # DesiredConfig(peer[p])
  /\ Become(p, [peer[p] EXCEPT !.applied = DesiredConfig(peer[p])])

(* Mutant: the timer's evaluation request is dropped. *)
triggerEval_Dropped(p) ==
  /\ Alive(p) /\ peer[p].evalTimer
  /\ Become(p, [peer[p] EXCEPT !.evalTimer = FALSE])

(* evalLater: the pending time.AfterFunc fires. *)
triggerEval(p) ==
  /\ Alive(p) /\ peer[p].evalTimer
  /\ Become(p, [peer[p] EXCEPT !.evalTimer = FALSE, !.evalCh = TRUE])

-----------------------------------------------------------------------------
(* The environment: jobs start, stop and crash; discoverd registers and    *)
(* expires instances.  External to state.go.                               *)

instances == registry[Len(registry)]

SetInstances(insts) ==
  /\ Len(registry) < MaxReg
  /\ registry' = Append(registry, insts)
  /\ stamp' = Append(stamp, Len(meta))

Unlisted(i, insts) == \A k \in DOMAIN insts : insts[k] # i
Without(insts, i) == Subsequence(insts, {k \in DOMAIN insts : insts[k] # i})

(* A job starts with the identity saved in its volume, registers its       *)
(* instance and runs the peer.                                             *)
StartPeer(p, singleton) ==
  LET inc == peer[p].inc + 1 IN
  /\ ~Alive(p) /\ inc <= MaxInc
  /\ Lingering \/ ~Listed(p, instances)
  /\ SetInstances(Append(instances, [id |-> p, inc |-> inc]))
  /\ peer' = [peer EXCEPT ![p] = NewPeer("run", inc, singleton)]
  /\ UNCHANGED <<meta, faults, losses>>

(* A clean exit unregisters the instance (shutdown.BeforeExit). *)
StopPeer(p) ==
  /\ Running(p) /\ ~Unlisted(self(p), instances) /\ Fault
  /\ SetInstances(Without(instances, self(p)))
  /\ peer' = [peer EXCEPT ![p] = NewPeer("down", @.inc, @.singleton)]
  /\ UNCHANGED <<meta, losses>>

CrashPeer(p) ==
  /\ Alive(p) /\ Fault
  /\ peer' = [peer EXCEPT ![p] = NewPeer("down", @.inc, @.singleton)]
  /\ UNCHANGED <<meta, registry, stamp, losses>>

(* The instance of a process that is gone expires. *)
ExpireDead(p) ==
  \E k \in DOMAIN instances : LET i == instances[k] IN
    /\ i.id = p /\ (~Alive(p) \/ i # self(p))
    /\ SetInstances(Without(instances, i))
    /\ UNCHANGED <<meta, peer, faults, losses>>

(* A live peer misses its heartbeats and expires, and registers again. *)
ExpireLive(p) ==
  /\ Alive(p) /\ ~Unlisted(self(p), instances) /\ Fault
  /\ SetInstances(Without(instances, self(p)))
  /\ UNCHANGED <<meta, peer, losses>>

Reregister(p) ==
  /\ Alive(p) /\ Unlisted(self(p), instances)
  /\ SetInstances(Append(instances, self(p)))
  /\ UNCHANGED <<meta, peer, faults, losses>>

(* An operator lifts the freeze of the cluster state. *)
Unfreeze ==
  /\ meta # <<>> /\ meta[Len(meta)].freeze /\ Len(meta) < MaxIndex
  /\ meta' = Append(meta, [meta[Len(meta)] EXCEPT !.freeze = FALSE])
  /\ UNCHANGED <<registry, stamp, peer, faults, losses>>

-----------------------------------------------------------------------------

Init ==
  /\ meta = <<>>
  /\ registry = << <<>> >> /\ stamp = <<0>>
  /\ peer = [p \in Peers |-> NewPeer("down", 0, FALSE)]
  /\ faults = 0 /\ losses = 0

Environment(p) ==
  \/ \E singleton \in SingletonModes : StartPeer(p, singleton)
  \/ StopPeer(p)
  \/ CrashPeer(p)
  \/ ExpireDead(p)
  \/ ExpireLive(p)
  \/ Reregister(p)

Next ==
  \/ \E p \in Peers :
       \/ \E l \in Evaluating(p), wal \in WALs : evalClusterState(p, l, wal)
       \/ applyConfig(p)
       \/ triggerEval(p)
       \/ Environment(p)
  \/ Unfreeze

Spec == Init /\ [][Next]_vars

-----------------------------------------------------------------------------

(* The cluster state in force. *)
Current == IF meta = <<>> THEN NoState ELSE meta[Len(meta)]

(* What discoverd holds are histories; every peer, running or not, has a   *)
(* record, and the faults stay within their bounds.                        *)
TypeOK ==
  /\ meta \in Seq(ClusterState)
  /\ registry \in Seq(Seq(Instance)) /\ registry # <<>>
  /\ stamp \in Seq(Nat)
  /\ peer \in [Peers -> PeerState]
  /\ faults \in 0..MaxFaults /\ losses \in 0..MaxLosses

(* The generation in force, as SireniaGenerations describes it. *)
GenerationOf(s) ==
  IF s = NoState
  THEN [gen |-> 0, primary |-> "none", sync |-> "none",
        initWAL |-> 0, singleton |-> FALSE]
  ELSE [gen |-> s.gen, primary |-> s.primary.id, sync |-> s.sync.id,
        initWAL |-> s.initWAL, singleton |-> s.singleton]
Generation == GenerationOf(Current)

Generations == INSTANCE SireniaGenerations WITH cluster <- Generation

(* Whatever the interleaving of stale views, lost answers, crashes and     *)
(* timers, the accepted cluster states form a chain of generations:        *)
(* putClusterState's index makes every decision one about the state it     *)
(* replaces.                                                               *)
ImplementsGenerations == Generations!Spec

(* The same for the steps of a cluster with a past: a peer that takes over *)
(* has replayed the log up to where the generation before it began.        *)
GenerationSteps == [][Generations!Next]_Generation

(* Two live peers never act as the primary of the same generation.         *)
OnePrimaryPerGeneration ==
  \A p, q \in Peers :
    /\ Alive(p) /\ peer[p].role = "primary"
    /\ Alive(q) /\ peer[q].role = "primary"
    /\ peer[p].gen = peer[q].gen
    => p = q

(* Why the generations form a chain.  A peer's copy of the cluster state   *)
(* is the metadata at its index (but for the primary's instance, which     *)
(* EvalPrimaryInstance changes in place), so a write accepted at that      *)
(* index is decided on the state it replaces; and a peer acts as primary   *)
(* or sync only of a generation whose state names it.                      *)
Chain(a, b) ==
  /\ a.gen <= b.gen
  /\ a.gen = b.gen => /\ a.primary.id = b.primary.id /\ a.sync = b.sync
                      /\ a.initWAL = b.initWAL /\ a.singleton = b.singleton

Copy(s, m) == s.primary.id = m.primary.id /\ s = [m EXCEPT !.primary = s.primary]

LocalInv(p, l, m, r) ==
  /\ l.view <= Len(r) /\ l.stateIndex <= Len(m)
  /\ l.pc = "eval" => l.view # 0
  /\ l.pc \in {"run", "eval"} => l.inc # 0
  /\ l.stateIndex = 0 => l.state = NoState
  /\ l.stateIndex # 0 => Copy(l.state, m[l.stateIndex])
  /\ l.role = "primary" =>
       \E i \in DOMAIN m : m[i].gen = l.gen /\ m[i].primary.id = p
  /\ l.role = "sync" =>
       /\ ~l.singleton
       /\ \E i \in DOMAIN m : m[i].gen = l.gen /\ m[i].sync.id = p

ChainInv ==
  /\ TypeOK
  /\ \A i, j \in DOMAIN meta : i <= j => Chain(meta[i], meta[j])
  /\ \A i \in DOMAIN meta : meta[i].singleton => meta[i].sync = NoInst
  /\ \A p \in Peers : LocalInv(p, peer[p], meta, registry)

(* All the members a cluster state names. *)
Members(s) ==
  <<s.primary>> \o (IF s.sync = NoInst THEN <<>> ELSE <<s.sync>>)
    \o s.async \o s.deposed

(* A list of instances that names no identity twice, and a discoverd that  *)
(* has never held another.                                                 *)
Once(insts) == \A j, k \in DOMAIN insts : insts[j].id = insts[k].id => j = k
ListedOnce == \A i \in DOMAIN registry : Once(registry[i])

(* If discoverd never lists an identity twice, no cluster state gives two  *)
(* roles to one identity, in spite of takeovers and rejoins decided on     *)
(* stale instance lists.                                                   *)
OneRoleEach == ListedOnce /\ meta # <<>> => Once(Members(Current))

(* "We should never even be asking whether we're present": peerIsPresent's *)
(* panic.                                                                  *)
NeverAsksForItself == \A p \in Peers : peer[p].pc # "self"

(* "If the generation has changed, then go back to square one": a primary  *)
(* that has handled a generation replicates to the sync of that            *)
(* generation.                                                             *)
PrimaryTargetsSync ==
  \A p \in Peers : LET l == peer[p] IN
    l.role = "primary" /\ l.gen = l.state.gen /\ l.state.primary.id = p
      => l.downstream.id = l.state.sync.id

(* So does a primary whose own job declared that generation, as long as no *)
(* answer of putClusterState is lost.  (A job that was restarted may first *)
(* read a state older than the last takeover of the job before it.)        *)
Declared(p) ==
  \A i \in DOMAIN meta : meta[i].gen = peer[p].gen => meta[i].primary = self(p)
TargetsSync ==
  losses = 0 => \A p \in Peers : LET l == peer[p] IN
    l.role = "primary" /\ l.gen = l.state.gen /\ Declared(p)
      => l.downstream = l.state.sync

(* "already have updating state": a write of the cluster state begins only *)
(* when the one before has been dealt with.                                *)
OneUpdateAtATime == \A p \in Peers : peer[p].pc # "updating"

(* "unexpected role": a peer that evaluates a generation it has seen has a *)
(* role in it.                                                             *)
RoleKnownWhenEvaluating == \A p \in Peers : peer[p].pc # "role"

-----------------------------------------------------------------------------
(* Liveness.  The event loop, the timers and the heartbeats keep running;  *)
(* discoverd expires what does not heartbeat.  Jobs need not be restarted. *)

Fairness ==
  \A p \in Peers :
    /\ WF_vars(\E l \in Evaluating(p), wal \in WALs : evalClusterState(p, l, wal))
    /\ WF_vars(applyConfig(p))
    /\ WF_vars(triggerEval(p))
    /\ WF_vars(ExpireDead(p))
    /\ WF_vars(Reregister(p))

FairSpec == Spec /\ Fairness

(* No primary is registered, but the sync and an async that could succeed  *)
(* it are running and registered.                                          *)
Headless ==
  /\ meta # <<>> /\ ~Current.singleton
  /\ ~Listed(Current.primary.id, instances)
  /\ Alive(Current.sync.id) /\ Listed(Current.sync.id, instances)
  /\ \E k \in DOMAIN Current.async : LET a == Current.async[k].id IN
       Alive(a) /\ Listed(a, instances)

(* Failover completes: the sync retries its takeover until the cluster has *)
(* a primary again, whatever was lost or stale on the way.                 *)
FailoverCompletes == Headless ~> ~Headless

(* The primary of a frozen singleton cluster is gone, and another peer     *)
(* configured for singleton mode is running and registered.                *)
Orphaned ==
  /\ meta # <<>> /\ Current.singleton /\ Current.freeze
  /\ ~Listed(Current.primary.id, instances)
  /\ \E p \in Peers : Alive(p) /\ peer[p].singleton /\ Listed(p, instances)

(* Such a peer claims the cluster in the end, or fails, whether it finds   *)
(* the primary gone when it starts or learns of it later, and although its *)
(* write may be lost: "otherwise it would sit unassigned forever".         *)
ClaimCompletes == Orphaned ~> ~Orphaned

(* The role a cluster state gives to an identity. *)
AssignedRole(p, s) ==
  CASE s.primary.id = p -> "primary"
    [] s.primary.id # p /\ s.sync.id = p -> "sync"
    [] Listed(p, s.async) -> "async"
    [] Listed(p, s.deposed) -> "deposed"
    [] OTHER -> "unassigned"

InAssignedRole(p) ==
  meta # <<>> /\ Running(p) => peer[p].role = AssignedRole(p, Current)

(* Deposed peers "pick up the new role instead of staying deposed          *)
(* forever": in the end every running peer has the role of the cluster     *)
(* state in force.                                                         *)
RolesSettle == <>[](\A p \in Peers : InAssignedRole(p))
=============================================================================
