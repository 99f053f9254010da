--------------------------- MODULE SireniaProofs ---------------------------
(***************************************************************************)
(* The chain of generations, for every set of peers and all bounds: the    *)
(* types, the inductive invariant ChainInv, at most one primary per        *)
(* generation, and that Sirenia implements SireniaGenerations.             *)
(***************************************************************************)
EXTENDS Sirenia, FiniteSetTheorems, WellFoundedInduction, SequenceTheorems, TLAPS

-----------------------------------------------------------------------------
(* What Subsequence(s, K) returns: its type and its elements. *)

(* Every non-empty set of naturals has a smallest element. *)
LEMMA Smallest ==
  ASSUME NEW K \in SUBSET Nat, K # {}
  PROVE  \E k \in K : \A j \in K : k <= j
<1> DEFINE R == {ss \in Nat \X Nat : ss[1] < ss[2]}
<1>1. IsWellFoundedOn(R, Nat)
  BY NatLessThanWellFounded, Zenon DEF OpToRel
<1> HIDE DEF R
<1>2. PICK k \in K : \A j \in K : ~ (<<j, k>> \in R)
  BY <1>1, WFMin
<1>3. \A j \in K : ~ (j < k)
  BY <1>2 DEF R
<1> QED BY <1>3

(* The n-th smallest element of a finite set of naturals exists. *)
LEMMA NthElement ==
  ASSUME NEW K \in SUBSET Nat, IsFiniteSet(K), NEW n \in 1..Cardinality(K)
  PROVE  Nth(K, n) \in K /\ Rank(K, Nth(K, n)) = n
<1> DEFINE UpTo(k) == {j \in K : j <= k}
           Bad == {m \in 1..Cardinality(K) : \A k \in K : Rank(K, k) # m}
<1>1. Cardinality(K) \in Nat
  BY FS_CardinalityType
<1>2. SUFFICES Bad = {}
  BY Zenon DEF Nth
<1>3. SUFFICES ASSUME Bad # {} PROVE FALSE
  OBVIOUS
<1>4. Bad \in SUBSET Nat
  BY <1>1
<1>5. PICK m \in Bad : \A i \in Bad : m <= i
  BY <1>3, <1>4, Smallest
<1> HIDE DEF Bad
<1>6. PICK S \in SUBSET K : /\ Cardinality(S) = m - 1
                            /\ \A j \in K, i \in S : j <= i => j \in S
  <2>1. CASE m = 1
    <3>1. Cardinality({}) = m - 1
      BY <2>1, FS_EmptySet
    <3> QED BY <3>1
  <2>2. CASE m # 1
    <3>1. m - 1 \in 1..Cardinality(K) /\ m - 1 \notin Bad
      BY <1>1, <1>4, <1>5, <2>2 DEF Bad
    <3>2. PICK k \in K : Rank(K, k) = m - 1
      BY <3>1 DEF Bad
    <3>3. UpTo(k) \in SUBSET K /\ Cardinality(UpTo(k)) = m - 1
      BY <3>2 DEF Rank
    <3>4. \A j \in K, i \in UpTo(k) : j <= i => j \in UpTo(k)
      OBVIOUS
    <3> QED BY <3>3, <3>4
  <2> QED BY <2>1, <2>2
<1>7. IsFiniteSet(S) /\ S # K
  <2>1. m - 1 < Cardinality(K)
    BY <1>1, <1>5 DEF Bad
  <2>2. IsFiniteSet(S)
    BY FS_Subset
  <2>3. S # K
    BY <1>1, <1>4, <1>6, <2>1
  <2> QED BY <2>2, <2>3
<1>8. PICK k \in K \ S : \A j \in K \ S : k <= j
  <2>1. K \ S \in SUBSET Nat /\ K \ S # {}
    BY <1>7
  <2> QED BY <2>1, Smallest
<1>9. UpTo(k) = S \cup {k}
  <2>1. ASSUME NEW j \in K, j <= k PROVE j \in S \cup {k}
    BY <1>8, <2>1
  <2>2. ASSUME NEW j \in S PROVE j <= k
    BY <1>6, <1>8
  <2> QED BY <1>8, <2>1, <2>2
<1>10. Cardinality(S \cup {k}) = m
  <2>1. Cardinality(S \cup {k}) = Cardinality(S) + 1
    BY <1>7, <1>8, FS_AddElement
  <2> QED BY <2>1, <1>4, <1>5, <1>6
<1>11. Rank(K, k) = m
  BY <1>9, <1>10 DEF Rank
<1> QED BY <1>5, <1>8, <1>11 DEF Bad

(* Different ranks belong to different elements. *)
LEMMA NthInjective ==
  ASSUME NEW K \in SUBSET Nat, IsFiniteSet(K),
         NEW m \in 1..Cardinality(K), NEW n \in 1..Cardinality(K), m # n
  PROVE  Nth(K, m) # Nth(K, n)
BY NthElement

(* A subsequence of a sequence over S is a sequence over S. *)
LEMMA SubsequenceType ==
  ASSUME NEW S, NEW s \in Seq(S), NEW K \in SUBSET DOMAIN s
  PROVE  /\ IsFiniteSet(K) /\ Cardinality(K) \in Nat
         /\ Subsequence(s, K) \in Seq(S)
         /\ Len(Subsequence(s, K)) = Cardinality(K)
         /\ DOMAIN Subsequence(s, K) = 1..Cardinality(K)
<1>1. K \in SUBSET Nat /\ DOMAIN s = 1..Len(s) /\ Len(s) \in Nat
  OBVIOUS
<1>2. IsFiniteSet(K) /\ Cardinality(K) \in Nat
  BY <1>1, FS_BoundedSetOfNaturals, FS_CardinalityType
<1>3. \A n \in 1..Cardinality(K) : Nth(K, n) \in DOMAIN s
  BY <1>1, <1>2, NthElement
<1>4. \A n \in 1..Cardinality(K) : s[Nth(K, n)] \in S
  BY <1>1, <1>3
<1> QED BY <1>2, <1>4 DEF Subsequence

(* The elements of a subsequence are those at the chosen positions.       *)
LEMMA SubsequenceElement ==
  ASSUME NEW S, NEW s \in Seq(S), NEW K \in SUBSET DOMAIN s,
         NEW n \in DOMAIN Subsequence(s, K)
  PROVE  \E k \in K : Subsequence(s, K)[n] = s[k]
<1>1. K \in SUBSET Nat /\ IsFiniteSet(K) /\ n \in 1..Cardinality(K)
  BY SubsequenceType
<1> QED BY <1>1, NthElement DEF Subsequence

-----------------------------------------------------------------------------

(* A record without a cluster state is not one. *)
LEMMA NoStateIsNone == NoState \notin ClusterState
BY DEF NoState, ClusterState

(* A cluster state is a copy of itself. *)
LEMMA CopyReflexive ==
  ASSUME NEW s \in ClusterState
  PROVE  Copy(s, s)
BY Zenon DEF Copy, ClusterState

(* The empty instance, list and configuration have their types. *)
LEMMA Constructors ==
  /\ NoInst \in OptInstance
  /\ <<>> \in Seq(Instance)
  /\ NoConfig \in Config \cup {NoConfig}
BY DEF OptInstance

(* The fields the role assignments leave alone. *)
SameData(l, r) ==
  /\ r.state = l.state /\ r.stateIndex = l.stateIndex /\ r.view = l.view
  /\ r.inc = l.inc /\ r.gen = l.gen

(* whichAsync returns a position of the async list, or 0 for none. *)
LEMMA WhichAsync ==
  ASSUME NEW s \in ClusterState, NEW p, whichAsync(p, s) # 0
  PROVE  whichAsync(p, s) \in DOMAIN s.async
<1> DEFINE K == {k \in DOMAIN s.async : s.async[k].id = p}
<1>1. Listed(p, s.async)
  BY DEF whichAsync
<1>2. K \in SUBSET Nat /\ K # {} /\ DOMAIN s.async = 1..Len(s.async) /\ Len(s.async) \in Nat
  BY <1>1 DEF Listed, Identities, ClusterState
<1>3. PICK k \in K : \A j \in K : k <= j
  BY <1>2, Smallest
<1>4. \A j \in 1..(k - 1) : s.async[j].id # p
  <2> SUFFICES ASSUME NEW j \in 1..(k - 1), s.async[j].id = p PROVE FALSE
    OBVIOUS
  <2>1. j \in K
    BY <1>2, <1>3
  <2> QED BY <1>2, <1>3, <2>1
<1> QED BY <1>1, <1>3, <1>4 DEF whichAsync

(* lookupUpstream and lookupDownstream return an instance or none. *)
LEMMA Lookups ==
  ASSUME NEW s \in ClusterState, NEW k \in DOMAIN s.async
  PROVE  lookupUpstream(s, k) \in OptInstance /\ lookupDownstream(s, k) \in OptInstance
BY DEF lookupUpstream, lookupDownstream, ClusterState, OptInstance

(* A panic changes nothing but where the peer is. *)
LEMMA PanickedType ==
  ASSUME NEW l \in PeerState, NEW why \in PanicReason
  PROVE  /\ Panicked(l, why) \in PeerState /\ SameData(l, Panicked(l, why))
         /\ Panicked(l, why).role = l.role /\ Panicked(l, why).pc = why
BY DEF Panicked, PeerState, PanicReason, SameData

(* assumeUnassigned and assumeDeposed change only the role data. *)
LEMMA AssumeTypes ==
  ASSUME NEW l \in PeerState
  PROVE  /\ assumeUnassigned(l) \in PeerState /\ SameData(l, assumeUnassigned(l))
         /\ assumeUnassigned(l).role = "unassigned" /\ assumeUnassigned(l).pc = l.pc
         /\ assumeDeposed(l) \in PeerState /\ SameData(l, assumeDeposed(l))
         /\ assumeDeposed(l).role = "deposed" /\ assumeDeposed(l).pc = l.pc
BY Constructors DEF assumeUnassigned, assumeDeposed, PeerState, Role, SameData

(* assumePrimary changes only the role data, and evaluates again. *)
LEMMA AssumePrimaryType ==
  ASSUME NEW l \in PeerState, l.state \in ClusterState
  PROVE  /\ assumePrimary(l) \in PeerState /\ SameData(l, assumePrimary(l))
         /\ assumePrimary(l).role = "primary" /\ assumePrimary(l).pc = "eval"
BY Constructors DEF assumePrimary, PeerState, Role, SameData, ClusterState

(* assumeSync changes only the role data, or panics in singleton mode. *)
LEMMA AssumeSyncType ==
  ASSUME NEW l \in PeerState, l.state \in ClusterState
  PROVE  /\ assumeSync(l) \in PeerState /\ SameData(l, assumeSync(l))
         /\ \/ assumeSync(l).role = "sync" /\ assumeSync(l).pc = "eval"
            \/ assumeSync(l).role = l.role /\ assumeSync(l).pc = "mode"
<1>1. CASE l.singleton
  BY <1>1, PanickedType DEF assumeSync, PanicReason
<1>2. CASE ~l.singleton
  <2>1. l.state.primary \in OptInstance
    BY DEF ClusterState, OptInstance
  <2>2. l.state.async # <<>> => l.state.async[1] \in OptInstance
    BY DEF ClusterState, OptInstance
  <2> QED BY <1>2, <2>1, <2>2 DEF assumeSync, PeerState, Role, SameData
<1> QED BY <1>1, <1>2

(* assumeAsync changes only the role data, or panics in singleton mode. *)
LEMMA AssumeAsyncType ==
  ASSUME NEW l \in PeerState, l.state \in ClusterState, NEW k \in DOMAIN l.state.async
  PROVE  /\ assumeAsync(l, k) \in PeerState /\ SameData(l, assumeAsync(l, k))
         /\ \/ assumeAsync(l, k).role = "async" /\ assumeAsync(l, k).pc = l.pc
            \/ assumeAsync(l, k).role = l.role /\ assumeAsync(l, k).pc = "mode"
<1>1. CASE l.singleton
  BY <1>1, PanickedType DEF assumeAsync, PanicReason
<1>2. CASE ~l.singleton
  BY <1>2, Lookups DEF assumeAsync, PeerState, Role, SameData
<1> QED BY <1>1, <1>2

(* A role the cluster state does not make primary. *)
LEMMA ListedRoleType ==
  ASSUME NEW l \in PeerState, l.state \in ClusterState, NEW p \in Peers,
         l.role # "primary", l.role = "sync" => ~l.singleton
  PROVE  LET r == assumeListedRole(p, l) IN
         /\ r \in PeerState /\ SameData(l, r) /\ r.role # "primary"
         /\ r.role = "sync" => l.state.sync.id = p /\ ~r.singleton
<1> DEFINE k == whichAsync(p, l.state)
<1>1. CASE assumeListedRole(p, l) = assumeUnassigned(l)
  BY <1>1, AssumeTypes
<1>2. CASE l.state.sync.id = p /\ assumeListedRole(p, l) = assumeSync(l)
  <2>1. l.role # "sync" \/ ~l.singleton
    OBVIOUS
  <2>2. assumeSync(l).role = "sync" => ~assumeSync(l).singleton
    BY <2>1 DEF assumeSync, Panicked, PeerState
  <2> QED BY <1>2, <2>2, AssumeSyncType
<1>3. CASE assumeListedRole(p, l) = assumeDeposed(l)
  BY <1>3, AssumeTypes
<1>4. CASE k # 0 /\ assumeListedRole(p, l) = assumeAsync(l, k)
  <2>1. k \in DOMAIN l.state.async
    BY <1>4, WhichAsync
  <2>2. assumeAsync(l, k).role # "sync"
    BY DEF assumeAsync, Panicked, PeerState
  <2>3. assumeAsync(l, k) \in PeerState /\ SameData(l, assumeAsync(l, k))
        /\ assumeAsync(l, k).role # "primary"
    BY <2>1, AssumeAsyncType
  <2> QED BY <1>4, <2>2, <2>3
<1>5. \/ assumeListedRole(p, l) = assumeUnassigned(l)
      \/ l.state.sync.id = p /\ assumeListedRole(p, l) = assumeSync(l)
      \/ assumeListedRole(p, l) = assumeDeposed(l)
      \/ k # 0 /\ assumeListedRole(p, l) = assumeAsync(l, k)
  <2>1. l.state.singleton \in BOOLEAN
    BY DEF ClusterState
  <2> QED BY <2>1 DEF assumeListedRole
<1> QED BY <1>1, <1>2, <1>3, <1>4, <1>5

(* LocalInv survives longer histories. *)
LEMMA LocalMonotone ==
  ASSUME NEW m \in Seq(ClusterState), NEW r \in Seq(Seq(Instance)),
         NEW s \in ClusterState, NEW i \in Seq(Instance),
         NEW p \in Peers, NEW l \in PeerState, LocalInv(p, l, m, r)
  PROVE  LocalInv(p, l, Append(m, s), r) /\ LocalInv(p, l, m, Append(r, i))
<1>1. /\ Len(Append(m, s)) = Len(m) + 1 /\ DOMAIN m \subseteq DOMAIN Append(m, s)
      /\ \A k \in DOMAIN m : Append(m, s)[k] = m[k]
  OBVIOUS
<1>2. Len(Append(r, i)) = Len(r) + 1
  OBVIOUS
<1>3. l.stateIndex \in Nat /\ l.view \in Nat /\ Len(m) \in Nat /\ Len(r) \in Nat
      /\ (l.stateIndex # 0 => l.stateIndex \in DOMAIN m)
  BY DEF PeerState, LocalInv
<1>4. ASSUME NEW k \in DOMAIN m
      PROVE  k \in DOMAIN Append(m, s) /\ Append(m, s)[k] = m[k]
  BY <1>1
<1> DEFINE n == Append(m, s)
<1>5. l.role = "primary" => \E k \in DOMAIN n : n[k].gen = l.gen /\ n[k].primary.id = p
  BY <1>4 DEF LocalInv
<1>6. l.role = "sync" => \E k \in DOMAIN n : n[k].gen = l.gen /\ n[k].sync.id = p
  BY <1>4 DEF LocalInv
<1>7. l.stateIndex # 0 => Copy(l.state, n[l.stateIndex])
  BY <1>1, <1>3 DEF LocalInv
<1>8. l.stateIndex <= Len(n) /\ l.view <= Len(r) /\ l.view <= Len(Append(r, i))
  BY <1>1, <1>2, <1>3 DEF LocalInv
<1> HIDE DEF n
<1>9. LocalInv(p, l, n, r)
  BY <1>5, <1>6, <1>7, <1>8 DEF LocalInv
<1>10. LocalInv(p, l, m, Append(r, i))
  BY <1>8 DEF LocalInv
<1> QED BY <1>9, <1>10 DEF n

(* LocalInv survives a change of role the peer's state justifies. *)
LEMMA LocalRole ==
  ASSUME NEW m \in Seq(ClusterState), NEW r, NEW p \in Peers,
         NEW l \in PeerState, NEW n \in PeerState,
         LocalInv(p, l, m, r), SameData(l, n), l.view # 0, l.inc # 0,
         n.role = "primary" =>
           \/ l.role = "primary"
           \/ l.state # NoState /\ l.gen = l.state.gen /\ l.state.primary.id = p,
         n.role = "sync" =>
           /\ ~n.singleton
           /\ \/ l.role = "sync"
              \/ l.state # NoState /\ l.gen = l.state.gen /\ l.state.sync.id = p
  PROVE  LocalInv(p, n, m, r)
<1>1. /\ n.view = l.view /\ n.stateIndex = l.stateIndex /\ n.state = l.state
      /\ n.inc = l.inc /\ n.gen = l.gen
  BY DEF SameData
<1>2. ASSUME l.state # NoState
      PROVE  /\ l.stateIndex \in DOMAIN m
             /\ m[l.stateIndex].gen = l.state.gen
             /\ m[l.stateIndex].primary.id = l.state.primary.id
             /\ m[l.stateIndex].sync = l.state.sync
  <2>1. l.stateIndex \in DOMAIN m /\ Copy(l.state, m[l.stateIndex])
    BY <1>2 DEF LocalInv, PeerState
  <2>2. m[l.stateIndex] \in ClusterState
    BY <2>1
  <2> QED BY <2>1, <2>2 DEF Copy, ClusterState
<1> QED BY <1>1, <1>2 DEF LocalInv

-----------------------------------------------------------------------------
(* What every action is shown to do: it preserves the invariant and is a   *)
(* step, or a stuttering step, of the chain of generations.                *)
Preserves == ChainInv' /\ [Generations!Next]_Generation

(* A peer with what it knows when it is evaluating. *)
Ready(p, l) ==
  /\ l \in PeerState /\ LocalInv(p, l, meta, registry)
  /\ l.view \in DOMAIN registry /\ l.view # 0
  /\ l.inc = peer[p].inc /\ l.inc \in 1..MaxInc

(* n differs from l in nothing the invariant speaks of. *)
Keeps(l, n) ==
  SameData(l, n) /\ n.role = l.role /\ n.singleton = l.singleton

(* Readiness does not depend on timers, triggers and configuration. *)
LEMMA ReadyKeeps ==
  ASSUME NEW p \in Peers, NEW l, Ready(p, l), NEW n \in PeerState, Keeps(l, n)
  PROVE  Ready(p, n)
<1>1. l \in PeerState /\ l.view # 0 /\ l.inc # 0
  BY DEF Ready
<1>2. LocalInv(p, n, meta, registry)
  BY <1>1 DEF Ready, LocalInv, Keeps, SameData
<1> QED BY <1>2 DEF Ready, Keeps, SameData

(* What a ready peer knows: its identity, the instances, a real state. *)
LEMMA ReadyFacts ==
  ASSUME ChainInv, NEW p \in Peers, NEW l, Ready(p, l)
  PROVE  /\ self(p) \in Instance /\ self(p).id = p
         /\ peersOf(l) \in Seq(Instance)
         /\ l.view # 0 /\ l.inc # 0 /\ l.stateIndex \in Nat
         /\ l.state # NoState =>
              /\ l.state \in ClusterState
              /\ l.stateIndex \in DOMAIN meta
              /\ Copy(l.state, meta[l.stateIndex])
BY DEF ChainInv, TypeOK, Ready, self, Instance, peersOf, PeerState, LocalInv

(* A step that changes only one peer, within its local invariant. *)
LEMMA BecomePreserves ==
  ASSUME ChainInv, NEW p \in Peers, NEW n \in PeerState,
         LocalInv(p, n, meta, registry), Become(p, n)
  PROVE  Preserves
<1>1. /\ peer' = [peer EXCEPT ![p] = n] /\ meta' = meta /\ registry' = registry
      /\ stamp' = stamp /\ faults' = faults /\ losses' = losses
  BY DEF Become
<1>2. peer' \in [Peers -> PeerState] /\ TypeOK'
  BY <1>1 DEF ChainInv, TypeOK
<1>3. ASSUME NEW q \in Peers PROVE LocalInv(q, peer'[q], meta', registry')
  BY <1>1 DEF ChainInv, TypeOK
<1>4. Generation' = Generation
  BY <1>1 DEF Generation, GenerationOf, Current
<1> QED BY <1>1, <1>2, <1>3, <1>4 DEF Preserves, ChainInv

(* The same for what a Peer that is evaluating becomes. *)
LEMMA KeepsPreserves ==
  ASSUME ChainInv, NEW p \in Peers, NEW l, Ready(p, l),
         NEW n \in PeerState, Keeps(l, n), Become(p, n)
  PROVE  Preserves
BY ReadyKeeps, BecomePreserves DEF Ready

(* A panic during an evaluation. *)
LEMMA PanicPreserves ==
  ASSUME ChainInv, NEW p \in Peers, NEW l, Ready(p, l), NEW why \in PanicReason,
         Become(p, Panicked(l, why))
  PROVE  Preserves
<1>1. l \in PeerState
  BY DEF Ready
<1>2. Panicked(l, why) \in PeerState /\ Keeps(l, Panicked(l, why))
  BY <1>1, PanickedType DEF Keeps, SameData, Panicked, PeerState
<1> QED BY <1>2, KeepsPreserves

(* n is l after some events: they replace the state by a later one. *)
Informed(l, n) ==
  /\ n.role = l.role /\ n.gen = l.gen /\ n.inc = l.inc /\ n.downstream = l.downstream
  /\ \/ n.stateIndex = l.stateIndex /\ n.state = l.state
     \/ /\ n.stateIndex > l.stateIndex /\ n.stateIndex \in DOMAIN meta
        /\ n.state = meta[n.stateIndex]

(* What a peer has received leaves it ready to evaluate. *)
LEMMA EvaluatingReady ==
  ASSUME ChainInv, NEW p \in Peers, NEW l \in Evaluating(p)
  PROVE  Ready(p, l) /\ l.pc = "eval" /\ peer[p].pc # "down" /\ Informed(peer[p], l)
<1> DEFINE o == peer[p]
<1>1. o \in PeerState /\ LocalInv(p, o, meta, registry)
  BY DEF ChainInv, TypeOK
<1>2. meta \in Seq(ClusterState) /\ registry \in Seq(Seq(Instance))
  BY DEF ChainInv, TypeOK
<1>3. CASE o.pc = "eval"
  BY <1>1, <1>2, <1>3 DEF Evaluating, Ready, LocalInv, PeerState, Informed
<1>4. CASE o.pc # "eval"
  <2>1. PICK m \in Received(p) : m.pc = "run" /\ l = [m EXCEPT !.evalCh = FALSE, !.pc = "eval"]
    BY <1>4 DEF Evaluating
  <2>2. \E i \in DOMAIN registry, j \in Nat :
          /\ j \in DOMAIN meta \/ j <= o.stateIndex
          /\ i # 0
          /\ \/ m = handleDiscoverdInit(o, i, j)
             \/ m = handleDiscoverdState(handleDiscoverdPeers(o, i), j) /\ o.view # 0
    <3>1. CASE o.view = 0
      <4>1. PICK i \in 1..Len(registry), j \in 0..Len(meta) : m = handleDiscoverdInit(o, i, j)
        BY <2>1, <3>1 DEF Received, Moments
      <4>2. i \in DOMAIN registry /\ i # 0 /\ j \in Nat
            /\ (j \in DOMAIN meta \/ j <= o.stateIndex)
        BY <1>1, <1>2 DEF PeerState
      <4> QED BY <4>1, <4>2
    <3>2. CASE o.view # 0
      <4>1. PICK i \in 1..Len(registry), j \in 0..Len(meta) :
              m = handleDiscoverdState(handleDiscoverdPeers(o, i), j)
        BY <2>1, <3>2 DEF Received, Moments
      <4>2. i \in DOMAIN registry /\ i # 0 /\ j \in Nat
            /\ (j \in DOMAIN meta \/ j <= o.stateIndex)
        BY <1>1, <1>2 DEF PeerState
      <4> QED BY <3>2, <4>1, <4>2
    <3> QED BY <3>1, <3>2
  <2>3. PICK i \in DOMAIN registry, j \in Nat :
          /\ j \in DOMAIN meta \/ j <= o.stateIndex
          /\ i # 0
          /\ \/ m = handleDiscoverdInit(o, i, j)
             \/ m = handleDiscoverdState(handleDiscoverdPeers(o, i), j) /\ o.view # 0
    BY <2>2
  <2>4. o.view # 0 => o.view \in DOMAIN registry
    BY <1>1, <1>2 DEF PeerState, LocalInv
  <2>5. /\ m \in PeerState /\ m.view \in DOMAIN registry /\ m.view # 0
        /\ m.role = o.role /\ m.gen = o.gen /\ m.inc = o.inc /\ m.singleton = o.singleton
        /\ m.pc = o.pc /\ m.downstream = o.downstream
        /\ \/ m.stateIndex = o.stateIndex /\ m.state = o.state
           \/ /\ m.stateIndex > o.stateIndex /\ m.stateIndex \in DOMAIN meta
              /\ m.state = meta[m.stateIndex]
    <3>1. i \in Nat
      BY <1>2
    <3>2. CASE m = handleDiscoverdInit(o, i, j)
      <4>1. CASE j > o.stateIndex
        <5>1. j \in DOMAIN meta /\ meta[j] \in ClusterState
          BY <1>1, <1>2, <2>3, <4>1 DEF PeerState
        <5>2. m = [o EXCEPT !.stateIndex = j, !.state = meta[j], !.view = i, !.evalCh = TRUE]
          BY <1>1, <3>2, <4>1 DEF handleDiscoverdInit, decodeState, PeerState
        <5> QED BY <1>1, <2>3, <3>1, <4>1, <5>1, <5>2 DEF PeerState
      <4>2. CASE ~ (j > o.stateIndex)
        <5>1. m = [o EXCEPT !.view = i, !.evalCh = TRUE]
          BY <3>2, <4>2 DEF handleDiscoverdInit, decodeState
        <5> QED BY <1>1, <2>3, <3>1, <5>1 DEF PeerState
      <4> QED BY <4>1, <4>2
    <3>3. CASE m = handleDiscoverdState(handleDiscoverdPeers(o, i), j) /\ o.view # 0
      <4> DEFINE h == handleDiscoverdPeers(o, i)
      <4>1. /\ h \in PeerState /\ h.view \in DOMAIN registry /\ h.view # 0
            /\ h.role = o.role /\ h.gen = o.gen /\ h.inc = o.inc
            /\ h.singleton = o.singleton /\ h.pc = o.pc
            /\ h.stateIndex = o.stateIndex /\ h.state = o.state
            /\ h.downstream = o.downstream
        BY <1>1, <2>3, <2>4, <3>1, <3>3 DEF handleDiscoverdPeers, PeerState
      <4> HIDE DEF h
      <4>2. m = handleDiscoverdState(h, j)
        BY <3>3 DEF h
      <4>3. CASE j > h.stateIndex
        <5>1. j \in DOMAIN meta /\ meta[j] \in ClusterState
          BY <1>1, <1>2, <2>3, <4>1, <4>3 DEF PeerState
        <5>2. m = [h EXCEPT !.stateIndex = j, !.state = meta[j], !.evalCh = TRUE]
          BY <4>1, <4>2, <4>3 DEF handleDiscoverdState, decodeState, PeerState
        <5> QED BY <4>1, <4>3, <5>1, <5>2 DEF PeerState
      <4>4. CASE ~ (j > h.stateIndex)
        BY <4>1, <4>2, <4>4 DEF handleDiscoverdState
      <4> QED BY <4>3, <4>4
    <3> QED BY <2>3, <3>2, <3>3
  <2>6. /\ l \in PeerState /\ l.view = m.view /\ l.role = m.role /\ l.gen = m.gen
        /\ l.inc = m.inc /\ l.singleton = m.singleton /\ l.pc = "eval"
        /\ l.stateIndex = m.stateIndex /\ l.state = m.state
        /\ l.downstream = m.downstream
    BY <2>1, <2>5 DEF PeerState
  <2>7. o.inc # 0 /\ o.inc \in 1..MaxInc
    BY <1>1, <2>1, <2>5 DEF LocalInv, PeerState
  <2>8. l.stateIndex <= Len(meta) /\ l.view <= Len(registry) /\ l.stateIndex \in Nat
    <3>1. /\ Len(meta) \in Nat /\ DOMAIN meta = 1..Len(meta)
          /\ Len(registry) \in Nat /\ DOMAIN registry = 1..Len(registry)
      BY <1>2
    <3>2. o.stateIndex <= Len(meta) /\ o.stateIndex \in Nat
      BY <1>1 DEF LocalInv, PeerState
    <3>3. m.stateIndex <= Len(meta) /\ m.stateIndex \in Nat /\ m.view <= Len(registry)
      BY <2>5, <3>1, <3>2
    <3> QED BY <2>6, <3>3
  <2>9. l.stateIndex = 0 => l.state = NoState
    <3>1. 0 \notin DOMAIN meta
      BY <1>2
    <3>2. o.stateIndex = 0 => o.state = NoState
      BY <1>1 DEF LocalInv
    <3> QED BY <2>5, <2>6, <3>1, <3>2
  <2>10. l.stateIndex # 0 => Copy(l.state, meta[l.stateIndex])
    <3>1. ASSUME NEW k \in DOMAIN meta PROVE Copy(meta[k], meta[k])
      BY <1>2, CopyReflexive
    <3> QED BY <1>1, <2>5, <2>6, <3>1 DEF LocalInv
  <2>11. LocalInv(p, l, meta, registry)
    BY <1>1, <2>5, <2>6, <2>7, <2>8, <2>9, <2>10 DEF LocalInv
  <2> QED BY <2>1, <2>5, <2>6, <2>7, <2>11 DEF Ready, Informed
<1> QED BY <1>3, <1>4

-----------------------------------------------------------------------------
(* s continues the generation of c, or declares the next one as peer p.    *)
Continues(c, s) ==
  /\ s.gen = c.gen /\ s.primary.id = c.primary.id /\ s.sync = c.sync
  /\ s.initWAL = c.initWAL /\ s.singleton = c.singleton

Declares(p, c, s) ==
  /\ s.gen = c.gen + 1 /\ s.primary.id = p
  /\ \/ /\ s.singleton /\ s.sync = NoInst /\ s.initWAL = 0
        /\ c.singleton /\ c.primary.id # p
     \/ /\ ~s.singleton /\ s.sync \in Instance
        /\ \/ /\ ~c.singleton /\ p \in {c.primary.id, c.sync.id}
              /\ s.initWAL >= c.initWAL
           \/ c.singleton /\ c.primary.id = p /\ s.sync.id # p

Creates(p, s) ==
  /\ s.gen = 1 /\ s.primary.id = p /\ s.initWAL = 0
  /\ \/ s.singleton /\ s.sync = NoInst
     \/ ~s.singleton /\ s.sync \in Instance

(* A write that can be accepted on the metadata in force. *)
Extends(p, s) ==
  IF meta = <<>> THEN Creates(p, s)
  ELSE Continues(Current, s) \/ Declares(p, Current, s)

(* The cluster state in force, and that all accepted ones lead to it. *)
LEMMA CurrentType ==
  ASSUME ChainInv, meta # <<>>
  PROVE  /\ Current \in ClusterState /\ Current = meta[Len(meta)]
         /\ Len(meta) \in DOMAIN meta /\ Current # NoState
         /\ \A i \in DOMAIN meta : Chain(meta[i], Current)
         /\ Current.singleton => Current.sync = NoInst
<1>1. meta \in Seq(ClusterState) /\ Len(meta) \in Nat /\ DOMAIN meta = 1..Len(meta)
  BY DEF ChainInv, TypeOK
<1>2. Len(meta) \in DOMAIN meta /\ Current = meta[Len(meta)]
  BY <1>1 DEF Current
<1>3. Current \in ClusterState
  BY <1>1, <1>2
<1>4. \A i \in DOMAIN meta : i <= Len(meta)
  BY <1>1
<1> QED BY <1>2, <1>3, <1>4, NoStateIsNone DEF ChainInv

(* What is written keeps the chain, and is a step of SireniaGenerations. *)
LEMMA ExtensionChain ==
  ASSUME ChainInv, NEW p \in Peers, NEW s \in ClusterState, Extends(p, s)
  PROVE  /\ \A i \in DOMAIN meta : Chain(meta[i], s)
         /\ s.singleton => s.sync = NoInst
<1>1. CASE meta = <<>>
  BY <1>1 DEF Extends, Creates
<1>2. CASE meta # <<>>
  <2>1. Continues(Current, s) \/ Declares(p, Current, s)
    BY <1>2 DEF Extends
  <2>2. Current \in ClusterState /\ (\A i \in DOMAIN meta : Chain(meta[i], Current))
        /\ (Current.singleton => Current.sync = NoInst)
    BY <1>2, CurrentType
  <2>3. \A i \in DOMAIN meta : meta[i] \in ClusterState
    BY DEF ChainInv, TypeOK
  <2>4. ASSUME NEW i \in DOMAIN meta PROVE Chain(meta[i], s)
    <3>1. /\ meta[i].gen \in Nat /\ Current.gen \in Nat /\ s.gen \in Nat
          /\ Chain(meta[i], Current)
      BY <2>2, <2>3 DEF ClusterState
    <3>2. CASE Continues(Current, s)
      BY <3>1, <3>2 DEF Chain, Continues
    <3>3. CASE Declares(p, Current, s)
      BY <3>1, <3>3 DEF Chain, Declares
    <3> QED BY <2>1, <3>2, <3>3
  <2>5. s.singleton => s.sync = NoInst
    BY <2>1, <2>2 DEF Continues, Declares
  <2> QED BY <2>4, <2>5
<1> QED BY <1>1, <1>2

(* An accepted write is a step of the chain of generations. *)
LEMMA ExtensionStep ==
  ASSUME ChainInv, NEW p \in Peers, NEW s \in ClusterState, Extends(p, s),
         meta' = Append(meta, s)
  PROVE  [Generations!Next]_Generation
<1> DEFINE g == GenerationOf(s)
<1>1. meta \in Seq(ClusterState)
  BY DEF ChainInv, TypeOK
<1>2. meta' # <<>> /\ meta'[Len(meta')] = s
  BY <1>1
<1>3. Generation' = g
  BY <1>2 DEF Generation, Current
<1>4. /\ g.gen = s.gen /\ g.primary = s.primary.id /\ g.sync = s.sync.id
      /\ g.initWAL = s.initWAL /\ g.singleton = s.singleton
      /\ g = [gen |-> s.gen, primary |-> s.primary.id, sync |-> s.sync.id,
              initWAL |-> s.initWAL, singleton |-> s.singleton]
  BY NoStateIsNone DEF GenerationOf
<1>5. s.initWAL \in WALs /\ (s.sync \in Instance => s.sync.id \in Peers)
      /\ s.singleton \in BOOLEAN
  BY DEF ClusterState, Instance
<1>6. CASE meta = <<>>
  <2>1. Generation.gen = 0
    BY <1>6 DEF Generation, GenerationOf, Current, NoState
  <2>2. Creates(p, s)
    BY <1>6 DEF Extends
  <2>3. CASE s.singleton
    <3>1. g = [gen |-> 0 + 1, primary |-> p, sync |-> "none", initWAL |-> 0, singleton |-> TRUE]
      <4>1. s.singleton = TRUE /\ s.gen = 0 + 1 /\ s.sync.id = "none" /\ s.primary.id = p
            /\ s.initWAL = 0
        BY <1>5, <2>2, <2>3 DEF Creates, NoInst
      <4> QED BY <1>4, <4>1
    <3>2. Generations!Create(p)
      BY <1>3, <2>1, <3>1 DEF Generations!Create, Generations!Declare
    <3> QED BY <3>2 DEF Generations!Next
  <2>4. CASE ~s.singleton
    <3>1. g = [gen |-> 0 + 1, primary |-> p, sync |-> s.sync.id, initWAL |-> 0, singleton |-> FALSE]
      <4>1. s.singleton = FALSE /\ s.gen = 0 + 1 /\ s.primary.id = p /\ s.initWAL = 0
        BY <1>5, <2>2, <2>4 DEF Creates
      <4> QED BY <1>4, <4>1
    <3>2. s.sync.id \in Peers
      BY <1>5, <2>2, <2>4 DEF Creates
    <3>3. Generations!Create(p)
      BY <1>3, <2>1, <3>1, <3>2 DEF Generations!Create, Generations!Declare
    <3> QED BY <3>3 DEF Generations!Next
  <2> QED BY <2>3, <2>4
<1>7. CASE meta # <<>>
  <2> DEFINE c == Current
  <2>1. c \in ClusterState /\ c # NoState
    BY <1>7, CurrentType
  <2>2. Generation = [gen |-> c.gen, primary |-> c.primary.id, sync |-> c.sync.id,
                      initWAL |-> c.initWAL, singleton |-> c.singleton]
    BY <2>1 DEF Generation, GenerationOf
  <2>3. c.gen \in Nat \ {0} /\ c.singleton \in BOOLEAN
    BY <2>1 DEF ClusterState
  <2>4. CASE Continues(c, s)
    BY <1>3, <1>4, <2>2, <2>4 DEF Continues
  <2>5. CASE Declares(p, c, s)
    <3>1. CASE s.singleton
      <4>1. g = [gen |-> c.gen + 1, primary |-> p, sync |-> "none", initWAL |-> 0, singleton |-> TRUE]
        <5>1. s.singleton = TRUE /\ s.gen = c.gen + 1 /\ s.sync.id = "none"
              /\ s.primary.id = p /\ s.initWAL = 0
          BY <1>5, <2>5, <3>1 DEF Declares, NoInst
        <5> QED BY <1>4, <5>1
      <4>2. c.singleton /\ c.primary.id # p
        BY <2>5, <3>1 DEF Declares
      <4>3. Generations!Claim(p)
        BY <1>3, <2>2, <2>3, <4>1, <4>2 DEF Generations!Claim, Generations!Declare
      <4> QED BY <4>3 DEF Generations!Next
    <3>2. CASE ~s.singleton
      <4>1. g = [gen |-> c.gen + 1, primary |-> p, sync |-> s.sync.id,
                 initWAL |-> s.initWAL, singleton |-> FALSE]
        BY <1>4, <1>5, <2>5, <3>2 DEF Declares
      <4>2. s.sync.id \in Peers
        BY <1>5, <2>5, <3>2 DEF Declares
      <4>3. CASE c.singleton
        <5>1. c.primary.id = p /\ s.sync.id # p
          BY <2>5, <3>2, <4>3 DEF Declares
        <5>2. Generation.gen > 0 /\ Generation.singleton /\ Generation.primary = p
          BY <2>2, <2>3, <4>3, <5>1
        <5>3. Generations!Declare(Generation.primary, s.sync.id, s.initWAL, FALSE)
          BY <1>3, <2>2, <4>1, <5>2 DEF Generations!Declare
        <5>4. Generations!Convert
          BY <1>5, <4>2, <5>1, <5>2, <5>3 DEF Generations!Convert
        <5> QED BY <5>4 DEF Generations!Next
      <4>4. CASE ~c.singleton
        <5>1. p \in {c.primary.id, c.sync.id} /\ s.initWAL >= c.initWAL
          BY <2>5, <3>2, <4>4 DEF Declares
        <5>2. /\ Generation.gen > 0 /\ ~Generation.singleton
              /\ p \in {Generation.primary, Generation.sync}
              /\ s.initWAL >= Generation.initWAL
          BY <2>2, <2>3, <4>4, <5>1
        <5>3. Generations!Declare(p, s.sync.id, s.initWAL, FALSE)
          BY <1>3, <2>2, <4>1 DEF Generations!Declare
        <5>4. Generations!Succeed(p)
          BY <1>5, <4>2, <5>2, <5>3 DEF Generations!Succeed
        <5> QED BY <5>4 DEF Generations!Next
      <4> QED BY <4>3, <4>4
    <3> QED BY <3>1, <3>2
  <2> QED BY <1>7, <2>4, <2>5 DEF Extends
<1> QED BY <1>6, <1>7

(* A write of the cluster state by a peer that has something to write. *)
LEMMA PutPreserves ==
  ASSUME ChainInv, NEW p \in Peers, NEW s \in ClusterState,
         NEW ok \in PeerState, NEW err, Ready(p, err),
         ok.view = err.view, ok.inc = err.inc, ok.stateIndex = err.stateIndex,
         ok.state = s,
         ok.role = "primary" =>
           \/ err.role = "primary" /\ ok.gen = err.gen
           \/ ok.gen = s.gen /\ s.primary.id = p,
         ok.role = "sync" =>
           err.role = "sync" /\ ok.gen = err.gen /\ ok.singleton = err.singleton,
         ok.stateIndex = Len(meta) => Extends(p, s),
         putClusterState(p, s, ok, err)
  PROVE  Preserves
<1> DEFINE done == [ok EXCEPT !.stateIndex = Len(meta) + 1]
<1>1. /\ meta \in Seq(ClusterState) /\ registry \in Seq(Seq(Instance)) /\ registry # <<>>
      /\ peer \in [Peers -> PeerState] /\ Len(meta) \in Nat
      /\ stamp \in Seq(Nat) /\ faults \in 0..MaxFaults /\ losses \in 0..MaxLosses
  BY DEF ChainInv, TypeOK
<1>2. err \in PeerState /\ LocalInv(p, err, meta, registry) /\ err.view # 0 /\ err.inc # 0
  BY DEF Ready
<1>3. registry' = registry /\ stamp' = stamp /\ faults' = faults /\ losses' \in 0..MaxLosses
  BY <1>1, BoundsAssumption DEF putClusterState
<1>4. CASE meta' = meta
  <2>1. peer' = [peer EXCEPT ![p] = err]
    BY <1>1, <1>4 DEF putClusterState
  <2>2. TypeOK'
    BY <1>1, <1>2, <1>3, <1>4, <2>1 DEF TypeOK
  <2>3. ASSUME NEW q \in Peers PROVE LocalInv(q, peer'[q], meta', registry')
    BY <1>1, <1>2, <1>3, <1>4, <2>1 DEF ChainInv
  <2>4. Generation' = Generation
    BY <1>4 DEF Generation, GenerationOf, Current
  <2> QED BY <1>4, <2>2, <2>3, <2>4 DEF Preserves, ChainInv
<1>5. CASE meta' # meta
  <2> DEFINE n == Append(meta, s)
  <2>1. /\ meta' = n /\ ok.stateIndex = Len(meta)
        /\ peer' = [peer EXCEPT ![p] = done] \/ peer' = [peer EXCEPT ![p] = err]
    BY <1>5 DEF putClusterState
  <2>2. Extends(p, s)
    BY <2>1
  <2>3. /\ n \in Seq(ClusterState) /\ Len(n) = Len(meta) + 1 /\ DOMAIN n = 1..Len(n)
        /\ n[Len(n)] = s /\ DOMAIN meta = 1..Len(meta)
        /\ \A i \in DOMAIN meta : i \in DOMAIN n /\ n[i] = meta[i]
        /\ \A i \in DOMAIN n : i \in DOMAIN meta \/ i = Len(n)
    BY <1>1
  <2> HIDE DEF n
  <2>4. LocalInv(p, err, n, registry)
    BY <1>1, <1>2, LocalMonotone DEF n
  <2>5. done \in PeerState /\ LocalInv(p, done, n, registry)
    <3>1. /\ done \in PeerState /\ done.stateIndex = Len(n) /\ done.view = err.view
          /\ done.inc = err.inc /\ done.state = s /\ done.role = ok.role /\ done.gen = ok.gen
          /\ done.singleton = ok.singleton
      <4>1. /\ done \in PeerState /\ done.stateIndex = Len(meta) + 1 /\ done.view = ok.view
            /\ done.inc = ok.inc /\ done.state = ok.state /\ done.role = ok.role
            /\ done.gen = ok.gen /\ done.singleton = ok.singleton
        <5>1. Len(meta) + 1 \in Nat
          BY <1>1
        <5> QED BY <5>1 DEF PeerState
      <4> HIDE DEF done
      <4> QED BY <2>3, <4>1
    <3>2. Copy(done.state, n[done.stateIndex])
      BY <2>3, <3>1, CopyReflexive
    <3>3. done.role = "primary" =>
            \E i \in DOMAIN n : n[i].gen = done.gen /\ n[i].primary.id = p
      <4> HIDE DEF done
      <4>1. CASE err.role = "primary" /\ ok.gen = err.gen
        BY <2>4, <3>1, <4>1 DEF LocalInv
      <4>2. CASE ok.gen = s.gen /\ s.primary.id = p
        <5>1. Len(n) \in DOMAIN n
          BY <1>1, <2>3
        <5> QED BY <2>3, <3>1, <4>2, <5>1
      <4> QED BY <3>1, <4>1, <4>2
    <3>4. done.role = "sync" =>
            ~done.singleton /\ \E i \in DOMAIN n : n[i].gen = done.gen /\ n[i].sync.id = p
      BY <2>4, <3>1 DEF LocalInv
    <3>5. done.view <= Len(registry) /\ done.stateIndex <= Len(n) /\ done.stateIndex # 0
      BY <1>1, <1>2, <2>3, <3>1 DEF LocalInv
    <3> HIDE DEF done
    <3> QED BY <1>2, <3>1, <3>2, <3>3, <3>4, <3>5 DEF LocalInv
  <2> HIDE DEF done
  <2>6. TypeOK'
    BY <1>1, <1>2, <1>3, <2>1, <2>3, <2>5 DEF TypeOK
  <2>7. ASSUME NEW q \in Peers PROVE LocalInv(q, peer'[q], n, registry)
    <3>1. CASE q = p
      BY <1>1, <2>1, <2>4, <2>5, <3>1
    <3>2. CASE q # p
      <4>1. peer'[q] = peer[q] /\ peer[q] \in PeerState
        BY <1>1, <2>1, <3>2
      <4>2. LocalInv(q, peer[q], meta, registry)
        BY DEF ChainInv
      <4>3. LocalInv(q, peer[q], Append(meta, s), registry)
        BY <1>1, <4>1, <4>2, LocalMonotone
      <4> QED BY <4>1, <4>3 DEF n
    <3> QED BY <3>1, <3>2
  <2>8. \A i \in DOMAIN meta : Chain(meta[i], s)
    BY <2>2, ExtensionChain
  <2>9. Chain(s, s)
    BY DEF Chain, ClusterState
  <2>10. ASSUME NEW i \in DOMAIN n, NEW j \in DOMAIN n, i <= j PROVE Chain(n[i], n[j])
    <3>1. CASE j \in DOMAIN meta
      <4>1. i \in DOMAIN meta
        BY <1>1, <2>3, <2>10, <3>1
      <4>2. Chain(meta[i], meta[j])
        BY <2>10, <3>1, <4>1 DEF ChainInv
      <4> QED BY <2>3, <3>1, <4>1, <4>2
    <3>2. CASE j = Len(n)
      BY <2>3, <2>8, <2>9, <3>2
    <3> QED BY <2>3, <3>1, <3>2
  <2>11. ASSUME NEW i \in DOMAIN n PROVE n[i].singleton => n[i].sync = NoInst
    BY <2>2, <2>3, ExtensionChain DEF ChainInv
  <2>12. [Generations!Next]_Generation
    BY <2>1, <2>2, ExtensionStep DEF n
  <2> QED BY <1>3, <2>1, <2>6, <2>7, <2>10, <2>11, <2>12 DEF Preserves, ChainInv
<1> QED BY <1>4, <1>5

(* A peer decides on the state it replaces. *)
LEMMA Decided ==
  ASSUME ChainInv, NEW p \in Peers, NEW l, Ready(p, l), l.stateIndex = Len(meta)
  PROVE  /\ l.state = NoState => meta = <<>>
         /\ l.state # NoState =>
              /\ meta # <<>> /\ Current \in ClusterState /\ l.state \in ClusterState
              /\ l.state.gen = Current.gen /\ l.state.primary.id = Current.primary.id
              /\ l.state.sync = Current.sync /\ l.state.initWAL = Current.initWAL
              /\ l.state.singleton = Current.singleton
              /\ l.gen = Current.gen /\ l.role = "sync" =>
                   Current.sync.id = p /\ ~Current.singleton
              /\ l.gen = Current.gen /\ l.role = "primary" => Current.primary.id = p
<1>1. meta \in Seq(ClusterState) /\ Len(meta) \in Nat /\ DOMAIN meta = 1..Len(meta)
  BY DEF ChainInv, TypeOK
<1>2. l \in PeerState /\ LocalInv(p, l, meta, registry)
  BY DEF Ready
<1>3. ASSUME meta # <<>>
      PROVE  l.state # NoState
  <2>1. l.stateIndex # 0 /\ l.stateIndex \in DOMAIN meta /\ meta[l.stateIndex] \in ClusterState
    BY <1>1, <1>3
  <2>2. Copy(l.state, meta[l.stateIndex])
    BY <1>2, <2>1 DEF LocalInv
  <2>3. l.state.gen = meta[l.stateIndex].gen
    BY <2>1, <2>2 DEF Copy, ClusterState
  <2> QED BY <2>1, <2>3 DEF ClusterState, NoState
<1>4. ASSUME l.state # NoState
      PROVE  /\ meta # <<>> /\ Current \in ClusterState /\ l.state \in ClusterState
             /\ l.state.gen = Current.gen /\ l.state.primary.id = Current.primary.id
             /\ l.state.sync = Current.sync /\ l.state.initWAL = Current.initWAL
             /\ l.state.singleton = Current.singleton
  <2>1. l.state \in ClusterState /\ l.stateIndex \in DOMAIN meta
        /\ Copy(l.state, meta[l.stateIndex])
    BY <1>4, ReadyFacts
  <2>2. meta # <<>> /\ Current \in ClusterState /\ Current = meta[l.stateIndex]
    BY <1>1, <2>1, CurrentType
  <2>3. Copy(l.state, Current)
    BY <2>1, <2>2
  <2> QED BY <2>1, <2>2, <2>3 DEF Copy, ClusterState
<1>5. ASSUME l.state # NoState, l.gen = Current.gen, l.role = "sync"
      PROVE  Current.sync.id = p /\ ~Current.singleton
  <2>1. PICK i \in DOMAIN meta : meta[i].gen = l.gen /\ meta[i].sync.id = p
    BY <1>2, <1>5 DEF LocalInv
  <2>2. Chain(meta[i], Current) /\ (Current.singleton => Current.sync = NoInst)
    BY <1>4, <1>5, CurrentType
  <2>3. Current.sync.id = p
    BY <1>5, <2>1, <2>2 DEF Chain
  <2> QED BY <2>2, <2>3, PeersAssumption DEF NoInst
<1>6. ASSUME l.state # NoState, l.gen = Current.gen, l.role = "primary"
      PROVE  Current.primary.id = p
  <2>1. PICK i \in DOMAIN meta : meta[i].gen = l.gen /\ meta[i].primary.id = p
    BY <1>2, <1>6 DEF LocalInv
  <2>2. Chain(meta[i], Current)
    BY <1>4, <1>6, CurrentType
  <2> QED BY <1>6, <2>1, <2>2 DEF Chain
<1> QED BY <1>3, <1>4, <1>5, <1>6

-----------------------------------------------------------------------------
(* The writers. *)

(* startInitialSetup writes the first generation or nothing. *)
LEMMA InitialSetup ==
  ASSUME ChainInv, NEW p \in Peers, NEW l, Ready(p, l), l.state = NoState,
         l.singleton \/ Len(peersOf(l)) > 1, startInitialSetup(p, l)
  PROVE  Preserves
<1> DEFINE insts == peersOf(l)
           s == [gen |-> 1, freeze |-> l.singleton, singleton |-> l.singleton,
                 initWAL |-> 0, primary |-> self(p),
                 sync |-> IF l.singleton THEN NoInst ELSE insts[2],
                 async |-> IF l.singleton THEN <<>> ELSE SubSeq(insts, 3, Len(insts)),
                 deposed |-> <<>>]
           ok == [l EXCEPT !.state = s, !.evalCh = TRUE]
           err == [l EXCEPT !.updating = TRUE, !.evalTimer = TRUE]
<1>1. l \in PeerState /\ l.singleton \in BOOLEAN
  BY DEF Ready, PeerState
<1>2. insts \in Seq(Instance) /\ self(p) \in Instance /\ self(p).id = p
  BY ReadyFacts
<1>3. CASE l.updating
  BY <1>3, PanicPreserves DEF startInitialSetup, PanicReason
<1>4. CASE ~l.updating
  <2>1. s \in ClusterState /\ Creates(p, s)
    <3>1. CASE l.singleton
      BY <1>1, <1>2, <3>1, Constructors, WALsAssumption DEF ClusterState, Creates
    <3>2. CASE ~l.singleton
      <4>1. insts[2] \in Instance /\ SubSeq(insts, 3, Len(insts)) \in Seq(Instance)
        BY <1>2, <3>2
      <4>2. insts[2] \in OptInstance
        BY <4>1 DEF OptInstance
      <4> HIDE DEF insts
      <4> QED BY <1>1, <1>2, <3>2, <4>1, <4>2, Constructors, WALsAssumption
              DEF ClusterState, Creates
    <3> QED BY <3>1, <3>2
  <2>2. putClusterState(p, s, ok, err)
    BY <1>4 DEF startInitialSetup
  <2> HIDE DEF s
  <2>3. /\ ok \in PeerState /\ ok.view = l.view /\ ok.inc = l.inc /\ ok.state = s
        /\ ok.stateIndex = l.stateIndex /\ ok.role = l.role /\ ok.gen = l.gen
        /\ ok.singleton = l.singleton
    BY <1>1, <2>1 DEF PeerState
  <2>4. err \in PeerState /\ Keeps(l, err)
    BY <1>1 DEF PeerState, Keeps, SameData
  <2>5. Ready(p, err)
    BY <2>4, ReadyKeeps
  <2>6. ok.stateIndex = Len(meta) => Extends(p, s)
    BY <2>1, <2>3, Decided DEF Extends
  <2> HIDE DEF ok, err
  <2> QED BY <2>1, <2>2, <2>3, <2>4, <2>5, <2>6, PutPreserves DEF Keeps, SameData
<1> QED BY <1>3, <1>4

(* startSingletonTakeover: the singleton declares the next generation. *)
LEMMA SingletonTakeover ==
  ASSUME ChainInv, NEW p \in Peers, NEW l, Ready(p, l), l.state # NoState,
         canSingletonTakeover(p, l), startSingletonTakeover(p, l)
  PROVE  Preserves
<1> DEFINE s == [gen |-> l.state.gen + 1, freeze |-> TRUE, singleton |-> TRUE,
                 initWAL |-> 0, primary |-> self(p), sync |-> NoInst,
                 async |-> <<>>, deposed |-> <<>>]
           ok == [l EXCEPT !.state = s, !.evalCh = TRUE]
           err == [l EXCEPT !.evalTimer = TRUE]
<1>1. l \in PeerState /\ l.state \in ClusterState
  BY ReadyFacts DEF Ready
<1>2. self(p) \in Instance /\ self(p).id = p
  BY ReadyFacts
<1>3. CASE l.updating
  BY <1>3, PanicPreserves DEF startSingletonTakeover, PanicReason
<1>4. CASE ~l.updating
  <2>1. s \in ClusterState
    BY <1>1, <1>2, Constructors, WALsAssumption DEF ClusterState
  <2>2. putClusterState(p, s, ok, err)
    BY <1>4 DEF startSingletonTakeover
  <2>3. s.gen = l.state.gen + 1 /\ s.primary.id = p /\ s.singleton /\ s.sync = NoInst
        /\ s.initWAL = 0
    BY <1>2
  <2> HIDE DEF s
  <2>4. /\ ok \in PeerState /\ ok.view = l.view /\ ok.inc = l.inc /\ ok.state = s
        /\ ok.stateIndex = l.stateIndex /\ ok.role = l.role /\ ok.gen = l.gen
        /\ ok.singleton = l.singleton
    BY <1>1, <2>1 DEF PeerState
  <2>5. err \in PeerState /\ Keeps(l, err)
    BY <1>1 DEF PeerState, Keeps, SameData
  <2>6. Ready(p, err)
    BY <2>5, ReadyKeeps
  <2>7. ASSUME ok.stateIndex = Len(meta) PROVE Extends(p, s)
    <3>1. /\ meta # <<>> /\ l.state.gen = Current.gen
          /\ l.state.primary.id = Current.primary.id /\ l.state.singleton = Current.singleton
      BY <2>4, <2>7, Decided
    <3>2. l.state.singleton /\ l.state.primary.id # p
      BY DEF canSingletonTakeover
    <3>3. Declares(p, Current, s)
      BY <2>3, <3>1, <3>2 DEF Declares
    <3> QED BY <3>1, <3>3 DEF Extends
  <2> HIDE DEF ok, err
  <2> QED BY <2>1, <2>2, <2>4, <2>5, <2>6, <2>7, PutPreserves DEF Keeps, SameData
<1> QED BY <1>3, <1>4

(* "sync" is another peer; the caller may declare the next generation. *)
LEMMA TakeoverWithPeer ==
  ASSUME ChainInv, NEW p \in Peers, NEW l, Ready(p, l), l.state # NoState,
         NEW minWAL, NEW wal \in WALs, NEW sync \in Instance,
         NEW async \in Seq(Instance), NEW deposed \in Seq(Instance),
         l.stateIndex = Len(meta) =>
           \/ /\ ~Current.singleton /\ p \in {Current.primary.id, Current.sync.id}
              /\ minWAL = Current.initWAL
           \/ Current.singleton /\ Current.primary.id = p /\ sync.id # p,
         startTakeoverWithPeer(p, l, minWAL, wal, sync, async, deposed)
  PROVE  Preserves
<1> DEFINE s == [gen |-> l.state.gen + 1, freeze |-> FALSE, singleton |-> FALSE,
                 initWAL |-> wal, primary |-> self(p), sync |-> sync,
                 async |-> async, deposed |-> deposed]
           with == [l EXCEPT !.state = s, !.gen = s.gen]
           ok == assumePrimary(with)
           err == [l EXCEPT !.evalTimer = TRUE]
           why == IF l.updating THEN "updating" ELSE "undeposed"
<1>1. l \in PeerState /\ l.state \in ClusterState
  BY ReadyFacts DEF Ready
<1>2. self(p) \in Instance /\ self(p).id = p
  BY ReadyFacts
<1>3. CASE Become(p, Panicked(l, why))
  <2>1. why \in PanicReason
    BY DEF PanicReason
  <2> HIDE DEF why
  <2> QED BY <1>3, <2>1, PanicPreserves
<1>4. CASE Become(p, l)
  BY <1>1, <1>4, BecomePreserves DEF Ready
<1>5. CASE Become(p, [l EXCEPT !.evalCh = TRUE])
  <2>1. [l EXCEPT !.evalCh = TRUE] \in PeerState /\ Keeps(l, [l EXCEPT !.evalCh = TRUE])
    BY <1>1 DEF PeerState, Keeps, SameData
  <2> QED BY <1>5, <2>1, KeepsPreserves
<1>6. err \in PeerState /\ Keeps(l, err)
  BY <1>1 DEF PeerState, Keeps, SameData
<1>7. CASE Become(p, err)
  BY <1>6, <1>7, KeepsPreserves
<1>8. CASE wal >= minWAL /\ putClusterState(p, s, ok, err)
  <2>1. sync \in OptInstance
    BY DEF OptInstance
  <2>2. s \in ClusterState
    BY <1>1, <1>2, <2>1 DEF ClusterState
  <2>3. s.gen = l.state.gen + 1 /\ s.primary.id = p /\ ~s.singleton /\ s.sync = sync
        /\ s.initWAL = wal
    BY <1>2
  <2> HIDE DEF s
  <2>4. /\ with \in PeerState /\ with.view = l.view /\ with.inc = l.inc
        /\ with.stateIndex = l.stateIndex /\ with.gen = s.gen /\ with.state = s
    BY <1>1, <2>2 DEF PeerState, ClusterState
  <2> HIDE DEF with
  <2>5. /\ ok \in PeerState /\ ok.view = l.view /\ ok.inc = l.inc /\ ok.state = s
        /\ ok.stateIndex = l.stateIndex /\ ok.role = "primary" /\ ok.gen = s.gen
    BY <2>2, <2>4, AssumePrimaryType DEF SameData
  <2>6. Ready(p, err)
    BY <1>6, ReadyKeeps
  <2>7. ASSUME ok.stateIndex = Len(meta) PROVE Extends(p, s)
    <3>1. meta # <<>> /\ l.state.gen = Current.gen
      BY <2>5, <2>7, Decided
    <3>2. Declares(p, Current, s)
      BY <1>8, <2>3, <2>5, <2>7, <3>1 DEF Declares
    <3> QED BY <3>1, <3>2 DEF Extends
  <2> HIDE DEF ok, err
  <2> QED BY <1>6, <1>8, <2>2, <2>3, <2>5, <2>6, <2>7, PutPreserves DEF Keeps, SameData
<1>9. \/ Become(p, Panicked(l, why)) \/ Become(p, l)
      \/ Become(p, [l EXCEPT !.evalCh = TRUE]) \/ Become(p, err)
      \/ wal >= minWAL /\ putClusterState(p, s, ok, err)
  BY Zenon DEF startTakeoverWithPeer
<1> HIDE DEF s, with, ok, err, why
<1> QED BY <1>3, <1>4, <1>5, <1>7, <1>8, <1>9

(* Filtering a list of instances gives a list of instances. *)
LEMMA FilterTypes ==
  ASSUME NEW insts \in Seq(Instance), NEW l, NEW ids
  PROVE  /\ PresentOf(insts, l) \in Seq(Instance) /\ AbsentOf(insts, l) \in Seq(Instance)
         /\ Others(insts, ids) \in Seq(Instance)
<1>1. /\ {k \in DOMAIN insts : peerIsPresent(l, insts[k].id)} \in SUBSET DOMAIN insts
      /\ {k \in DOMAIN insts : ~peerIsPresent(l, insts[k].id)} \in SUBSET DOMAIN insts
      /\ {k \in DOMAIN insts : insts[k].id \notin ids} \in SUBSET DOMAIN insts
  OBVIOUS
<1> QED BY <1>1, SubsequenceType DEF PresentOf, AbsentOf, Others

(* Others leaves out the peers it is told to. *)
LEMMA OthersElement ==
  ASSUME NEW insts \in Seq(Instance), NEW ids, NEW n \in DOMAIN Others(insts, ids)
  PROVE  Others(insts, ids)[n].id \notin ids
<1> DEFINE K == {k \in DOMAIN insts : insts[k].id \notin ids}
<1>1. K \in SUBSET DOMAIN insts /\ n \in DOMAIN Subsequence(insts, K)
  BY DEF Others
<1> HIDE DEF K
<1>2. PICK k \in K : Subsequence(insts, K)[n] = insts[k]
  BY <1>1, SubsequenceElement
<1> QED BY <1>2 DEF Others, K

(* The sync of the generation in force, or its primary, takes over. *)
LEMMA Takeover ==
  ASSUME ChainInv, NEW p \in Peers, NEW l, Ready(p, l), l.state # NoState,
         l.role \in {"primary", "sync"}, l.gen = l.state.gen,
         l.role = "primary" => ~l.state.singleton,
         NEW wal \in WALs, PresentOf(l.state.async, l) # <<>> \/ Listed(p, l.state.async),
         startTakeover(p, l, wal)
  PROVE  Preserves
<1> DEFINE present == PresentOf(l.state.async, l)
           async == Others(present, {present[1].id})
           deposed == IF l.state.primary.id = p THEN l.state.deposed
                      ELSE Append(l.state.deposed, l.state.primary)
<1>1. l \in PeerState /\ l.state \in ClusterState
  BY ReadyFacts DEF Ready
<1>2. CASE Listed(p, l.state.async)
  BY <1>2, PanicPreserves DEF startTakeover, PanicReason
<1>3. CASE ~Listed(p, l.state.async)
  <2>1. present \in Seq(Instance) /\ present # <<>>
    BY <1>1, <1>3, FilterTypes DEF ClusterState
  <2>2. startTakeoverWithPeer(p, l, l.state.initWAL, wal, present[1], async, deposed)
    BY <1>3 DEF startTakeover
  <2> HIDE DEF present
  <2>3. present[1] \in Instance
    BY <2>1
  <2>4. async \in Seq(Instance)
    BY <2>1, FilterTypes
  <2>5. deposed \in Seq(Instance)
    BY <1>1 DEF ClusterState
  <2>6. l.stateIndex = Len(meta) =>
          /\ ~Current.singleton /\ p \in {Current.primary.id, Current.sync.id}
          /\ l.state.initWAL = Current.initWAL
    BY Decided
  <2> HIDE DEF async, deposed
  <2> QED BY <2>2, <2>3, <2>4, <2>5, <2>6, TakeoverWithPeer
<1> QED BY <1>2, <1>3

(* startTransitionToNormalMode: a singleton primary takes a sync. *)
LEMMA TransitionToNormalMode ==
  ASSUME ChainInv, NEW p \in Peers, NEW l, Ready(p, l), l.state # NoState,
         l.state.singleton, NEW wal \in WALs, startTransitionToNormalMode(p, l, wal)
  PROVE  Preserves
<1> DEFINE others == Others(peersOf(l), {p})
           sync == others[Len(others)]
           async == Others(others, {sync.id})
<1>1. l \in PeerState
  BY DEF Ready
<1>2. others \in Seq(Instance)
  BY ReadyFacts, FilterTypes
<1>3. CASE l.state.primary.id = p /\ others # <<>>
  <2>1. Len(others) \in DOMAIN others
    BY <1>2, <1>3
  <2>2. sync.id # p
    BY <2>1, ReadyFacts, OthersElement
  <2>3. startTakeoverWithPeer(p, l, 0, wal, sync, async, <<>>)
    BY <1>3 DEF startTransitionToNormalMode
  <2> HIDE DEF others
  <2>4. sync \in Instance
    BY <1>2, <2>1
  <2>5. async \in Seq(Instance) /\ <<>> \in Seq(Instance)
    BY <1>2, FilterTypes
  <2>6. l.stateIndex = Len(meta) => Current.singleton /\ Current.primary.id = p
    BY <1>3, Decided
  <2> HIDE DEF sync, async
  <2> QED BY <2>2, <2>3, <2>4, <2>5, <2>6, TakeoverWithPeer
<1>4. CASE Become(p, l)
  BY <1>1, <1>4, BecomePreserves DEF Ready
<1>5. CASE Become(p, Panicked(l, "role"))
  BY <1>5, PanicPreserves DEF PanicReason
<1> HIDE DEF others
<1> QED BY <1>3, <1>4, <1>5 DEF startTransitionToNormalMode, others

(* newAsync returns a list of instances. *)
LEMMA NewAsyncType ==
  ASSUME NEW l, l.state \in ClusterState, peersOf(l) \in Seq(Instance)
  PROVE  newAsync(l) \in Seq(Instance)
<1> DEFINE kept == PresentOf(l.state.async, l) \o PresentOf(l.state.deposed, l)
           new == Others(peersOf(l), {l.state.primary.id, l.state.sync.id} \cup Identities(kept))
<1>1. kept \in Seq(Instance)
  <2>1. PresentOf(l.state.async, l) \in Seq(Instance)
    BY FilterTypes DEF ClusterState
  <2>2. PresentOf(l.state.deposed, l) \in Seq(Instance)
    BY FilterTypes DEF ClusterState
  <2> QED BY <2>1, <2>2
<1>2. new \in Seq(Instance)
  BY FilterTypes
<1>3. newAsync(l) = kept \o new
  BY DEF newAsync
<1> HIDE DEF kept, new
<1> QED BY <1>1, <1>2, <1>3

(* startUpdateAsyncs rewrites the lists and leaves the generation alone. *)
LEMMA UpdateAsyncs ==
  ASSUME ChainInv, NEW p \in Peers, NEW l, Ready(p, l), l.state # NoState,
         ~l.state.singleton, startUpdateAsyncs(p, l)
  PROVE  Preserves
<1> DEFINE s == [l.state EXCEPT !.async = newAsync(l),
                                !.deposed = AbsentOf(l.state.deposed, l),
                                !.freeze = FALSE, !.singleton = FALSE]
           err == [l EXCEPT !.evalCh = TRUE]
           ok == [err EXCEPT !.state = s]
<1>1. l \in PeerState /\ l.state \in ClusterState /\ peersOf(l) \in Seq(Instance)
  BY ReadyFacts DEF Ready
<1>2. CASE l.updating
  BY <1>2, PanicPreserves DEF startUpdateAsyncs, PanicReason
<1>3. CASE ~l.updating
  <2>1. newAsync(l) \in Seq(Instance)
    BY <1>1, NewAsyncType
  <2>2. AbsentOf(l.state.deposed, l) \in Seq(Instance)
    BY <1>1, FilterTypes DEF ClusterState
  <2>3. s \in ClusterState /\ Continues(l.state, s)
    <3>1. l.state.singleton = FALSE
      BY <1>1 DEF ClusterState
    <3> QED BY <1>1, <2>1, <2>2, <3>1 DEF ClusterState, Continues
  <2>4. putClusterState(p, s, ok, err)
    BY <1>3 DEF startUpdateAsyncs
  <2> HIDE DEF s
  <2>5. err \in PeerState /\ Keeps(l, err)
    BY <1>1 DEF PeerState, Keeps, SameData
  <2> HIDE DEF err
  <2>6. /\ ok \in PeerState /\ ok.view = err.view /\ ok.inc = err.inc /\ ok.state = s
        /\ ok.stateIndex = err.stateIndex /\ ok.role = err.role /\ ok.gen = err.gen
        /\ ok.singleton = err.singleton
    BY <2>3, <2>5 DEF PeerState
  <2>7. Ready(p, err) /\ err.stateIndex = l.stateIndex
    BY <2>5, ReadyKeeps DEF Keeps, SameData
  <2>8. ok.stateIndex = Len(meta) => Extends(p, s)
    <3>1. l.stateIndex = Len(meta) => meta # <<>> /\ Continues(Current, s)
      BY <2>3, Decided DEF Continues
    <3> QED BY <2>6, <2>7, <3>1 DEF Extends
  <2> HIDE DEF ok
  <2> QED BY <2>3, <2>4, <2>6, <2>7, <2>8, PutPreserves
<1> QED BY <1>2, <1>3

-----------------------------------------------------------------------------
(* The branches of evalClusterState. *)

(* Leaving evalClusterState changes nothing the decisions depend on. *)
LEMMA ReturnFacts ==
  ASSUME NEW p \in Peers, NEW l, Ready(p, l)
  PROVE  LET r == Return(l) IN
         /\ r \in PeerState /\ Keeps(l, r) /\ Ready(p, r)
         /\ r.state = l.state /\ r.gen = l.gen /\ r.role = l.role
         /\ r.singleton = l.singleton /\ r.view = l.view
         /\ peersOf(r) = peersOf(l)
         /\ \A insts : PresentOf(insts, r) = PresentOf(insts, l)
         /\ canSingletonTakeover(p, l) => canSingletonTakeover(p, r)
<1> DEFINE r == Return(l)
<1>1. r \in PeerState /\ Keeps(l, r)
  BY DEF Ready, Return, PeerState, Keeps, SameData
<1>2. Ready(p, r)
  BY <1>1, ReadyKeeps
<1>3. r.state = l.state /\ r.gen = l.gen /\ r.role = l.role
      /\ r.singleton = l.singleton /\ r.view = l.view
  BY <1>1 DEF Keeps, SameData
<1> HIDE DEF r
<1>4. peersOf(r) = peersOf(l)
  BY <1>3 DEF peersOf
<1>5. \A insts : PresentOf(insts, r) = PresentOf(insts, l)
  BY <1>4 DEF PresentOf, peerIsPresent
<1>6. canSingletonTakeover(p, l) => canSingletonTakeover(p, r)
  BY <1>3, <1>4 DEF canSingletonTakeover, peerIsPresent
<1> QED BY <1>1, <1>2, <1>3, <1>4, <1>5, <1>6 DEF r

(* An evaluation that decides nothing. *)
LEMMA ReturnPreserves ==
  ASSUME ChainInv, NEW p \in Peers, NEW l, Ready(p, l), Become(p, Return(l))
  PROVE  Preserves
BY ReturnFacts, KeepsPreserves

(* A change of role within a generation. *)
LEMMA RolePreserves ==
  ASSUME ChainInv, NEW p \in Peers, NEW l, Ready(p, l), NEW n \in PeerState,
         SameData(l, n), n.role = "primary" => l.role = "primary",
         n.role = "sync" => ~n.singleton /\ l.role = "sync", Become(p, n)
  PROVE  Preserves
<1>1. l \in PeerState /\ LocalInv(p, l, meta, registry) /\ l.view # 0 /\ l.inc # 0
      /\ meta \in Seq(ClusterState)
  BY DEF Ready, ChainInv, TypeOK
<1>2. LocalInv(p, n, meta, registry)
  BY <1>1, LocalRole
<1> QED BY <1>2, BecomePreserves

(* The role of a peer at the start of a generation. *)
LEMMA LocalFresh ==
  ASSUME ChainInv, NEW p \in Peers, NEW b, Ready(p, b), b.state # NoState,
         NEW n \in PeerState, n.state = b.state, n.stateIndex = b.stateIndex,
         n.view = b.view, n.inc = b.inc, n.gen = n.state.gen,
         n.role = "primary" => n.state.primary.id = p,
         n.role = "sync" => ~n.singleton /\ n.state.sync.id = p
  PROVE  LocalInv(p, n, meta, registry)
<1> DEFINE i == b.stateIndex
<1>1. b \in PeerState /\ LocalInv(p, b, meta, registry) /\ b.view # 0 /\ b.inc # 0
  BY DEF Ready
<1>2. i \in DOMAIN meta /\ Copy(b.state, meta[i]) /\ b.state \in ClusterState
      /\ meta[i] \in ClusterState
  BY ReadyFacts DEF ChainInv, TypeOK
<1>3. meta[i].gen = b.state.gen /\ meta[i].primary.id = b.state.primary.id
      /\ meta[i].sync = b.state.sync
  BY <1>2 DEF Copy, ClusterState
<1> QED BY <1>1, <1>2, <1>3 DEF LocalInv

(* evalInitClusterState on a state of a generation new to the peer. *)
LEMMA InitClusterState ==
  ASSUME ChainInv, NEW p \in Peers, NEW b, Ready(p, b), b.state # NoState,
         b.role # "primary",
         NEW l \in PeerState, l.state = b.state, l.stateIndex = b.stateIndex,
         l.view = b.view, l.inc = b.inc, l.role = b.role, l.singleton = b.singleton,
         l.gen = l.state.gen, evalInitClusterState(p, l)
  PROVE  Preserves
<1>1. l.state \in ClusterState /\ (l.role = "sync" => ~l.singleton)
  BY ReadyFacts DEF Ready, LocalInv
<1>2. CASE l.state.primary.id = p /\ Become(p, assumePrimary(l))
  <2> DEFINE n == assumePrimary(l)
  <2>1. n \in PeerState /\ SameData(l, n) /\ n.role = "primary"
    BY <1>1, AssumePrimaryType
  <2> HIDE DEF n
  <2>2. LocalInv(p, n, meta, registry)
    BY <1>2, <2>1, LocalFresh DEF SameData
  <2> QED BY <1>2, <2>1, <2>2, BecomePreserves DEF n
<1>3. CASE canSingletonTakeover(p, l) /\ startSingletonTakeover(p, l)
  <2>1. l.role # "sync"
    BY <1>1, <1>3 DEF canSingletonTakeover
  <2>2. LocalInv(p, l, meta, registry)
    BY <2>1, LocalFresh
  <2>3. Ready(p, l)
    BY <2>2 DEF Ready
  <2> QED BY <1>3, <2>3, SingletonTakeover
<1>4. CASE Become(p, assumeListedRole(p, l))
  <2> DEFINE n == assumeListedRole(p, l)
  <2>1. /\ n \in PeerState /\ SameData(l, n) /\ n.role # "primary"
        /\ n.role = "sync" => l.state.sync.id = p /\ ~n.singleton
    BY <1>1, ListedRoleType
  <2> HIDE DEF n
  <2>2. LocalInv(p, n, meta, registry)
    BY <2>1, LocalFresh DEF SameData
  <2> QED BY <1>4, <2>1, <2>2, BecomePreserves DEF n
<1> QED BY <1>2, <1>3, <1>4 DEF evalInitClusterState

(* The evaluation of a peer without a cluster state. *)
LEMMA NoStatePreserves ==
  ASSUME ChainInv, NEW p \in Peers, NEW l, Ready(p, l), EvalNoState(p, l)
  PROVE  Preserves
<1> DEFINE r == Return(l)
<1>1. /\ r \in PeerState /\ Ready(p, r) /\ r.state = l.state
      /\ r.singleton = l.singleton /\ peersOf(r) = peersOf(l)
  BY ReturnFacts
<1>2. CASE Become(p, r)
  BY <1>2, ReturnPreserves
<1>3. CASE (l.singleton \/ Len(peersOf(l)) > 1) /\ startInitialSetup(p, r)
  <2>1. r.state = NoState
    BY <1>1 DEF EvalNoState
  <2> HIDE DEF r
  <2> QED BY <1>1, <1>3, <2>1, InitialSetup
<1>4. CASE Become(p, assumeUnassigned(r))
  <2> DEFINE n == assumeUnassigned(r)
  <2> HIDE DEF r
  <2>1. n \in PeerState /\ SameData(r, n) /\ n.role = "unassigned"
    BY <1>1, AssumeTypes
  <2> HIDE DEF n
  <2> QED BY <1>1, <1>4, <2>1, RolePreserves DEF n
<1> QED BY <1>2, <1>3, <1>4 DEF EvalNoState

(* The evaluation of a state of another generation. *)
LEMMA NewGenerationPreserves ==
  ASSUME ChainInv, NEW p \in Peers, NEW l, Ready(p, l), EvalNewGeneration(p, l)
  PROVE  Preserves
<1> DEFINE r == Return(l)
           new == [r EXCEPT !.gen = l.state.gen]
<1>1. r \in PeerState /\ Ready(p, r) /\ r.state = l.state /\ r.role = l.role
  BY ReturnFacts
<1>2. l.state # NoState /\ l.state \in ClusterState
  BY ReadyFacts DEF EvalNewGeneration, Usable
<1> HIDE DEF r
<1>3. /\ new \in PeerState /\ new.state = r.state /\ new.stateIndex = r.stateIndex
      /\ new.view = r.view /\ new.inc = r.inc /\ new.role = r.role
      /\ new.singleton = r.singleton /\ new.gen = new.state.gen
  BY <1>1, <1>2 DEF PeerState, ClusterState
<1> HIDE DEF new
<1>4. CASE l.role = "primary" /\ l.state.primary.id = p /\ Become(p, new)
  <2>1. LocalInv(p, new, meta, registry)
    BY <1>1, <1>2, <1>3, <1>4, LocalFresh
  <2> QED BY <1>3, <1>4, <2>1, BecomePreserves
<1>5. CASE Become(p, assumeDeposed(new))
  <2> DEFINE n == assumeDeposed(new)
  <2>1. n \in PeerState /\ SameData(new, n) /\ n.role = "deposed"
    BY <1>3, AssumeTypes
  <2> HIDE DEF n
  <2>2. LocalInv(p, n, meta, registry)
    BY <1>1, <1>2, <1>3, <2>1, LocalFresh DEF SameData
  <2> QED BY <1>5, <2>1, <2>2, BecomePreserves DEF n
<1>6. CASE l.role # "primary" /\ evalInitClusterState(p, new)
  BY <1>1, <1>2, <1>3, <1>6, InitClusterState
<1> QED BY <1>4, <1>5, <1>6 DEF EvalNewGeneration, r, new

(* The evaluation of an unassigned peer. *)
LEMMA UnassignedPreserves ==
  ASSUME ChainInv, NEW p \in Peers, NEW l, Ready(p, l), EvalUnassigned(p, l)
  PROVE  Preserves
<1> DEFINE r == Return(l)
           k == whichAsync(p, l.state)
<1>1. /\ r \in PeerState /\ Ready(p, r) /\ r.state = l.state /\ r.role = l.role
      /\ canSingletonTakeover(p, l) => canSingletonTakeover(p, r)
  BY ReturnFacts
<1>2. l.state # NoState /\ l.state \in ClusterState /\ l.role = "unassigned"
  BY ReadyFacts DEF EvalUnassigned, InRole, Usable
<1>3. CASE Become(p, r)
  BY <1>3, ReturnPreserves
<1> HIDE DEF r
<1>4. CASE k # 0 /\ Become(p, assumeAsync(r, k))
  <2> DEFINE n == assumeAsync(r, k)
  <2>1. k \in DOMAIN r.state.async
    BY <1>1, <1>2, <1>4, WhichAsync
  <2> HIDE DEF k
  <2>2. n \in PeerState /\ SameData(r, n) /\ n.role \in {"async", "unassigned"}
    BY <1>1, <1>2, <2>1, AssumeAsyncType
  <2> HIDE DEF n
  <2> QED BY <1>1, <1>4, <2>2, RolePreserves DEF n
<1>5. CASE canSingletonTakeover(p, l) /\ startSingletonTakeover(p, r)
  BY <1>1, <1>2, <1>5, SingletonTakeover
<1> QED BY <1>3, <1>4, <1>5 DEF EvalUnassigned, r

(* The evaluation of an async. *)
LEMMA AsyncPreserves ==
  ASSUME ChainInv, NEW p \in Peers, NEW l, Ready(p, l), EvalAsync(p, l)
  PROVE  Preserves
<1> DEFINE r == Return(l)
           k == whichAsync(p, l.state)
<1>1. r \in PeerState /\ Ready(p, r) /\ r.state = l.state /\ r.role = l.role
  BY ReturnFacts
<1>2. l.state # NoState /\ l.state \in ClusterState /\ l.role = "async"
  BY ReadyFacts DEF EvalAsync, InRole, Usable
<1>3. CASE Become(p, r)
  BY <1>3, ReturnPreserves
<1> HIDE DEF r
<1>4. CASE Become(p, assumeUnassigned(r))
  <2> DEFINE n == assumeUnassigned(r)
  <2>1. n \in PeerState /\ SameData(r, n) /\ n.role = "unassigned"
    BY <1>1, AssumeTypes
  <2> HIDE DEF n
  <2> QED BY <1>1, <1>4, <2>1, RolePreserves DEF n
<1>5. CASE k # 0 /\ Become(p, assumeAsync(r, k))
  <2> DEFINE n == assumeAsync(r, k)
  <2>1. k \in DOMAIN r.state.async
    BY <1>1, <1>2, <1>5, WhichAsync
  <2> HIDE DEF k
  <2>2. n \in PeerState /\ SameData(r, n) /\ n.role = "async"
    BY <1>1, <1>2, <2>1, AssumeAsyncType
  <2> HIDE DEF n
  <2> QED BY <1>1, <1>5, <2>2, RolePreserves DEF n
<1> QED BY <1>3, <1>4, <1>5 DEF EvalAsync, r

(* The evaluation of the sync, takeover included. *)
LEMMA SyncPreserves ==
  ASSUME ChainInv, NEW p \in Peers, NEW l, Ready(p, l), NEW wal \in WALs,
         EvalSync(p, l, wal)
  PROVE  Preserves
<1> DEFINE r == Return(l)
<1>1. /\ r \in PeerState /\ Ready(p, r) /\ r.state = l.state /\ r.role = l.role
      /\ r.gen = l.gen /\ PresentOf(l.state.async, r) = PresentOf(l.state.async, l)
  BY ReturnFacts
<1>2. /\ l.state # NoState /\ l.state \in ClusterState /\ l.role = "sync"
      /\ l.gen = l.state.gen /\ l \in PeerState /\ ~l.singleton
  BY ReadyFacts DEF EvalSync, InRole, Usable, Ready, LocalInv
<1>3. CASE Become(p, r)
  BY <1>3, ReturnPreserves
<1> HIDE DEF r
<1>4. CASE /\ PresentOf(l.state.async, l) # <<>> \/ Listed(p, l.state.async)
           /\ startTakeover(p, r, wal)
  BY <1>1, <1>2, <1>4, Takeover
<1>5. CASE Become(p, assumeSync(l))
  <2> DEFINE n == assumeSync(l)
  <2>1. n \in PeerState /\ SameData(l, n) /\ n.role = "sync"
    BY <1>2, AssumeSyncType
  <2>2. ~n.singleton
    BY <1>2 DEF assumeSync, PeerState
  <2> HIDE DEF n
  <2> QED BY <1>2, <1>5, <2>1, <2>2, RolePreserves DEF n
<1> QED BY <1>3, <1>4, <1>5 DEF EvalSync, r

(* The evaluation of a deposed peer. *)
LEMMA DeposedPreserves ==
  ASSUME ChainInv, NEW p \in Peers, NEW l, Ready(p, l), EvalDeposed(p, l)
  PROVE  Preserves
<1> DEFINE r == Return(l)
<1>1. r \in PeerState /\ Ready(p, r) /\ r.state = l.state /\ r.role = l.role /\ r.gen = l.gen
  BY ReturnFacts
<1>2. l.state # NoState /\ l.role = "deposed" /\ l.gen = l.state.gen
  BY DEF EvalDeposed, InRole, Usable
<1>3. CASE Become(p, r)
  BY <1>3, ReturnPreserves
<1> HIDE DEF r
<1>4. CASE evalInitClusterState(p, r)
  BY <1>1, <1>2, <1>4, InitClusterState
<1> QED BY <1>3, <1>4 DEF EvalDeposed, r

(* A restarted primary writes its own new instance. *)
LEMMA PrimaryInstancePreserves ==
  ASSUME ChainInv, NEW p \in Peers, NEW l, Ready(p, l), EvalPrimaryInstance(p, l)
  PROVE  Preserves
<1> DEFINE s == [l.state EXCEPT !.primary = self(p)]
           n == [l EXCEPT !.state = s, !.updating = FALSE]
<1>1. /\ l \in PeerState /\ l.state # NoState /\ l.state \in ClusterState
      /\ l.stateIndex \in DOMAIN meta /\ Copy(l.state, meta[l.stateIndex])
      /\ meta[l.stateIndex] \in ClusterState
      /\ self(p) \in Instance /\ self(p).id = p /\ l.state.primary.id = p
  BY ReadyFacts DEF EvalPrimaryInstance, InRole, Usable, Ready, ChainInv, TypeOK
<1>2. s \in ClusterState /\ Continues(l.state, s)
  BY <1>1 DEF ClusterState, Continues
<1>3. Copy(s, meta[l.stateIndex])
  <2> DEFINE m == meta[l.stateIndex]
  <2>1. m \in ClusterState /\ l.state = [m EXCEPT !.primary = l.state.primary] /\ m.primary.id = p
    BY <1>1 DEF Copy
  <2>2. s.primary = self(p) /\ s.primary.id = p
    BY <1>1 DEF ClusterState
  <2> HIDE DEF m
  <2>3. s = [m EXCEPT !.primary = self(p)]
    BY <2>1 DEF ClusterState
  <2> HIDE DEF s
  <2> QED BY <2>1, <2>2, <2>3 DEF Copy, m
<1>4. putClusterState(p, s, n, n)
  BY DEF EvalPrimaryInstance
<1> HIDE DEF s
<1>5. /\ n \in PeerState /\ n.view = l.view /\ n.inc = l.inc /\ n.stateIndex = l.stateIndex
      /\ n.role = l.role /\ n.gen = l.gen /\ n.singleton = l.singleton /\ n.state = s
  BY <1>1, <1>2 DEF PeerState
<1> HIDE DEF n
<1>6. Ready(p, n)
  <2>1. LocalInv(p, l, meta, registry) /\ l.stateIndex # 0 /\ l.view # 0 /\ l.inc # 0
    BY <1>1 DEF Ready, ChainInv, TypeOK
  <2>2. LocalInv(p, n, meta, registry)
    BY <1>3, <1>5, <2>1 DEF LocalInv
  <2> QED BY <1>5, <2>2 DEF Ready
<1>7. n.stateIndex = Len(meta) => Extends(p, s)
  <2>1. l.stateIndex = Len(meta) => meta # <<>> /\ Continues(Current, s)
    BY <1>1, <1>2, Decided DEF Continues
  <2> QED BY <1>5, <2>1 DEF Extends
<1> QED BY <1>2, <1>4, <1>5, <1>6, <1>7, PutPreserves

(* The evaluation of a primary outside singleton mode. *)
LEMMA PrimaryNormalPreserves ==
  ASSUME ChainInv, NEW p \in Peers, NEW l, Ready(p, l), NEW wal \in WALs,
         l.state # NoState, l.role = "primary", l.gen = l.state.gen,
         ~l.state.singleton, EvalPrimaryNormal(p, l, wal)
  PROVE  Preserves
<1>1. l \in PeerState /\ LocalInv(p, l, meta, registry)
  BY DEF Ready
<1>2. CASE Become(p, l)
  BY <1>1, <1>2, BecomePreserves
<1>3. CASE Become(p, Panicked(l, "self"))
  BY <1>3, PanicPreserves DEF PanicReason
<1>4. CASE PresentOf(l.state.async, l) # <<>> /\ startTakeover(p, l, wal)
  BY <1>4, Takeover
<1>5. CASE startUpdateAsyncs(p, l)
  BY <1>5, UpdateAsyncs
<1> QED BY <1>2, <1>3, <1>4, <1>5 DEF EvalPrimaryNormal

(* The evaluation of the primary. *)
LEMMA PrimaryPreserves ==
  ASSUME ChainInv, NEW p \in Peers, NEW l, Ready(p, l), NEW wal \in WALs,
         EvalPrimary(p, l, wal)
  PROVE  Preserves
<1> DEFINE r == Return(l)
<1>1. r \in PeerState /\ Ready(p, r) /\ r.state = l.state /\ r.role = l.role /\ r.gen = l.gen
  BY ReturnFacts
<1>2. l.state # NoState /\ l.role = "primary" /\ l.gen = l.state.gen
  BY DEF EvalPrimary, InRole, Usable
<1>3. CASE Become(p, r)
  BY <1>3, ReturnPreserves
<1> HIDE DEF r
<1>4. CASE l.state.singleton /\ startTransitionToNormalMode(p, r, wal)
  BY <1>1, <1>2, <1>4, TransitionToNormalMode
<1>5. CASE ~l.state.singleton /\ EvalPrimaryNormal(p, r, wal)
  BY <1>1, <1>2, <1>5, PrimaryNormalPreserves
<1> QED BY <1>3, <1>4, <1>5 DEF EvalPrimary, r

(* Every evaluation, whatever it was triggered by. *)
LEMMA EvaluationPreserves ==
  ASSUME ChainInv, NEW p \in Peers, NEW l \in Evaluating(p), NEW wal \in WALs,
         evalClusterState(p, l, wal)
  PROVE  Preserves
<1>1. Ready(p, l)
  BY EvaluatingReady
<1>2. CASE EvalSingletonInNormalMode(p, l)
  BY <1>1, <1>2, PanicPreserves DEF EvalSingletonInNormalMode, PanicReason
<1>3. CASE EvalUnknownRole(p, l)
  BY <1>1, <1>3, PanicPreserves DEF EvalUnknownRole, PanicReason
<1> QED BY <1>1, <1>2, <1>3, NoStatePreserves, NewGenerationPreserves,
           UnassignedPreserves, AsyncPreserves, SyncPreserves, DeposedPreserves,
           PrimaryInstancePreserves, PrimaryPreserves DEF evalClusterState

-----------------------------------------------------------------------------
(* The other actions. *)

(* The configuration a peer asks of its database has its type. *)
LEMMA ConfigType ==
  ASSUME NEW l \in PeerState
  PROVE  DesiredConfig(l) \in Config
<1>1. CASE l.role \in {"primary", "sync", "async"}
  BY <1>1 DEF DesiredConfig, Config, PeerState
<1>2. CASE l.role \notin {"primary", "sync", "async"}
  BY <1>2, Constructors DEF DesiredConfig, Config
<1> QED BY <1>1, <1>2

(* applyConfig and triggerEval, the other steps of the event loop. *)
LEMMA LoopPreserves ==
  ASSUME ChainInv, NEW p \in Peers, applyConfig(p) \/ triggerEval(p)
  PROVE  Preserves
<1> DEFINE o == peer[p]
<1>1. o \in PeerState /\ LocalInv(p, o, meta, registry)
  BY DEF ChainInv, TypeOK
<1>2. CASE applyConfig(p)
  <2> DEFINE n == [o EXCEPT !.applied = DesiredConfig(o)]
  <2>1. DesiredConfig(o) \in Config
    BY <1>1, ConfigType
  <2>2. n \in PeerState /\ LocalInv(p, n, meta, registry)
    BY <1>1, <2>1 DEF PeerState, LocalInv
  <2>3. Become(p, n)
    BY <1>2 DEF applyConfig
  <2> HIDE DEF n
  <2> QED BY <2>2, <2>3, BecomePreserves
<1>3. CASE triggerEval(p)
  <2> DEFINE n == [o EXCEPT !.evalTimer = FALSE, !.evalCh = TRUE]
  <2>1. n \in PeerState /\ LocalInv(p, n, meta, registry)
    BY <1>1 DEF PeerState, LocalInv
  <2>2. Become(p, n)
    BY <1>3 DEF triggerEval
  <2> HIDE DEF n
  <2> QED BY <2>1, <2>2, BecomePreserves
<1> QED BY <1>2, <1>3

(* Appending gives a non-empty sequence of the same type. *)
LEMMA AppendNonEmpty ==
  ASSUME NEW S, NEW s \in Seq(S), NEW e \in S
  PROVE  Append(s, e) \in Seq(S) /\ Append(s, e) # <<>>
<1>1. Append(s, e) \in Seq(S)
  OBVIOUS
<1>2. Len(Append(s, e)) = Len(s) + 1 /\ Len(s) \in Nat
  OBVIOUS
<1>3. Append(s, e) # <<>>
  BY <1>2
<1> QED BY <1>1, <1>3

(* A job that starts or ends, and any change of the instance list. *)
LEMMA JobPreserves ==
  ASSUME ChainInv, NEW p \in Peers, NEW n \in PeerState,
         LocalInv(p, n, meta, registry), peer' = [peer EXCEPT ![p] = n],
         meta' = meta, NEW insts \in Seq(Instance),
         registry' = registry \/ registry' = Append(registry, insts),
         stamp' = stamp \/ stamp' = Append(stamp, Len(meta)),
         faults' \in 0..MaxFaults, losses' = losses
  PROVE  Preserves
<1>1. /\ meta \in Seq(ClusterState) /\ registry \in Seq(Seq(Instance)) /\ registry # <<>>
      /\ peer \in [Peers -> PeerState] /\ losses \in 0..MaxLosses
  BY DEF ChainInv, TypeOK
<1>2. registry' \in Seq(Seq(Instance)) /\ registry' # <<>>
  BY <1>1, AppendNonEmpty
<1>3. TypeOK'
  <2>1. stamp' \in Seq(Nat)
    <3>1. stamp \in Seq(Nat) /\ Len(meta) \in Nat
      BY DEF ChainInv, TypeOK
    <3>2. Append(stamp, Len(meta)) \in Seq(Nat)
      BY <3>1, AppendProperties, Zenon
    <3> QED BY <3>1, <3>2, Zenon
  <2> QED BY <1>1, <1>2, <2>1 DEF TypeOK
<1>4. ASSUME NEW q \in Peers, NEW l \in PeerState, LocalInv(q, l, meta, registry)
      PROVE  LocalInv(q, l, meta', registry')
  <2>1. CASE registry' = registry
    BY <1>4, <2>1
  <2>2. CASE registry' = Append(registry, insts)
    <3>1. l.view <= Len(registry')
      BY <1>1, <1>4, <2>2 DEF LocalInv, PeerState
    <3> QED BY <1>4, <3>1 DEF LocalInv
  <2> QED BY <2>1, <2>2
<1>5. ASSUME NEW q \in Peers PROVE LocalInv(q, peer'[q], meta', registry')
  BY <1>1, <1>4 DEF ChainInv
<1>6. Generation' = Generation
  BY DEF Generation, GenerationOf, Current
<1> QED BY <1>3, <1>5, <1>6 DEF Preserves, ChainInv

(* A peer that starts, or is down, satisfies the local invariant. *)
LEMMA NewPeerInv ==
  ASSUME NEW p \in Peers, NEW inc \in 0..MaxInc, NEW singleton \in BOOLEAN,
         NEW pc \in {"down", "run"}, pc = "run" => inc # 0
  PROVE  NewPeer(pc, inc, singleton) \in PeerState
         /\ (ChainInv => LocalInv(p, NewPeer(pc, inc, singleton), meta, registry))
<1> DEFINE n == NewPeer(pc, inc, singleton)
<1>1. n \in PeerState
  BY Constructors DEF NewPeer, PeerState, Role
<1>2. n.pc = pc /\ n.inc = inc /\ n.role = "unknown" /\ n.state = NoState
      /\ n.stateIndex = 0 /\ n.view = 0
  BY DEF NewPeer
<1> HIDE DEF n
<1>3. ASSUME ChainInv PROVE LocalInv(p, n, meta, registry)
  <2>1. Len(meta) \in Nat /\ Len(registry) \in Nat
    BY <1>3 DEF ChainInv, TypeOK
  <2> QED BY <1>2, <2>1 DEF LocalInv
<1> QED BY <1>1, <1>3 DEF n

(* Jobs that start, crash and register, discoverd, and the faults. *)
LEMMA EnvironmentPreserves ==
  ASSUME ChainInv, NEW p \in Peers, Environment(p)
  PROVE  Preserves
<1> DEFINE o == peer[p]
<1>1. /\ o \in PeerState /\ LocalInv(p, o, meta, registry)
      /\ peer = [peer EXCEPT ![p] = o] /\ faults \in 0..MaxFaults
      /\ registry \in Seq(Seq(Instance)) /\ registry # <<>>
      /\ peer \in [Peers -> PeerState] /\ o.inc \in 0..MaxInc /\ o.singleton \in BOOLEAN
  BY DEF ChainInv, TypeOK, PeerState
<1>2. instances \in Seq(Instance)
  BY <1>1 DEF instances
<1>3. \A i : Without(instances, i) \in Seq(Instance)
  <2> TAKE i
  <2>1. {k \in DOMAIN instances : instances[k] # i} \in SUBSET DOMAIN instances
    OBVIOUS
  <2> QED BY <1>2, <2>1, SubsequenceType DEF Without
<1>4. Fault => faults' \in 0..MaxFaults
  BY <1>1, BoundsAssumption DEF Fault
<1>5. CASE \E singleton \in SingletonModes : StartPeer(p, singleton)
  <2>1. PICK singleton \in SingletonModes : StartPeer(p, singleton)
    BY <1>5
  <2> DEFINE inc == o.inc + 1
             n == NewPeer("run", inc, singleton)
             insts == Append(instances, [id |-> p, inc |-> inc])
  <2>2. inc \in 0..MaxInc /\ inc # 0 /\ inc \in 1..MaxInc /\ singleton \in BOOLEAN
    BY <1>1, <2>1, ModesAssumption, BoundsAssumption DEF StartPeer
  <2>3. /\ peer' = [peer EXCEPT ![p] = n] /\ meta' = meta
        /\ registry' = Append(registry, insts) /\ stamp' = Append(stamp, Len(meta))
        /\ faults' = faults /\ losses' = losses
    BY <2>1 DEF StartPeer, SetInstances
  <2> HIDE DEF inc
  <2>4. insts \in Seq(Instance)
    BY <1>2, <2>2 DEF Instance
  <2>5. n \in PeerState /\ LocalInv(p, n, meta, registry)
    BY <2>2, NewPeerInv
  <2> HIDE DEF n, insts
  <2> QED BY <1>1, <2>3, <2>4, <2>5, JobPreserves
<1> DEFINE d == NewPeer("down", o.inc, o.singleton)
<1>6. d \in PeerState /\ LocalInv(p, d, meta, registry)
  BY <1>1, NewPeerInv
<1>7. CASE StopPeer(p)
  <2>1. /\ peer' = [peer EXCEPT ![p] = d] /\ meta' = meta
        /\ registry' = Append(registry, Without(instances, self(p)))
        /\ stamp' = Append(stamp, Len(meta))
        /\ faults' \in 0..MaxFaults /\ losses' = losses
    BY <1>1, <1>4, <1>7 DEF StopPeer, SetInstances
  <2> HIDE DEF d
  <2> QED BY <1>3, <1>6, <2>1, JobPreserves
<1>8. CASE CrashPeer(p)
  <2>1. /\ peer' = [peer EXCEPT ![p] = d] /\ meta' = meta /\ registry' = registry
        /\ stamp' = stamp /\ faults' \in 0..MaxFaults /\ losses' = losses
    BY <1>1, <1>4, <1>8 DEF CrashPeer
  <2> HIDE DEF d
  <2> QED BY <1>2, <1>6, <2>1, JobPreserves
<1>9. CASE ExpireDead(p)
  <2>1. PICK i : /\ registry' = Append(registry, Without(instances, i))
                 /\ stamp' = Append(stamp, Len(meta))
                 /\ peer' = peer /\ meta' = meta /\ faults' = faults /\ losses' = losses
    BY <1>9 DEF ExpireDead, SetInstances
  <2> QED BY <1>1, <1>3, <2>1, JobPreserves
<1>10. CASE ExpireLive(p)
  <2>1. /\ registry' = Append(registry, Without(instances, self(p)))
        /\ stamp' = Append(stamp, Len(meta))
        /\ peer' = peer /\ meta' = meta /\ faults' \in 0..MaxFaults /\ losses' = losses
    BY <1>4, <1>10 DEF ExpireLive, SetInstances
  <2> QED BY <1>1, <1>3, <2>1, JobPreserves
<1>11. CASE Reregister(p)
  <2>1. /\ registry' = Append(registry, Append(instances, self(p)))
        /\ stamp' = Append(stamp, Len(meta))
        /\ peer' = peer /\ meta' = meta /\ faults' = faults /\ losses' = losses
    BY <1>11 DEF Reregister, SetInstances
  <2>2. o.inc \in 1..MaxInc
    BY <1>1, <1>11 DEF Reregister, Alive, LocalInv
  <2>3. Append(instances, self(p)) \in Seq(Instance)
    BY <1>2, <2>2 DEF self, Instance
  <2> QED BY <1>1, <2>1, <2>3, JobPreserves
<1> QED BY <1>5, <1>7, <1>8, <1>9, <1>10, <1>11 DEF Environment

(* An operator unfreezes the cluster. *)
LEMMA UnfreezePreserves ==
  ASSUME ChainInv, Unfreeze
  PROVE  Preserves
<1> DEFINE s == [Current EXCEPT !.freeze = FALSE]
           p == s.primary.id
           n == Append(meta, s)
<1>1. /\ meta \in Seq(ClusterState) /\ registry \in Seq(Seq(Instance)) /\ registry # <<>>
      /\ peer \in [Peers -> PeerState] /\ faults \in 0..MaxFaults /\ losses \in 0..MaxLosses
      /\ stamp \in Seq(Nat)
  BY DEF ChainInv, TypeOK
<1>2. meta # <<>> /\ Current \in ClusterState
  BY CurrentType DEF Unfreeze
<1>3. /\ meta' = n /\ registry' = registry /\ stamp' = stamp /\ peer' = peer /\ faults' = faults
      /\ losses' = losses
  BY <1>2 DEF Unfreeze, Current
<1>4. s \in ClusterState /\ Continues(Current, s) /\ p \in Peers
  BY <1>2 DEF ClusterState, Continues, Instance
<1>5. Extends(p, s)
  BY <1>2, <1>4 DEF Extends
<1> HIDE DEF s
<1>6. /\ n \in Seq(ClusterState) /\ Len(n) = Len(meta) + 1 /\ n[Len(n)] = s
      /\ \A i \in DOMAIN meta : i \in DOMAIN n /\ n[i] = meta[i]
      /\ \A i \in DOMAIN n : i \in DOMAIN meta \/ i = Len(n)
      /\ \A i \in DOMAIN meta : i < Len(n)
  BY <1>1, <1>4
<1>7. ASSUME NEW q \in Peers PROVE LocalInv(q, peer[q], n, registry)
  <2>1. peer[q] \in PeerState /\ LocalInv(q, peer[q], meta, registry)
    BY <1>1 DEF ChainInv
  <2> QED BY <1>1, <1>4, <2>1, LocalMonotone
<1>8. TypeOK'
  BY <1>1, <1>3, <1>6 DEF TypeOK
<1>9. (\A i \in DOMAIN meta : Chain(meta[i], s)) /\ (s.singleton => s.sync = NoInst)
  BY <1>4, <1>5, ExtensionChain
<1>10. Chain(s, s)
  BY <1>4 DEF Chain, ClusterState
<1> HIDE DEF n
<1>11. ASSUME NEW i \in DOMAIN n, NEW j \in DOMAIN n, i <= j PROVE Chain(n[i], n[j])
  <2>1. CASE j \in DOMAIN meta
    <3>1. i \in DOMAIN meta
      BY <1>1, <1>6, <1>11, <2>1
    <3> QED BY <1>6, <1>11, <2>1, <3>1 DEF ChainInv
  <2>2. CASE j = Len(n)
    BY <1>6, <1>9, <1>10, <2>2
  <2> QED BY <1>6, <2>1, <2>2
<1>12. ASSUME NEW i \in DOMAIN n PROVE n[i].singleton => n[i].sync = NoInst
  BY <1>6, <1>9 DEF ChainInv
<1>13. [Generations!Next]_Generation
  BY <1>3, <1>4, <1>5, ExtensionStep DEF n
<1> QED BY <1>3, <1>7, <1>8, <1>11, <1>12, <1>13 DEF Preserves, ChainInv

(* Every step of the system preserves the invariant and refines. *)
LEMMA StepPreserves ==
  ASSUME ChainInv, [Next]_vars
  PROVE  Preserves
<1>1. CASE Next
  <2>1. CASE Unfreeze
    BY <2>1, UnfreezePreserves
  <2>2. ASSUME NEW p \in Peers,
               \/ \E l \in Evaluating(p), wal \in WALs : evalClusterState(p, l, wal)
               \/ applyConfig(p)
               \/ triggerEval(p)
               \/ Environment(p)
        PROVE  Preserves
    BY <2>2, EvaluationPreserves, LoopPreserves, EnvironmentPreserves
  <2> QED BY <1>1, <2>1, <2>2 DEF Next
<1>2. CASE UNCHANGED vars
  <2>1. /\ meta' = meta /\ registry' = registry /\ stamp' = stamp /\ peer' = peer
        /\ faults' = faults /\ losses' = losses
    BY <1>2 DEF vars
  <2>2. Generation' = Generation
    BY <2>1 DEF Generation, GenerationOf, Current
  <2> QED BY <2>1, <2>2 DEF Preserves, ChainInv, TypeOK
<1> QED BY <1>1, <1>2

(* The invariant holds of the initial states. *)
LEMMA InitialInv == Init => ChainInv
<1> SUFFICES ASSUME Init PROVE ChainInv
  OBVIOUS
<1> DEFINE n == NewPeer("down", 0, FALSE)
<1>1. /\ meta = <<>> /\ registry = << <<>> >> /\ stamp = <<0>> /\ peer = [p \in Peers |-> n]
      /\ faults = 0 /\ losses = 0
  BY DEF Init
<1>2. n \in PeerState
  BY Constructors, BoundsAssumption DEF NewPeer, PeerState, Role
<1>3. n.pc = "down" /\ n.role = "unknown" /\ n.state = NoState
      /\ n.stateIndex = 0 /\ n.view = 0
  BY DEF NewPeer
<1> HIDE DEF n
<1>4. TypeOK
  BY <1>1, <1>2, BoundsAssumption DEF TypeOK
<1>5. ASSUME NEW p \in Peers PROVE LocalInv(p, peer[p], meta, registry)
  BY <1>1, <1>3 DEF LocalInv
<1> QED BY <1>1, <1>4, <1>5 DEF ChainInv

-----------------------------------------------------------------------------

(* Every reachable state satisfies the inductive invariant: a peer's copy  *)
(* of the cluster state is the metadata at its index, and accepted states  *)
(* of one generation agree on its primary, sync, log position and mode.    *)
THEOREM ChainHolds == Spec => []ChainInv
<1>1. Init => ChainInv
  BY InitialInv
<1>2. ChainInv /\ [Next]_vars => ChainInv'
  BY StepPreserves DEF Preserves
<1> QED BY <1>1, <1>2, PTL DEF Spec

(* Every variable keeps its type, for all sets of peers and all bounds. *)
THEOREM TypesHold == Spec => []TypeOK
<1>1. ChainInv => TypeOK
  BY DEF ChainInv
<1> QED BY <1>1, ChainHolds, PTL

(* Two live peers never act as the primary of the same generation,         *)
(* whatever evalClusterState decides on stale views and however many       *)
(* writes, peers and faults there are.                                     *)
THEOREM OnePrimary == Spec => []OnePrimaryPerGeneration
<1>1. ChainInv => OnePrimaryPerGeneration
  <2> SUFFICES ASSUME ChainInv, NEW p \in Peers, NEW q \in Peers,
                      peer[p].role = "primary", peer[q].role = "primary",
                      peer[p].gen = peer[q].gen
               PROVE  p = q
    BY DEF OnePrimaryPerGeneration
  <2>1. PICK i \in DOMAIN meta : meta[i].gen = peer[p].gen /\ meta[i].primary.id = p
    BY DEF ChainInv, LocalInv
  <2>2. PICK j \in DOMAIN meta : meta[j].gen = peer[q].gen /\ meta[j].primary.id = q
    BY DEF ChainInv, LocalInv
  <2>3. i <= j \/ j <= i
    BY DEF ChainInv, TypeOK
  <2>4. Chain(meta[i], meta[j]) \/ Chain(meta[j], meta[i])
    BY <2>3 DEF ChainInv
  <2> QED BY <2>1, <2>2, <2>4 DEF Chain
<1> QED BY <1>1, ChainHolds, PTL

(* Sirenia implements the chain of generations: every accepted write of    *)
(* putClusterState declares the next generation as its primary or its sync *)
(* may, or leaves the generation alone.                                    *)
THEOREM Refinement == Spec => ImplementsGenerations
<1>1. Init => Generations!Init
  BY DEF Init, Generations!Init, Generations!Initial, Generation, GenerationOf, Current, NoState
<1>2. ChainInv /\ [Next]_vars => [Generations!Next]_Generation
  BY StepPreserves DEF Preserves
<1> QED BY <1>1, <1>2, ChainHolds, PTL DEF Spec, ImplementsGenerations, Generations!Spec

(* From any state that satisfies the invariant, a cluster with a past      *)
(* included, every accepted write of putClusterState is a step of the      *)
(* chain: it skips no generation, is declared by a peer that may, and a    *)
(* takeover has replayed the log up to where the generation before began.  *)
THEOREM StepsFromAnyChain == ChainInv /\ [][Next]_vars => GenerationSteps
<1>1. ChainInv /\ [Next]_vars => ChainInv' /\ [Generations!Next]_Generation
  BY StepPreserves DEF Preserves
<1> QED BY <1>1, PTL DEF GenerationSteps

-----------------------------------------------------------------------------
(* One role for each identity. *)

(* The four parts of a cluster state share no identity. *)
Roles(s) ==
  /\ Once(s.async) /\ Once(s.deposed)
  /\ s.primary.id # s.sync.id
  /\ {s.primary.id, s.sync.id} \cap (Identities(s.async) \cup Identities(s.deposed)) = {}
  /\ Identities(s.async) \cap Identities(s.deposed) = {}

RolesInv == ChainInv /\ (ListedOnce /\ meta # <<>> => Roles(Current))

(* The same where discoverd has listed no identity twice so far. *)
Orderly == RolesInv /\ ListedOnce

(* A concatenation of lists without a common identity. *)
LEMMA OnceConcat ==
  ASSUME NEW a \in Seq(Instance), NEW b \in Seq(Instance), Once(a), Once(b),
         Identities(a) \cap Identities(b) = {}
  PROVE  Once(a \o b)
<1> DEFINE c == a \o b
<1>1. /\ c \in Seq(Instance) /\ Len(a) \in Nat /\ Len(b) \in Nat
      /\ DOMAIN a = 1..Len(a) /\ DOMAIN b = 1..Len(b) /\ DOMAIN c = 1..(Len(a) + Len(b))
      /\ \A k \in DOMAIN c : c[k] = IF k <= Len(a) THEN a[k] ELSE b[k - Len(a)]
  OBVIOUS
<1> HIDE DEF c
<1>2. ASSUME NEW j \in DOMAIN c, NEW k \in DOMAIN c, j < k, c[j].id = c[k].id PROVE FALSE
  <2>1. CASE k <= Len(a)
    <3>1. j \in DOMAIN a /\ k \in DOMAIN a /\ c[j] = a[j] /\ c[k] = a[k] /\ j # k
      BY <1>1, <1>2, <2>1
    <3> QED BY <1>2, <3>1 DEF Once
  <2>2. CASE j > Len(a)
    <3>1. /\ j - Len(a) \in DOMAIN b /\ k - Len(a) \in DOMAIN b /\ j - Len(a) # k - Len(a)
          /\ c[j] = b[j - Len(a)] /\ c[k] = b[k - Len(a)]
      BY <1>1, <1>2, <2>2
    <3> QED BY <1>2, <3>1 DEF Once
  <2>3. CASE j <= Len(a) /\ k > Len(a)
    <3>1. j \in DOMAIN a /\ k - Len(a) \in DOMAIN b /\ c[j] = a[j] /\ c[k] = b[k - Len(a)]
      BY <1>1, <1>2, <2>3
    <3>2. c[j].id \in Identities(a) /\ c[k].id \in Identities(b)
      BY <3>1 DEF Identities
    <3> QED BY <1>2, <3>2
  <2> QED BY <1>1, <1>2, <2>1, <2>2, <2>3
<1>3. \A j, k \in DOMAIN c : j < k \/ k < j \/ j = k
  BY <1>1
<1> QED BY <1>2, <1>3 DEF Once, c

LEMMA IdentitiesConcat ==
  ASSUME NEW a \in Seq(Instance), NEW b \in Seq(Instance)
  PROVE  Identities(a \o b) = Identities(a) \cup Identities(b)
<1> DEFINE c == a \o b
<1>1. /\ Len(a) \in Nat /\ Len(b) \in Nat
      /\ DOMAIN a = 1..Len(a) /\ DOMAIN b = 1..Len(b) /\ DOMAIN c = 1..(Len(a) + Len(b))
      /\ \A k \in DOMAIN c : c[k] = IF k <= Len(a) THEN a[k] ELSE b[k - Len(a)]
  OBVIOUS
<1> HIDE DEF c
<1>2. ASSUME NEW k \in DOMAIN c PROVE c[k].id \in Identities(a) \cup Identities(b)
  <2>1. CASE k <= Len(a)
    BY <1>1, <2>1 DEF Identities
  <2>2. CASE k > Len(a)
    <3>1. k - Len(a) \in DOMAIN b /\ c[k] = b[k - Len(a)]
      BY <1>1, <2>2
    <3> QED BY <3>1 DEF Identities
  <2> QED BY <1>1, <2>1, <2>2
<1>3. ASSUME NEW k \in DOMAIN a PROVE a[k].id \in Identities(c)
  <2>1. k \in DOMAIN c /\ c[k] = a[k]
    BY <1>1
  <2> QED BY <2>1 DEF Identities
<1>4. ASSUME NEW k \in DOMAIN b PROVE b[k].id \in Identities(c)
  <2>1. k + Len(a) \in DOMAIN c /\ c[k + Len(a)] = b[k]
    BY <1>1
  <2> QED BY <2>1 DEF Identities
<1> QED BY <1>2, <1>3, <1>4 DEF Identities, c

(* A subsequence of a list without repetition has none. *)
LEMMA OnceSubsequence ==
  ASSUME NEW s \in Seq(Instance), NEW K \in SUBSET DOMAIN s, Once(s)
  PROVE  Once(Subsequence(s, K))
<1>1. /\ IsFiniteSet(K) /\ K \in SUBSET Nat
      /\ DOMAIN Subsequence(s, K) = 1..Cardinality(K)
  BY SubsequenceType
<1>2. ASSUME NEW j \in 1..Cardinality(K), NEW k \in 1..Cardinality(K), j # k
      PROVE  Subsequence(s, K)[j].id # Subsequence(s, K)[k].id
  <2>1. Nth(K, j) \in K /\ Nth(K, k) \in K /\ Nth(K, j) # Nth(K, k)
    BY <1>1, <1>2, NthElement, NthInjective
  <2> QED BY <2>1 DEF Subsequence, Once
<1> QED BY <1>1, <1>2 DEF Once

(* What the filters of the writers leave of a list. *)
LEMMA FilterIdentities ==
  ASSUME NEW insts \in Seq(Instance), NEW l, NEW ids
  PROVE  /\ Identities(PresentOf(insts, l)) \subseteq
              Identities(insts) \cap Identities(peersOf(l))
         /\ Identities(AbsentOf(insts, l)) \subseteq
              Identities(insts) \ Identities(peersOf(l))
         /\ Identities(Others(insts, ids)) \subseteq Identities(insts) \ ids
         /\ Once(insts) => /\ Once(PresentOf(insts, l)) /\ Once(AbsentOf(insts, l))
                           /\ Once(Others(insts, ids))
<1> DEFINE P == {k \in DOMAIN insts : peerIsPresent(l, insts[k].id)}
           A == {k \in DOMAIN insts : ~peerIsPresent(l, insts[k].id)}
           O == {k \in DOMAIN insts : insts[k].id \notin ids}
<1>1. ASSUME NEW K \in SUBSET DOMAIN insts
      PROVE  \A i \in Identities(Subsequence(insts, K)) : \E k \in K : i = insts[k].id
  BY SubsequenceElement DEF Identities
<1>2. P \in SUBSET DOMAIN insts /\ A \in SUBSET DOMAIN insts /\ O \in SUBSET DOMAIN insts
  OBVIOUS
<1>3. /\ PresentOf(insts, l) = Subsequence(insts, P)
      /\ AbsentOf(insts, l) = Subsequence(insts, A)
      /\ Others(insts, ids) = Subsequence(insts, O)
  BY DEF PresentOf, AbsentOf, Others
<1>4. \A k \in DOMAIN insts : insts[k].id \in Identities(insts)
  BY DEF Identities
<1>5. /\ \A k \in P : insts[k].id \in Identities(insts) \cap Identities(peersOf(l))
      /\ \A k \in A : insts[k].id \in Identities(insts) \ Identities(peersOf(l))
      /\ \A k \in O : insts[k].id \in Identities(insts) \ ids
  BY <1>4 DEF peerIsPresent, Listed
<1> HIDE DEF P, A, O
<1>6. /\ Identities(PresentOf(insts, l)) \subseteq
           Identities(insts) \cap Identities(peersOf(l))
      /\ Identities(AbsentOf(insts, l)) \subseteq
           Identities(insts) \ Identities(peersOf(l))
      /\ Identities(Others(insts, ids)) \subseteq Identities(insts) \ ids
  <2>1. \A i \in Identities(PresentOf(insts, l)) : \E k \in P : i = insts[k].id
    BY <1>1, <1>2, <1>3
  <2>2. \A i \in Identities(AbsentOf(insts, l)) : \E k \in A : i = insts[k].id
    BY <1>1, <1>2, <1>3
  <2>3. \A i \in Identities(Others(insts, ids)) : \E k \in O : i = insts[k].id
    BY <1>1, <1>2, <1>3
  <2> QED BY <1>5, <2>1, <2>2, <2>3
<1>7. Once(insts) => /\ Once(PresentOf(insts, l)) /\ Once(AbsentOf(insts, l))
                     /\ Once(Others(insts, ids))
  BY <1>2, <1>3, OnceSubsequence
<1> QED BY <1>6, <1>7

(* Members lists the identities of a state once when its parts do. *)
LEMMA RolesMembers ==
  ASSUME NEW s \in ClusterState, Roles(s)
  PROVE  Once(Members(s))
<1> DEFINE a == <<s.primary>>
           b == IF s.sync = NoInst THEN <<>> ELSE <<s.sync>>
<1>1. /\ a \in Seq(Instance) /\ s.async \in Seq(Instance) /\ s.deposed \in Seq(Instance)
      /\ Identities(a) = {s.primary.id} /\ Once(a)
  BY DEF ClusterState, Identities, Once
<1>2. b \in Seq(Instance) /\ Identities(b) \subseteq {s.sync.id} /\ Once(b)
  BY DEF ClusterState, OptInstance, Identities, Once
<1> HIDE DEF a, b
<1>3. /\ a \o b \in Seq(Instance) /\ Once(a \o b)
      /\ Identities(a \o b) \subseteq {s.primary.id, s.sync.id}
  BY <1>1, <1>2, OnceConcat, IdentitiesConcat DEF Roles
<1>4. /\ (a \o b) \o s.async \in Seq(Instance) /\ Once((a \o b) \o s.async)
      /\ Identities((a \o b) \o s.async) = Identities(a \o b) \cup Identities(s.async)
  <2>1. Identities(a \o b) \cap Identities(s.async) = {}
    BY <1>3 DEF Roles
  <2>2. Once(s.async)
    BY DEF Roles
  <2> DEFINE c == a \o b
  <2>3. c \in Seq(Instance) /\ Once(c) /\ Identities(c) \cap Identities(s.async) = {}
    BY <1>3, <2>1
  <2> HIDE DEF c
  <2>4. /\ c \o s.async \in Seq(Instance) /\ Once(c \o s.async)
        /\ Identities(c \o s.async) = Identities(c) \cup Identities(s.async)
    BY <1>1, <2>2, <2>3, OnceConcat, IdentitiesConcat
  <2> QED BY <2>4 DEF c
<1>5. Once(((a \o b) \o s.async) \o s.deposed)
  <2>1. Identities((a \o b) \o s.async) \cap Identities(s.deposed) = {}
    BY <1>3, <1>4 DEF Roles
  <2> QED BY <1>1, <1>4, <2>1, OnceConcat DEF Roles
<1> QED BY <1>5 DEF Members, a, b

(* What an evaluation of p is shown to do: it writes nothing, or a state   *)
(* that gives no identity two roles, and p stays the job it is.            *)
Assigns(p) ==
  /\ registry' = registry
  /\ \E n : peer' = [peer EXCEPT ![p] = n] /\ n.inc = peer[p].inc
  /\ \/ meta' = meta
     \/ \E s \in ClusterState : Roles(s) /\ meta' = Append(meta, s)

LEMMA BecomeAssigns ==
  ASSUME NEW p \in Peers, NEW n, n.inc = peer[p].inc, Become(p, n)
  PROVE  Assigns(p)
BY DEF Become, Assigns

LEMMA PutAssigns ==
  ASSUME NEW p \in Peers, NEW s \in ClusterState, NEW ok \in PeerState, NEW err,
         ok.inc = peer[p].inc, err.inc = peer[p].inc,
         ok.stateIndex = Len(meta) => Roles(s), putClusterState(p, s, ok, err)
  PROVE  Assigns(p)
<1> DEFINE n == [ok EXCEPT !.stateIndex = Len(meta) + 1]
<1>1. n.inc = peer[p].inc
  BY DEF PeerState
<1>2. registry' = registry
  BY DEF putClusterState
<1>3. peer' # [peer EXCEPT ![p] = err] => peer' = [peer EXCEPT ![p] = n]
  <2>1. CASE ok.stateIndex = Len(meta)
    BY <2>1 DEF putClusterState
  <2>2. CASE ok.stateIndex # Len(meta)
    BY <2>2 DEF putClusterState
  <2> QED BY <2>1, <2>2
<1>4. ASSUME meta' # meta PROVE ok.stateIndex = Len(meta) /\ meta' = Append(meta, s)
  BY <1>4 DEF putClusterState
<1> HIDE DEF n
<1> QED BY <1>1, <1>2, <1>3, <1>4 DEF Assigns

(* A peer decides on a state that gives no identity two roles. *)
LEMMA DecidedRoles ==
  ASSUME Orderly, NEW p \in Peers, NEW l, Ready(p, l), l.state # NoState,
         l.stateIndex = Len(meta)
  PROVE  Roles(l.state)
<1>1. /\ l.state \in ClusterState /\ l.stateIndex \in DOMAIN meta
      /\ Copy(l.state, meta[l.stateIndex])
  BY ReadyFacts DEF Orderly, RolesInv
<1>2. meta # <<>> /\ Current = meta[l.stateIndex] /\ Current \in ClusterState
  <2>1. meta \in Seq(ClusterState)
    BY DEF Orderly, RolesInv, ChainInv, TypeOK
  <2> QED BY <1>1, <2>1 DEF Current
<1>3. /\ l.state.primary.id = Current.primary.id /\ l.state.sync = Current.sync
      /\ l.state.async = Current.async /\ l.state.deposed = Current.deposed
  BY <1>1, <1>2 DEF Copy, ClusterState
<1> QED BY <1>2, <1>3 DEF Orderly, RolesInv, Roles

(* The instances a peer sees. *)
LEMMA SeenOnce ==
  ASSUME Orderly, NEW p \in Peers, NEW l, Ready(p, l)
  PROVE  peersOf(l) \in Seq(Instance) /\ Once(peersOf(l))
BY ReadyFacts DEF Orderly, RolesInv, ListedOnce, Ready, peersOf

LEMMA InitialSetupAssigns ==
  ASSUME Orderly, NEW p \in Peers, NEW l, Ready(p, l), peersOf(l)[1].id = p,
         l.singleton \/ Len(peersOf(l)) > 1, startInitialSetup(p, l)
  PROVE  Assigns(p)
<1> DEFINE insts == peersOf(l)
           rest == SubSeq(insts, 3, Len(insts))
           s == [gen |-> 1, freeze |-> l.singleton, singleton |-> l.singleton,
                 initWAL |-> 0, primary |-> self(p),
                 sync |-> IF l.singleton THEN NoInst ELSE insts[2],
                 async |-> IF l.singleton THEN <<>> ELSE rest,
                 deposed |-> <<>>]
           ok == [l EXCEPT !.state = s, !.evalCh = TRUE]
           err == [l EXCEPT !.updating = TRUE, !.evalTimer = TRUE]
<1>1. /\ l \in PeerState /\ l.singleton \in BOOLEAN /\ l.inc = peer[p].inc
  BY DEF Ready, PeerState
<1>2. /\ insts \in Seq(Instance) /\ Once(insts) /\ Len(insts) \in Nat
      /\ DOMAIN insts = 1..Len(insts)
      /\ self(p) \in Instance /\ self(p).id = p
  BY SeenOnce, ReadyFacts DEF Orderly, RolesInv
<1>3. CASE l.updating
  <2>1. Panicked(l, "updating").inc = peer[p].inc
    BY <1>1, PanickedType DEF SameData, PanicReason
  <2> QED BY <1>3, <2>1, BecomeAssigns DEF startInitialSetup
<1>4. CASE ~l.updating
  <2>1. ASSUME ~l.singleton
        PROVE  /\ insts[2] \in Instance /\ rest \in Seq(Instance) /\ insts[2].id # p
               /\ Once(rest) /\ {p, insts[2].id} \cap Identities(rest) = {}
    <3>1. /\ insts[2] \in Instance /\ rest \in Seq(Instance) /\ 1 \in DOMAIN insts
          /\ 2 \in DOMAIN insts
          /\ \A k \in DOMAIN rest : k + 2 \in DOMAIN insts /\ rest[k] = insts[k + 2]
                                    /\ k \in Nat /\ k # 0
      BY <1>2, <2>1
    <3> HIDE DEF rest, insts
    <3>2. insts[2].id # p
      BY <1>2, <3>1 DEF Once, insts
    <3>3. ASSUME NEW j \in DOMAIN rest, NEW k \in DOMAIN rest, rest[j].id = rest[k].id
          PROVE  j = k
      <4>1. j + 2 = k + 2
        BY <1>2, <3>1, <3>3 DEF Once
      <4> QED BY <3>1, <4>1
    <3>4. ASSUME NEW k \in DOMAIN rest PROVE rest[k].id \notin {p, insts[2].id}
      <4>1. k + 2 # 1 /\ k + 2 # 2
        BY <3>1
      <4>2. insts[k + 2].id # insts[1].id /\ insts[k + 2].id # insts[2].id
        BY <1>2, <3>1, <4>1 DEF Once
      <4> QED BY <3>1, <4>2 DEF insts
    <3> QED BY <3>1, <3>2, <3>3, <3>4 DEF Once, Identities
  <2> HIDE DEF rest, insts
  <2>2. s \in ClusterState
    BY <1>1, <1>2, <2>1, Constructors, WALsAssumption DEF ClusterState, OptInstance
  <2>3. Roles(s)
    <3>1. Once(<<>>) /\ Identities(<<>>) = {}
      BY DEF Once, Identities
    <3>2. CASE l.singleton
      BY <1>2, <3>1, <3>2, PeersAssumption DEF Roles, NoInst
    <3>3. CASE ~l.singleton
      BY <1>2, <2>1, <3>1, <3>3 DEF Roles
    <3> QED BY <1>1, <3>2, <3>3
  <2>4. putClusterState(p, s, ok, err)
    BY <1>4 DEF startInitialSetup, rest, insts
  <2> HIDE DEF s
  <2>5. ok \in PeerState /\ ok.inc = peer[p].inc /\ err.inc = peer[p].inc
    BY <1>1, <2>2 DEF PeerState
  <2> HIDE DEF ok, err
  <2> QED BY <2>2, <2>3, <2>4, <2>5, PutAssigns
<1> QED BY <1>3, <1>4

LEMMA SingletonTakeoverAssigns ==
  ASSUME Orderly, NEW p \in Peers, NEW l \in PeerState, l.inc = peer[p].inc,
         self(p) \in Instance,
         l.state \in ClusterState, startSingletonTakeover(p, l)
  PROVE  Assigns(p)
<1> DEFINE s == [gen |-> l.state.gen + 1, freeze |-> TRUE, singleton |-> TRUE,
                 initWAL |-> 0, primary |-> self(p), sync |-> NoInst,
                 async |-> <<>>, deposed |-> <<>>]
           ok == [l EXCEPT !.state = s, !.evalCh = TRUE]
           err == [l EXCEPT !.evalTimer = TRUE]
<1>1. CASE l.updating
  <2>1. Panicked(l, "updating").inc = peer[p].inc
    BY PanickedType DEF SameData, PanicReason
  <2> QED BY <1>1, <2>1, BecomeAssigns DEF startSingletonTakeover
<1>2. CASE ~l.updating
  <2>1. s \in ClusterState
    BY Constructors, WALsAssumption DEF ClusterState
  <2>2. Roles(s)
    BY PeersAssumption DEF Roles, Once, Identities, NoInst, self
  <2>3. putClusterState(p, s, ok, err)
    BY <1>2 DEF startSingletonTakeover
  <2> HIDE DEF s
  <2>4. ok \in PeerState /\ ok.inc = peer[p].inc /\ err.inc = peer[p].inc
    BY <2>1 DEF PeerState
  <2> HIDE DEF ok, err
  <2> QED BY <2>1, <2>2, <2>3, <2>4, PutAssigns
<1> QED BY <1>1, <1>2

(* A takeover with a sync and lists that have nobody in common. *)
LEMMA WithPeerAssigns ==
  ASSUME Orderly, NEW p \in Peers, NEW l, Ready(p, l), l.state # NoState,
         NEW minWAL, NEW wal \in WALs, NEW sync \in Instance,
         NEW async \in Seq(Instance), NEW deposed \in Seq(Instance),
         l.stateIndex = Len(meta) =>
           /\ Once(async) /\ Once(deposed) /\ sync.id # p
           /\ {p, sync.id} \cap (Identities(async) \cup Identities(deposed)) = {}
           /\ Identities(async) \cap Identities(deposed) = {},
         startTakeoverWithPeer(p, l, minWAL, wal, sync, async, deposed)
  PROVE  Assigns(p)
<1> DEFINE s == [gen |-> l.state.gen + 1, freeze |-> FALSE, singleton |-> FALSE,
                 initWAL |-> wal, primary |-> self(p), sync |-> sync,
                 async |-> async, deposed |-> deposed]
           with == [l EXCEPT !.state = s, !.gen = s.gen]
           ok == assumePrimary(with)
           err == [l EXCEPT !.evalTimer = TRUE]
           why == IF l.updating THEN "updating" ELSE "undeposed"
<1>1. l \in PeerState /\ l.state \in ClusterState /\ l.inc = peer[p].inc
      /\ self(p) \in Instance /\ self(p).id = p
  BY ReadyFacts DEF Ready, Orderly, RolesInv
<1>2. /\ Panicked(l, why).inc = peer[p].inc /\ err.inc = peer[p].inc
      /\ [l EXCEPT !.evalCh = TRUE].inc = peer[p].inc
  BY <1>1 DEF Panicked, PeerState
<1>3. s \in ClusterState
  BY <1>1 DEF ClusterState, OptInstance
<1>4. l.stateIndex = Len(meta) => Roles(s)
  BY <1>1 DEF Roles
<1>5. \/ Become(p, Panicked(l, why)) \/ Become(p, l)
      \/ Become(p, [l EXCEPT !.evalCh = TRUE]) \/ Become(p, err)
      \/ putClusterState(p, s, ok, err)
  BY Zenon DEF startTakeoverWithPeer
<1> HIDE DEF s
<1>6. with \in PeerState /\ with.inc = l.inc /\ with.stateIndex = l.stateIndex /\ with.state = s
  BY <1>1, <1>3 DEF PeerState, ClusterState
<1> HIDE DEF with
<1>7. ok \in PeerState /\ ok.inc = l.inc /\ ok.stateIndex = l.stateIndex
  BY <1>3, <1>6, AssumePrimaryType DEF SameData
<1> HIDE DEF ok, err, why
<1>8. CASE putClusterState(p, s, ok, err)
  BY <1>1, <1>2, <1>3, <1>4, <1>7, <1>8, PutAssigns
<1> QED BY <1>1, <1>2, <1>5, <1>8, BecomeAssigns

LEMMA TakeoverAssigns ==
  ASSUME Orderly, NEW p \in Peers, NEW l, Ready(p, l), l.state # NoState,
         l.role \in {"primary", "sync"}, l.gen = l.state.gen,
         NEW wal \in WALs, PresentOf(l.state.async, l) # <<>> \/ Listed(p, l.state.async),
         startTakeover(p, l, wal)
  PROVE  Assigns(p)
<1> DEFINE present == PresentOf(l.state.async, l)
           async == Others(present, {present[1].id})
           deposed == IF l.state.primary.id = p THEN l.state.deposed
                      ELSE Append(l.state.deposed, l.state.primary)
<1>1. /\ l \in PeerState /\ l.state \in ClusterState /\ l.inc = peer[p].inc /\ ChainInv
      /\ l.state.async \in Seq(Instance) /\ l.state.deposed \in Seq(Instance)
      /\ l.state.primary \in Instance
  BY ReadyFacts DEF Ready, Orderly, RolesInv, ClusterState
<1>2. CASE Listed(p, l.state.async)
  <2>1. Panicked(l, "self").inc = peer[p].inc
    BY <1>1, PanickedType DEF SameData, PanicReason
  <2> QED BY <1>2, <2>1, BecomeAssigns DEF startTakeover
<1>3. CASE ~Listed(p, l.state.async)
  <2>1. present \in Seq(Instance) /\ present # <<>>
    BY <1>1, <1>3, FilterTypes
  <2>2. startTakeoverWithPeer(p, l, l.state.initWAL, wal, present[1], async, deposed)
    BY <1>3 DEF startTakeover
  <2>3. ASSUME l.stateIndex = Len(meta)
        PROVE  /\ Once(async) /\ Once(deposed) /\ present[1].id # p
               /\ {p, present[1].id} \cap (Identities(async) \cup Identities(deposed)) = {}
               /\ Identities(async) \cap Identities(deposed) = {}
    <3>1. Roles(l.state)
      BY <2>3, DecidedRoles
    <3>2. Identities(present) \subseteq Identities(l.state.async) /\ Once(present)
      BY <1>1, <3>1, FilterIdentities DEF Roles
    <3>3. p = l.state.primary.id \/ p = l.state.sync.id
      BY <1>1, <2>3, Decided
    <3> HIDE DEF present
    <3>4. 1 \in DOMAIN present /\ present[1].id \in Identities(present)
      BY <2>1 DEF Identities
    <3>5. Once(async) /\ Identities(async) \subseteq Identities(present) \ {present[1].id}
      <4>1. Identities(async) \subseteq Identities(present) \ {present[1].id}
        BY <2>1, FilterIdentities
      <4>2. Once(async)
        BY <2>1, <3>2, FilterIdentities
      <4> QED BY <4>1, <4>2
    <3>6. /\ Once(deposed)
          /\ Identities(deposed) \subseteq
               Identities(l.state.deposed) \cup ({l.state.primary.id} \ {p})
      <4>1. CASE l.state.primary.id = p
        BY <3>1, <4>1 DEF Roles
      <4>2. CASE l.state.primary.id # p
        <5>1. <<l.state.primary>> \in Seq(Instance) /\ Once(<<l.state.primary>>)
              /\ Identities(<<l.state.primary>>) = {l.state.primary.id}
          BY <1>1 DEF Once, Identities
        <5>2. deposed = l.state.deposed \o <<l.state.primary>>
          BY <1>1, <4>2, AppendIsConcat
        <5>3. Once(l.state.deposed) /\ l.state.primary.id \notin Identities(l.state.deposed)
          BY <3>1 DEF Roles
        <5> HIDE DEF deposed
        <5>4. Once(deposed) /\
              Identities(deposed) = Identities(l.state.deposed) \cup {l.state.primary.id}
          BY <1>1, <5>1, <5>2, <5>3, OnceConcat, IdentitiesConcat
        <5> QED BY <4>2, <5>4
      <4> QED BY <4>1, <4>2
    <3> HIDE DEF async, deposed
    <3> QED BY <3>1, <3>2, <3>3, <3>4, <3>5, <3>6 DEF Roles
  <2> HIDE DEF present
  <2>4. present[1] \in Instance /\ async \in Seq(Instance) /\ deposed \in Seq(Instance)
    BY <1>1, <2>1, FilterTypes
  <2> HIDE DEF async, deposed
  <2> QED BY <2>2, <2>3, <2>4, WithPeerAssigns
<1> QED BY <1>2, <1>3

LEMMA TransitionAssigns ==
  ASSUME Orderly, NEW p \in Peers, NEW l, Ready(p, l), l.state # NoState,
         NEW wal \in WALs, startTransitionToNormalMode(p, l, wal)
  PROVE  Assigns(p)
<1> DEFINE others == Others(peersOf(l), {p})
           sync == others[Len(others)]
           async == Others(others, {sync.id})
<1>1. l \in PeerState /\ l.inc = peer[p].inc
  BY DEF Ready
<1>2. others \in Seq(Instance) /\ Once(others) /\ p \notin Identities(others)
  BY SeenOnce, FilterTypes, FilterIdentities
<1>3. CASE l.state.primary.id = p /\ others # <<>>
  <2>1. startTakeoverWithPeer(p, l, 0, wal, sync, async, <<>>)
    BY <1>3 DEF startTransitionToNormalMode
  <2> HIDE DEF others
  <2>2. Len(others) \in DOMAIN others /\ sync \in Instance /\ sync.id \in Identities(others)
    BY <1>2, <1>3 DEF Identities
  <2>3. /\ async \in Seq(Instance) /\ Once(async)
        /\ Identities(async) \subseteq Identities(others) \ {sync.id}
    BY <1>2, FilterTypes, FilterIdentities
  <2>4. <<>> \in Seq(Instance) /\ Once(<<>>) /\ Identities(<<>>) = {}
    BY DEF Once, Identities
  <2> HIDE DEF sync, async
  <2> QED BY <1>2, <2>1, <2>2, <2>3, <2>4, WithPeerAssigns
<1>4. Panicked(l, "role").inc = peer[p].inc
  BY <1>1, PanickedType DEF SameData, PanicReason
<1> HIDE DEF others
<1> QED BY <1>1, <1>3, <1>4, BecomeAssigns DEF startTransitionToNormalMode, others

LEMMA UpdateAsyncsAssigns ==
  ASSUME Orderly, NEW p \in Peers, NEW l, Ready(p, l), l.state # NoState,
         startUpdateAsyncs(p, l)
  PROVE  Assigns(p)
<1> DEFINE a == PresentOf(l.state.async, l)
           b == PresentOf(l.state.deposed, l)
           kept == a \o b
           new == Others(peersOf(l), {l.state.primary.id, l.state.sync.id} \cup Identities(kept))
           absent == AbsentOf(l.state.deposed, l)
           s == [l.state EXCEPT !.async = newAsync(l), !.deposed = absent,
                                !.freeze = FALSE, !.singleton = FALSE]
           err == [l EXCEPT !.evalCh = TRUE]
           ok == [err EXCEPT !.state = s]
<1>1. /\ l \in PeerState /\ l.state \in ClusterState /\ l.inc = peer[p].inc
      /\ peersOf(l) \in Seq(Instance) /\ Once(peersOf(l))
      /\ l.state.async \in Seq(Instance) /\ l.state.deposed \in Seq(Instance)
  BY ReadyFacts, SeenOnce DEF Ready, Orderly, RolesInv, ClusterState
<1>2. CASE l.updating
  <2>1. Panicked(l, "updating").inc = peer[p].inc
    BY <1>1, PanickedType DEF SameData, PanicReason
  <2> QED BY <1>2, <2>1, BecomeAssigns DEF startUpdateAsyncs
<1>3. CASE ~l.updating
  <2>1. putClusterState(p, s, ok, err)
    BY <1>3 DEF startUpdateAsyncs
  <2>2. newAsync(l) = kept \o new
    BY DEF newAsync
  <2>3. a \in Seq(Instance) /\ b \in Seq(Instance) /\ absent \in Seq(Instance)
    BY <1>1, FilterTypes
  <2>4. /\ Identities(a) \subseteq Identities(l.state.async) \cap Identities(peersOf(l))
        /\ Identities(b) \subseteq Identities(l.state.deposed) \cap Identities(peersOf(l))
        /\ Identities(absent) \subseteq Identities(l.state.deposed) \ Identities(peersOf(l))
        /\ Once(l.state.async) => Once(a)
        /\ Once(l.state.deposed) => Once(b) /\ Once(absent)
    BY <1>1, FilterIdentities
  <2> HIDE DEF a, b, absent
  <2>5. kept \in Seq(Instance) /\ Identities(kept) = Identities(a) \cup Identities(b)
    BY <2>3, IdentitiesConcat
  <2> HIDE DEF kept
  <2>6. /\ new \in Seq(Instance) /\ Once(new)
        /\ Identities(new) \subseteq Identities(peersOf(l)) \
             ({l.state.primary.id, l.state.sync.id} \cup Identities(kept))
    BY <1>1, FilterTypes, FilterIdentities
  <2> HIDE DEF new
  <2>7. /\ newAsync(l) \in Seq(Instance)
        /\ Identities(newAsync(l)) = Identities(kept) \cup Identities(new)
    BY <2>2, <2>5, <2>6, IdentitiesConcat
  <2>8. ASSUME l.stateIndex = Len(meta) PROVE Roles(s)
    <3>1. Roles(l.state)
      BY <2>8, DecidedRoles
    <3>2. Once(kept)
      <4>1. Once(a) /\ Once(b) /\ Identities(a) \cap Identities(b) = {}
        BY <2>4, <3>1 DEF Roles
      <4> QED BY <2>3, <4>1, OnceConcat DEF kept
    <3>3. Once(newAsync(l))
      BY <2>2, <2>5, <2>6, <3>2, OnceConcat
    <3>4. /\ s.primary = l.state.primary /\ s.sync = l.state.sync
          /\ s.async = newAsync(l) /\ s.deposed = absent
      BY <1>1 DEF ClusterState
    <3>5. Identities(newAsync(l)) \cap Identities(absent) = {}
      BY <2>4, <2>5, <2>6, <2>7
    <3>6. {l.state.primary.id, l.state.sync.id}
            \cap (Identities(newAsync(l)) \cup Identities(absent)) = {}
      BY <2>4, <2>5, <2>6, <2>7, <3>1 DEF Roles
    <3>7. Once(absent) /\ l.state.primary.id # l.state.sync.id
      BY <2>4, <3>1 DEF Roles
    <3> HIDE DEF s
    <3> QED BY <3>3, <3>4, <3>5, <3>6, <3>7 DEF Roles
  <2>9. s \in ClusterState
    BY <1>1, <2>3, <2>7 DEF ClusterState
  <2> HIDE DEF s
  <2>10. /\ ok \in PeerState /\ ok.inc = peer[p].inc /\ err.inc = peer[p].inc
         /\ ok.stateIndex = l.stateIndex
    BY <1>1, <2>9 DEF PeerState
  <2> HIDE DEF ok, err
  <2> QED BY <2>1, <2>8, <2>9, <2>10, PutAssigns
<1> QED BY <1>2, <1>3

LEMMA InitClusterStateAssigns ==
  ASSUME Orderly, NEW p \in Peers, NEW l \in PeerState, l.state \in ClusterState,
         l.inc = peer[p].inc, self(p) \in Instance, l.role # "primary",
         l.role = "sync" => ~l.singleton, evalInitClusterState(p, l)
  PROVE  Assigns(p)
<1>1. assumePrimary(l).inc = peer[p].inc
  BY AssumePrimaryType DEF SameData
<1>2. assumeListedRole(p, l).inc = peer[p].inc
  BY ListedRoleType DEF SameData
<1> QED BY <1>1, <1>2, BecomeAssigns, SingletonTakeoverAssigns DEF evalInitClusterState

LEMMA EvaluationAssigns ==
  ASSUME Orderly, NEW p \in Peers, NEW l \in Evaluating(p), NEW wal \in WALs,
         evalClusterState(p, l, wal)
  PROVE  Assigns(p)
<1> DEFINE r == Return(l)
           new == [r EXCEPT !.gen = l.state.gen]
<1>1. /\ ChainInv /\ Ready(p, l) /\ l \in PeerState /\ l.inc = peer[p].inc
      /\ self(p) \in Instance /\ self(p).id = p /\ (l.role = "sync" => ~l.singleton)
  BY EvaluatingReady, ReadyFacts DEF Orderly, RolesInv, Ready, LocalInv
<1>2. /\ r \in PeerState /\ Ready(p, r) /\ r.inc = peer[p].inc /\ r.state = l.state
      /\ r.gen = l.gen /\ r.role = l.role /\ r.singleton = l.singleton
      /\ peersOf(r) = peersOf(l) /\ PresentOf(l.state.async, r) = PresentOf(l.state.async, l)
  BY <1>1, ReturnFacts DEF Keeps, SameData
<1>3. l.state # NoState => l.state \in ClusterState
  BY <1>1, ReadyFacts
<1> HIDE DEF r
<1>4. CASE Become(p, r)
  BY <1>2, <1>4, BecomeAssigns
<1>5. ASSUME NEW why \in PanicReason, NEW n \in {l, r}, Become(p, Panicked(n, why)) PROVE Assigns(p)
  <2>1. n \in PeerState /\ n.inc = peer[p].inc
    BY <1>1, <1>2
  <2>2. Panicked(n, why).inc = peer[p].inc
    BY <2>1, PanickedType DEF SameData
  <2> QED BY <1>5, <2>2, BecomeAssigns
<1>6. CASE Become(p, assumeUnassigned(r))
  <2>1. assumeUnassigned(r).inc = peer[p].inc
    BY <1>2, AssumeTypes DEF SameData
  <2> QED BY <1>6, <2>1, BecomeAssigns
<1>7. ASSUME l.state # NoState, whichAsync(p, l.state) # 0,
             Become(p, assumeAsync(r, whichAsync(p, l.state))) PROVE Assigns(p)
  <2> DEFINE k == whichAsync(p, l.state)
  <2>1. k \in DOMAIN r.state.async /\ r.state \in ClusterState
    BY <1>2, <1>3, <1>7, WhichAsync
  <2>2. assumeAsync(r, k).inc = peer[p].inc
    BY <1>2, <2>1, AssumeAsyncType DEF SameData
  <2> QED BY <1>7, <2>2, BecomeAssigns
<1>8. CASE EvalNoState(p, l)
  <2>1. ASSUME peersOf(l)[1].id = p, l.singleton \/ Len(peersOf(l)) > 1, startInitialSetup(p, r)
        PROVE  Assigns(p)
    BY <1>2, <2>1, InitialSetupAssigns
  <2> QED BY <1>4, <1>6, <1>8, <2>1 DEF EvalNoState, r
<1>9. CASE EvalSingletonInNormalMode(p, l) \/ EvalUnknownRole(p, l)
  BY <1>5, <1>9 DEF EvalSingletonInNormalMode, EvalUnknownRole, PanicReason
<1>10. CASE EvalNewGeneration(p, l)
  <2>1. l.state # NoState /\ l.state \in ClusterState
    BY <1>3, <1>10 DEF EvalNewGeneration, Usable
  <2>2. /\ new \in PeerState /\ new.inc = peer[p].inc /\ new.role = l.role
        /\ new.singleton = l.singleton /\ new.state = l.state
    BY <1>2, <2>1 DEF PeerState, ClusterState
  <2>3. \/ Become(p, new) \/ Become(p, assumeDeposed(new))
        \/ l.role # "primary" /\ evalInitClusterState(p, new)
    BY <1>10 DEF EvalNewGeneration, r
  <2> HIDE DEF new
  <2>4. assumeDeposed(new).inc = peer[p].inc
    BY <2>2, AssumeTypes DEF SameData
  <2>5. CASE l.role # "primary" /\ evalInitClusterState(p, new)
    BY <1>1, <2>1, <2>2, <2>5, InitClusterStateAssigns
  <2> QED BY <2>2, <2>3, <2>4, <2>5, BecomeAssigns
<1>11. CASE EvalUnassigned(p, l)
  <2>1. l.state # NoState
    BY <1>11 DEF EvalUnassigned, InRole, Usable
  <2>2. CASE startSingletonTakeover(p, r)
    BY <1>1, <1>2, <1>3, <2>1, <2>2, SingletonTakeoverAssigns
  <2> QED BY <1>4, <1>7, <1>11, <2>1, <2>2 DEF EvalUnassigned, r
<1>12. CASE EvalAsync(p, l)
  <2>1. l.state # NoState
    BY <1>12 DEF EvalAsync, InRole, Usable
  <2> QED BY <1>4, <1>6, <1>7, <1>12, <2>1 DEF EvalAsync, r
<1>13. CASE EvalSync(p, l, wal)
  <2>1. l.state # NoState /\ l.role = "sync" /\ l.gen = l.state.gen
    BY <1>13 DEF EvalSync, InRole, Usable
  <2>2. CASE /\ PresentOf(l.state.async, l) # <<>> \/ Listed(p, l.state.async)
             /\ startTakeover(p, r, wal)
    BY <1>2, <2>1, <2>2, TakeoverAssigns
  <2>3. assumeSync(l).inc = peer[p].inc
    BY <1>1, <1>3, <2>1, AssumeSyncType DEF SameData
  <2> QED BY <1>4, <1>13, <2>2, <2>3, BecomeAssigns DEF EvalSync, r
<1>14. CASE EvalDeposed(p, l)
  <2>1. l.state # NoState /\ l.role = "deposed"
    BY <1>14 DEF EvalDeposed, InRole, Usable
  <2>2. CASE evalInitClusterState(p, r)
    BY <1>1, <1>2, <1>3, <2>1, <2>2, InitClusterStateAssigns
  <2> QED BY <1>4, <1>14, <2>2 DEF EvalDeposed, r
<1>15. CASE EvalPrimaryInstance(p, l)
  <2> DEFINE s == [l.state EXCEPT !.primary = self(p)]
             n == [l EXCEPT !.state = s, !.updating = FALSE]
  <2>1. l.state \in ClusterState /\ l.state.primary.id = p /\ putClusterState(p, s, n, n)
    BY <1>3, <1>15 DEF EvalPrimaryInstance, InRole, Usable
  <2>2. /\ s \in ClusterState /\ s.primary.id = l.state.primary.id /\ s.sync = l.state.sync
        /\ s.async = l.state.async /\ s.deposed = l.state.deposed
    BY <1>1, <2>1 DEF ClusterState
  <2> HIDE DEF s
  <2>3. l.stateIndex = Len(meta) => Roles(s)
    <3>1. l.stateIndex = Len(meta) => Roles(l.state)
      BY <1>1, <2>1, DecidedRoles, NoStateIsNone
    <3> QED BY <2>2, <3>1 DEF Roles
  <2>4. n \in PeerState /\ n.inc = peer[p].inc /\ n.stateIndex = l.stateIndex
    BY <1>1, <2>2 DEF PeerState
  <2> HIDE DEF n
  <2> QED BY <2>1, <2>2, <2>3, <2>4, PutAssigns
<1>16. CASE EvalPrimary(p, l, wal)
  <2>1. l.state # NoState /\ l.role = "primary" /\ l.gen = l.state.gen
    BY <1>16 DEF EvalPrimary, InRole, Usable
  <2>2. CASE startTransitionToNormalMode(p, r, wal)
    BY <1>2, <2>1, <2>2, TransitionAssigns
  <2>3. CASE EvalPrimaryNormal(p, r, wal)
    <3>1. CASE PresentOf(r.state.async, r) # <<>> /\ startTakeover(p, r, wal)
      BY <1>2, <2>1, <3>1, TakeoverAssigns
    <3>2. CASE startUpdateAsyncs(p, r)
      BY <1>2, <2>1, <3>2, UpdateAsyncsAssigns
    <3> QED BY <1>4, <1>5, <2>3, <3>1, <3>2 DEF EvalPrimaryNormal, PanicReason
  <2> QED BY <1>4, <1>16, <2>2, <2>3 DEF EvalPrimary, r
<1> QED BY <1>8, <1>9, <1>10, <1>11, <1>12, <1>13, <1>14, <1>15, <1>16 DEF evalClusterState

(* An evaluation leaves discoverd's list of instances alone, and loses at  *)
(* most one answer.                                                        *)
Steady == registry' = registry /\ losses' \in {losses, losses + 1}

LEMMA EvaluationSteady ==
  ASSUME NEW p, NEW l, NEW wal, evalClusterState(p, l, wal)
  PROVE  Steady
<1>1. \A n : Become(p, n) => Steady
  BY DEF Become, Steady
<1>2. \A s, ok, err : putClusterState(p, s, ok, err) => Steady
  BY DEF putClusterState, Steady
<1>3. \A n : startInitialSetup(p, n) => Steady
  BY <1>1, <1>2, Zenon DEF startInitialSetup
<1>4. \A n : startSingletonTakeover(p, n) => Steady
  BY <1>1, <1>2, Zenon DEF startSingletonTakeover
<1>5. \A n, m, s, a, d : startTakeoverWithPeer(p, n, m, wal, s, a, d) => Steady
  <2> TAKE n, m, s, a, d
  <2>1. startTakeoverWithPeer(p, n, m, wal, s, a, d) =>
          (\E k : Become(p, k)) \/ (\E t, ok, err : putClusterState(p, t, ok, err))
    BY Zenon DEF startTakeoverWithPeer
  <2> QED BY <1>1, <1>2, <2>1
<1>6. \A n : startTakeover(p, n, wal) => Steady
  BY <1>1, <1>5, Zenon DEF startTakeover
<1>7. \A n : startTransitionToNormalMode(p, n, wal) => Steady
  BY <1>1, <1>5, Zenon DEF startTransitionToNormalMode
<1>8. \A n : startUpdateAsyncs(p, n) => Steady
  BY <1>1, <1>2, Zenon DEF startUpdateAsyncs
<1>9. \A n : evalInitClusterState(p, n) => Steady
  BY <1>1, <1>4, Zenon DEF evalInitClusterState
<1>10. \A n : EvalPrimaryNormal(p, n, wal) => Steady
  BY <1>1, <1>6, <1>8, Zenon DEF EvalPrimaryNormal
<1>11. EvalNoState(p, l) => Steady
  BY <1>1, <1>3, Zenon DEF EvalNoState
<1>12. EvalNewGeneration(p, l) \/ EvalDeposed(p, l) => Steady
  BY <1>1, <1>9, Zenon DEF EvalNewGeneration, EvalDeposed
<1>13. EvalUnassigned(p, l) \/ EvalAsync(p, l) => Steady
  BY <1>1, <1>4, Zenon DEF EvalUnassigned, EvalAsync
<1>14. EvalSync(p, l, wal) => Steady
  BY <1>1, <1>6, Zenon DEF EvalSync
<1>15. EvalPrimaryInstance(p, l) => Steady
  BY <1>2, Zenon DEF EvalPrimaryInstance
<1>16. EvalPrimary(p, l, wal) => Steady
  BY <1>1, <1>7, <1>10, Zenon DEF EvalPrimary
<1>17. EvalSingletonInNormalMode(p, l) \/ EvalUnknownRole(p, l) => Steady
  BY <1>1, Zenon DEF EvalSingletonInNormalMode, EvalUnknownRole
<1> QED
  BY <1>11, <1>12, <1>13, <1>14, <1>15, <1>16, <1>17 DEF evalClusterState

LEMMA RolesNext == ASSUME RolesInv, [Next]_vars PROVE RolesInv'
<1>1. /\ ChainInv /\ ChainInv' /\ meta \in Seq(ClusterState) /\ registry \in Seq(Seq(Instance))
  BY StepPreserves DEF RolesInv, Preserves, ChainInv, TypeOK
<1>2. ASSUME meta' = meta, ListedOnce PROVE meta' # <<>> => Roles(Current)'
  <2>1. Current' = Current
    BY <1>2 DEF Current
  <2> QED BY <1>2, <2>1 DEF RolesInv, Roles
<1>3. ASSUME NEW s \in ClusterState, Roles(s), meta' = Append(meta, s)
      PROVE  meta' # <<>> => Roles(Current)'
  <2>1. Current' = s
    BY <1>1, <1>3 DEF Current
  <2> QED BY <1>3, <2>1
<1>4. ASSUME ListedOnce', registry' = registry \/ \E insts : registry' = Append(registry, insts)
      PROVE  ListedOnce
  <2>1. ASSUME NEW insts, registry' = Append(registry, insts)
        PROVE  \A i \in DOMAIN registry : i \in DOMAIN registry' /\ registry'[i] = registry[i]
    <3>1. registry \in Seq(Seq(Instance) \cup {insts}) /\ insts \in Seq(Instance) \cup {insts}
      BY <1>1
    <3> QED BY <2>1, <3>1
  <2> QED BY <1>4, <2>1 DEF ListedOnce, Once
<1>5. ASSUME NEW p \in Peers, NEW l \in Evaluating(p), NEW wal \in WALs,
             evalClusterState(p, l, wal), registry' = registry
      PROVE  RolesInv'
  <2> SUFFICES ASSUME ListedOnce' PROVE meta' # <<>> => Roles(Current)'
    BY <1>1 DEF RolesInv
  <2>1. ListedOnce /\ Assigns(p)
    BY <1>4, <1>5, EvaluationAssigns DEF Orderly
  <2> QED BY <1>2, <1>3, <2>1 DEF Assigns
<1>6. ASSUME meta' = meta, registry' = registry \/ \E insts : registry' = Append(registry, insts)
      PROVE  RolesInv'
  BY <1>1, <1>2, <1>4, <1>6 DEF RolesInv
<1>7. CASE Unfreeze
  <2> SUFFICES ASSUME ListedOnce' PROVE meta' # <<>> => Roles(Current)'
    BY <1>1 DEF RolesInv
  <2> DEFINE c == Current
             s == [c EXCEPT !.freeze = FALSE]
  <2>1. ListedOnce
    BY <1>4, <1>7 DEF Unfreeze
  <2>2. c \in ClusterState /\ Roles(c) /\ meta' = Append(meta, s)
    BY <1>1, <1>7, <2>1 DEF Unfreeze, Current, RolesInv
  <2> HIDE DEF c
  <2>3. s \in ClusterState /\ Roles(s)
    BY <2>2 DEF ClusterState, Roles
  <2> HIDE DEF s
  <2> QED BY <1>3, <2>2, <2>3
<1>8. ASSUME NEW p \in Peers, Environment(p) \/ applyConfig(p) \/ triggerEval(p) PROVE RolesInv'
  BY <1>6, <1>8 DEF Environment, StartPeer, StopPeer, CrashPeer, ExpireDead, ExpireLive,
     Reregister, SetInstances, applyConfig, triggerEval, Become
<1>9. CASE UNCHANGED vars
  BY <1>6, <1>9 DEF vars
<1>10. ASSUME NEW p \in Peers, NEW l \in Evaluating(p), NEW wal \in WALs,
              evalClusterState(p, l, wal)
       PROVE  registry' = registry
  BY <1>1, <1>10, EvaluationSteady DEF Steady
<1> QED BY <1>5, <1>7, <1>8, <1>9, <1>10 DEF Next

(* If discoverd never lists an identity twice, no cluster state that       *)
(* startInitialSetup, startTakeover, startTransitionToNormalMode,          *)
(* startUpdateAsyncs or a singleton's claim writes gives two roles to one  *)
(* identity, whatever stale lists of instances they decide on.             *)
THEOREM RolesOnce == Spec => []OneRoleEach
<1>1. Init => RolesInv
  BY InitialInv DEF Init, RolesInv
<1>2. RolesInv /\ [Next]_vars => RolesInv'
  BY RolesNext
<1>3. RolesInv => OneRoleEach
  <2> SUFFICES ASSUME RolesInv, ListedOnce, meta # <<>> PROVE Once(Members(Current))
    BY DEF OneRoleEach
  <2>1. Current \in ClusterState /\ Roles(Current)
    BY DEF RolesInv, Current, ChainInv, TypeOK
  <2> QED BY <2>1, RolesMembers
<1> QED BY <1>1, <1>2, <1>3, PTL DEF Spec

-----------------------------------------------------------------------------
(* discoverd lists an identity once where a job waits for the expiry of    *)
(* the one before it: what it lists is the job started last.               *)

(* The list in force is of the jobs started last. *)
Newest == \A k \in DOMAIN instances : instances[k].inc = peer[instances[k].id].inc
Listing == RolesInv /\ ListedOnce /\ Newest

(* discoverd's list with one instance more or less. *)
LEMMA ListingGrows ==
  ASSUME Listing, NEW insts \in Seq(Instance), Once(insts),
         registry' = Append(registry, insts),
         \A k \in DOMAIN insts : insts[k].inc = peer'[insts[k].id].inc
  PROVE  ListedOnce' /\ Newest'
<1>1. registry \in Seq(Seq(Instance)) /\ Len(registry) \in Nat
  BY DEF Listing, RolesInv, ChainInv, TypeOK
<1>2. /\ Len(registry') = Len(registry) + 1 /\ DOMAIN registry' = 1..(Len(registry) + 1)
      /\ registry'[Len(registry) + 1] = insts
      /\ \A i \in 1..Len(registry) : registry'[i] = registry[i]
  BY <1>1
<1>3. instances' = insts
  BY <1>2 DEF instances
<1>4. ASSUME NEW i \in DOMAIN registry' PROVE Once(registry'[i])
  <2>1. i = Len(registry) + 1 \/ i \in DOMAIN registry
    BY <1>1, <1>2
  <2> QED BY <1>1, <1>2, <2>1 DEF Listing, ListedOnce
<1> QED BY <1>3, <1>4 DEF ListedOnce, Newest

LEMMA InstancesType ==
  ASSUME Listing
  PROVE  /\ instances \in Seq(Instance) /\ Once(instances)
         /\ \A i \in Instance : Without(instances, i) \in Seq(Instance)
                                /\ Once(Without(instances, i))
                                /\ \A k \in DOMAIN Without(instances, i) :
                                     \E j \in DOMAIN instances :
                                       /\ Without(instances, i)[k] = instances[j]
                                       /\ instances[j] # i
<1>1. registry \in Seq(Seq(Instance)) /\ registry # <<>>
  BY DEF Listing, RolesInv, ChainInv, TypeOK
<1>2. instances \in Seq(Instance) /\ Once(instances)
  BY <1>1 DEF Listing, ListedOnce, instances
<1>3. ASSUME NEW i \in Instance
      PROVE  /\ Without(instances, i) \in Seq(Instance) /\ Once(Without(instances, i))
             /\ \A k \in DOMAIN Without(instances, i) :
                  \E j \in DOMAIN instances :
                    Without(instances, i)[k] = instances[j] /\ instances[j] # i
  <2> DEFINE K == {k \in DOMAIN instances : instances[k] # i}
  <2>1. K \in SUBSET DOMAIN instances /\ Without(instances, i) = Subsequence(instances, K)
    BY DEF Without
  <2>2. \A k \in K : k \in DOMAIN instances /\ instances[k] # i
    OBVIOUS
  <2> HIDE DEF K
  <2> QED BY <1>2, <2>1, <2>2, SubsequenceType, SubsequenceElement, OnceSubsequence
<1> QED BY <1>2, <1>3

LEMMA ListingNext ==
  ASSUME Listing, ~Lingering, NEW p \in Peers, Environment(p)
  PROVE  ListedOnce' /\ Newest'
<1>1. /\ peer \in [Peers -> PeerState] /\ ChainInv /\ Listing
      /\ \A k \in DOMAIN instances : instances[k] \in Instance
  BY InstancesType DEF Listing, RolesInv, ChainInv, TypeOK
<1>2. ASSUME NEW n, n.inc = peer[p].inc, peer' = peer \/ peer' = [peer EXCEPT ![p] = n]
      PROVE  \A q \in Peers : peer'[q].inc = peer[q].inc
  BY <1>1, <1>2
<1>3. ASSUME NEW i \in Instance, \A q \in Peers : peer'[q].inc = peer[q].inc,
             registry' = Append(registry, Without(instances, i))
      PROVE  ListedOnce' /\ Newest'
  <2>1. \A k \in DOMAIN Without(instances, i) :
          Without(instances, i)[k].inc = peer'[Without(instances, i)[k].id].inc
    <3> TAKE k \in DOMAIN Without(instances, i)
    <3>1. PICK j \in DOMAIN instances : Without(instances, i)[k] = instances[j]
      BY <1>3, InstancesType
    <3>2. instances[j].id \in Peers /\ instances[j].inc = peer[instances[j].id].inc
      BY <1>1 DEF Instance, Listing, Newest
    <3> QED BY <1>3, <3>1, <3>2
  <2> QED BY <1>3, <2>1, InstancesType, ListingGrows
<1>4. ASSUME NEW i \in Instance, ~Listed(i.id, instances), i.inc = peer'[i.id].inc,
             \A q \in Peers \ {i.id} : peer'[q].inc = peer[q].inc,
             registry' = Append(registry, Append(instances, i))
      PROVE  ListedOnce' /\ Newest'
  <2> DEFINE insts == Append(instances, i)
  <2>1. <<i>> \in Seq(Instance) /\ Once(<<i>>) /\ Identities(<<i>>) = {i.id}
    BY DEF Once, Identities
  <2>2. insts = instances \o <<i>> /\ insts \in Seq(Instance)
    BY InstancesType, AppendIsConcat
  <2>3. Once(insts)
    <3>1. Identities(instances) \cap Identities(<<i>>) = {}
      BY <1>4, <2>1 DEF Listed
    <3> HIDE DEF insts
    <3> QED BY <2>1, <2>2, <3>1, InstancesType, OnceConcat
  <2>4. \A k \in DOMAIN insts : insts[k] = i \/ (k \in DOMAIN instances /\ insts[k] = instances[k])
    <3> DEFINE old == instances
    <3>1. old \in Seq(Instance)
      BY InstancesType
    <3> HIDE DEF old
    <3>2. \A k \in DOMAIN Append(old, i) :
            Append(old, i)[k] = i \/ (k \in DOMAIN old /\ Append(old, i)[k] = old[k])
      BY <3>1
    <3> QED BY <3>2 DEF old
  <2>5. \A k \in DOMAIN insts : insts[k].inc = peer'[insts[k].id].inc
    <3> TAKE k \in DOMAIN insts
    <3> HIDE DEF insts
    <3>1. CASE insts[k] = i
      BY <1>4, <3>1
    <3>2. CASE k \in DOMAIN instances /\ insts[k] = instances[k]
      <4>1. /\ instances[k].id \in Peers /\ instances[k].id # i.id
            /\ instances[k].inc = peer[instances[k].id].inc
        BY <1>1, <1>4, <3>2 DEF Instance, Listing, Newest, Listed, Identities
      <4> QED BY <1>4, <3>2, <4>1
    <3> QED BY <2>4, <3>1, <3>2
  <2> HIDE DEF insts
  <2> QED BY <1>4, <2>2, <2>3, <2>5, ListingGrows DEF insts
<1>5. ASSUME Alive(p) PROVE self(p) \in Instance /\ self(p).id = p /\ self(p).inc = peer[p].inc
  BY <1>1, <1>5 DEF self, Instance, Alive, ChainInv, TypeOK, LocalInv, PeerState
<1>6. ASSUME NEW singleton \in SingletonModes, StartPeer(p, singleton)
      PROVE  ListedOnce' /\ Newest'
  <2> DEFINE i == [id |-> p, inc |-> peer[p].inc + 1]
             n == NewPeer("run", peer[p].inc + 1, singleton)
  <2>1. /\ ~Listed(p, instances) /\ peer[p].inc + 1 <= MaxInc
        /\ registry' = Append(registry, Append(instances, i))
        /\ peer' = [peer EXCEPT ![p] = n] /\ meta' = meta
    BY <1>6 DEF StartPeer, SetInstances
  <2>2. peer[p].inc \in Nat /\ n.inc = peer[p].inc + 1
    BY <1>1, BoundsAssumption DEF PeerState, NewPeer
  <2>3. i \in Instance /\ i.id = p /\ i.inc = peer[p].inc + 1
    BY <2>1, <2>2, BoundsAssumption DEF Instance
  <2> HIDE DEF n, i
  <2>4. peer'[p].inc = i.inc /\ \A q \in Peers \ {p} : peer'[q].inc = peer[q].inc
    BY <1>1, <2>1, <2>2, <2>3
  <2> QED BY <1>4, <2>1, <2>3, <2>4
<1>7. CASE StopPeer(p)
  <2>1. NewPeer("down", peer[p].inc, peer[p].singleton).inc = peer[p].inc
    BY DEF NewPeer
  <2>2. /\ Alive(p) /\ registry' = Append(registry, Without(instances, self(p)))
        /\ peer' = [peer EXCEPT ![p] = NewPeer("down", peer[p].inc, peer[p].singleton)]
        /\ meta' = meta
    BY <1>1, <1>7 DEF StopPeer, Running, Alive, SetInstances
  <2> QED BY <1>2, <1>3, <1>5, <2>1, <2>2
<1>8. CASE CrashPeer(p)
  <2>1. NewPeer("down", peer[p].inc, peer[p].singleton).inc = peer[p].inc
    BY DEF NewPeer
  <2>2. /\ registry' = registry /\ meta' = meta
        /\ peer' = [peer EXCEPT ![p] = NewPeer("down", peer[p].inc, peer[p].singleton)]
    BY <1>1, <1>8 DEF CrashPeer
  <2>3. instances' = instances /\ \A q \in Peers : peer'[q].inc = peer[q].inc
    BY <1>2, <2>1, <2>2 DEF instances
  <2> QED BY <1>1, <2>2, <2>3 DEF Listing, ListedOnce, Newest, Instance
<1>9. CASE ExpireDead(p) \/ ExpireLive(p)
  <2>1. PICK i \in Instance : registry' = Append(registry, Without(instances, i))
    BY <1>1, <1>5, <1>9 DEF ExpireDead, ExpireLive, SetInstances
  <2>2. peer' = peer /\ meta' = meta
    BY <1>9 DEF ExpireDead, ExpireLive
  <2> QED BY <1>3, <2>1, <2>2
<1>10. CASE Reregister(p)
  <2>1. /\ Alive(p) /\ Unlisted(self(p), instances) /\ peer' = peer /\ meta' = meta
        /\ registry' = Append(registry, Append(instances, self(p)))
    BY <1>10 DEF Reregister, SetInstances
  <2>2. ~Listed(p, instances)
    <3> SUFFICES ASSUME NEW k \in DOMAIN instances, instances[k].id = p PROVE FALSE
      BY DEF Listed, Identities
    <3>1. instances[k] = self(p)
      BY <1>1, <1>5, <2>1 DEF Listing, Newest, Instance, self
    <3> QED BY <2>1, <3>1 DEF Unlisted
  <2> QED BY <1>4, <1>5, <2>1, <2>2
<1> QED BY <1>6, <1>7, <1>8, <1>9, <1>10 DEF Environment

(* Where a job starts only after the instance of the one before it has     *)
(* expired, discoverd never lists an identity twice (Heartbeater's         *)
(* registrations and the store's expiry): the premise of OneRoleEach.      *)
THEOREM ListingHolds == ASSUME ~Lingering PROVE Spec => []ListedOnce
<1>1. Init => Listing
  <2> SUFFICES ASSUME Init PROVE Listing
    OBVIOUS
  <2>1. RolesInv /\ registry = << <<>> >>
    BY InitialInv DEF Init, RolesInv
  <2> QED BY <2>1 DEF Listing, ListedOnce, Newest, Once, instances
<1>2. Listing /\ [Next]_vars => Listing'
  <2> SUFFICES ASSUME Listing, [Next]_vars PROVE ListedOnce' /\ Newest'
    BY RolesNext DEF Listing
  <2>1. peer \in [Peers -> PeerState]
    BY DEF Listing, RolesInv, ChainInv, TypeOK
  <2>2. ASSUME registry' = registry, \A q \in Peers : peer'[q].inc = peer[q].inc
        PROVE  ListedOnce' /\ Newest'
    <3>1. instances' = instances
      BY <2>2 DEF instances
    <3>2. instances \in Seq(Instance)
      BY InstancesType
    <3>3. \A k \in DOMAIN instances : instances[k] \in Instance
      BY <3>2
    <3>4. \A k \in DOMAIN instances : instances[k].id \in Peers
      BY <3>3 DEF Instance
    <3>5. Newest'
      BY <2>2, <3>1, <3>4 DEF Listing, Newest
    <3> QED BY <2>2, <3>5 DEF Listing, ListedOnce
  <2>3. ASSUME NEW p \in Peers, Assigns(p) PROVE ListedOnce' /\ Newest'
    <3>1. registry' = registry /\ \A q \in Peers : peer'[q].inc = peer[q].inc
      BY <2>1, <2>3 DEF Assigns
    <3> QED BY <2>2, <3>1
  <2>4. ASSUME NEW p \in Peers, applyConfig(p) \/ triggerEval(p) PROVE ListedOnce' /\ Newest'
    <3>1. peer[p] \in PeerState
      BY <2>1
    <3>2. \A c : [peer[p] EXCEPT !.applied = c].inc = peer[p].inc
      BY <3>1 DEF PeerState
    <3>3. [peer[p] EXCEPT !.evalTimer = FALSE, !.evalCh = TRUE].inc = peer[p].inc
      BY <3>1 DEF PeerState
    <3>4. PICK n : Become(p, n) /\ n.inc = peer[p].inc
      BY <2>4, <3>2, <3>3 DEF applyConfig, triggerEval
    <3> QED BY <2>3, <3>4, BecomeAssigns
  <2>5. ASSUME NEW p \in Peers, NEW l \in Evaluating(p), NEW wal \in WALs,
               evalClusterState(p, l, wal)
        PROVE  ListedOnce' /\ Newest'
    BY <2>3, <2>5, EvaluationAssigns DEF Listing, Orderly
  <2>6. ASSUME NEW p \in Peers, Environment(p) PROVE ListedOnce' /\ Newest'
    BY <2>6, ListingNext
  <2>7. CASE Unfreeze \/ UNCHANGED vars
    BY <2>2, <2>7 DEF Unfreeze, vars
  <2> QED BY <2>4, <2>5, <2>6, <2>7 DEF Next
<1>3. Listing => ListedOnce
  BY DEF Listing
<1> QED BY <1>1, <1>2, <1>3, PTL DEF Spec
-----------------------------------------------------------------------------
(* The sync a primary replicates to.  As long as no answer was lost, a     *)
(* job knows of every generation that it declared itself: it has seen a    *)
(* state of that generation or a later one, and a primary has handled it.  *)

Me(p, l) == [id |-> p, inc |-> l.inc]

(* The primary p has handled all generations its job declared; if that of  *)
(* its own is one of them, it replicates to the sync of that generation.   *)
Targets(p, l, m) ==
  /\ \A i \in DOMAIN m : m[i].primary = Me(p, l) => m[i].gen <= l.gen
  /\ (\A i \in DOMAIN m : m[i].gen = l.gen => m[i].primary = Me(p, l)) =>
       \A i \in DOMAIN m : m[i].gen = l.gen => l.downstream = m[i].sync

Loyal(p, l, m) ==
  /\ l.gen <= l.state.gen
  /\ \A i \in DOMAIN m : m[i].primary.id = p => m[i].primary.inc <= l.inc
  /\ l.pc # "down" =>
       \A i \in DOMAIN m : m[i].primary = Me(p, l) => m[i].gen <= l.state.gen
  /\ l.role = "primary" => Targets(p, l, m)

AllLoyal == \A p \in Peers : Loyal(p, peer[p], meta)
LoyalInv == ChainInv /\ (losses = 0 => AllLoyal)

(* What an evaluation is shown to do, as long as no answer was lost. *)
Serves == losses' = 0 => AllLoyal'

(* Steps that do not concern the primary. *)
LEMMA LoyalKeeps ==
  ASSUME NEW p, NEW l, NEW n, NEW m, Loyal(p, l, m), l.pc # "down",
         n.inc = l.inc, n.gen = l.gen, n.state.gen = l.state.gen,
         n.role = l.role, n.downstream = l.downstream
  PROVE  Loyal(p, n, m)
BY DEF Loyal, Targets, Me

LEMMA LoyalLeaves ==
  ASSUME NEW p, NEW l, NEW n, NEW m, Loyal(p, l, m), l.pc # "down",
         n.inc = l.inc, n.state.gen = l.state.gen, n.gen <= n.state.gen,
         n.role # "primary"
  PROVE  Loyal(p, n, m)
BY DEF Loyal, Me

(* The state a peer has, and all others of the same generation. *)
LEMMA SeenState ==
  ASSUME ChainInv, NEW p \in Peers, NEW l, Ready(p, l), l.state # NoState
  PROVE  /\ l.stateIndex \in DOMAIN meta /\ meta[l.stateIndex].gen = l.state.gen
         /\ \A i \in DOMAIN meta : meta[i].gen = l.state.gen => meta[i].sync = l.state.sync
<1>1. l.stateIndex \in DOMAIN meta /\ Copy(l.state, meta[l.stateIndex])
      /\ l.state \in ClusterState
  BY ReadyFacts
<1>2. meta \in Seq(ClusterState) /\ meta[l.stateIndex] \in ClusterState
  BY <1>1 DEF ChainInv, TypeOK
<1>3. meta[l.stateIndex].gen = l.state.gen /\ meta[l.stateIndex].sync = l.state.sync
  BY <1>1, <1>2 DEF Copy, ClusterState
<1>4. ASSUME NEW i \in DOMAIN meta, meta[i].gen = l.state.gen
      PROVE  meta[i].sync = l.state.sync
  <2>1. Chain(meta[i], meta[l.stateIndex]) \/ Chain(meta[l.stateIndex], meta[i])
    <3>1. i <= l.stateIndex \/ l.stateIndex <= i
      BY <1>1, <1>2
    <3> QED BY <1>1, <3>1 DEF ChainInv
  <2> QED BY <1>3, <1>4, <2>1 DEF Chain
<1> QED BY <1>1, <1>3, <1>4

(* A peer becomes the primary of the generation of its state. *)
LEMMA LoyalAssumes ==
  ASSUME ChainInv, NEW p \in Peers, NEW l, Ready(p, l), l.state # NoState,
         Loyal(p, l, meta), l.pc # "down",
         NEW n \in PeerState, n.inc = l.inc, n.state = l.state, n.gen = l.state.gen,
         n.downstream = l.state.sync
  PROVE  Loyal(p, n, meta)
<1>1. \A i \in DOMAIN meta : meta[i].gen = n.gen => n.downstream = meta[i].sync
  BY SeenState
<1>2. n.gen <= n.state.gen
  BY DEF PeerState
<1> QED BY <1>1, <1>2 DEF Loyal, Targets, Me

(* A primary meets a new generation: its own job did not declare it. *)
LEMMA LoyalContinues ==
  ASSUME ChainInv, NEW p \in Peers, NEW l, Ready(p, l), l.state # NoState,
         Loyal(p, l, meta), l.pc # "down", l.role = "primary", l.gen # l.state.gen,
         NEW n \in PeerState, n.inc = l.inc, n.state = l.state, n.gen = l.state.gen
  PROVE  Loyal(p, n, meta)
<1>1. l.stateIndex \in DOMAIN meta /\ meta[l.stateIndex].gen = l.state.gen
  BY SeenState
<1>2. l.gen \in Nat /\ n.gen \in Nat /\ l.gen <= l.state.gen
  BY DEF Ready, PeerState, Loyal
<1>3. meta[l.stateIndex].primary # Me(p, l)
  <2> SUFFICES ASSUME meta[l.stateIndex].primary = Me(p, l) PROVE FALSE
    OBVIOUS
  <2>1. meta[l.stateIndex].gen <= l.gen
    BY <1>1 DEF Loyal, Targets
  <2> QED BY <1>1, <1>2, <2>1
<1>4. Me(p, n) = Me(p, l)
  BY DEF Me
<1>5. Targets(p, n, meta)
  BY <1>1, <1>3, <1>4 DEF Loyal, Targets
<1>6. n.gen <= n.state.gen
  BY <1>2
<1> QED BY <1>4, <1>5, <1>6 DEF Loyal

(* What a peer receives is not older than what it has. *)
LEMMA LoyalEvaluating ==
  ASSUME ChainInv, AllLoyal, NEW p \in Peers, NEW l \in Evaluating(p)
  PROVE  Loyal(p, l, meta) /\ l.pc # "down" /\ Ready(p, l) /\ l \in PeerState
<1> DEFINE o == peer[p]
<1>1. /\ Ready(p, l) /\ l.pc = "eval" /\ o.pc # "down" /\ Informed(o, l)
      /\ l \in PeerState /\ Loyal(p, o, meta)
  BY EvaluatingReady DEF Ready, AllLoyal
<1>2. /\ o \in PeerState /\ LocalInv(p, o, meta, registry) /\ meta \in Seq(ClusterState)
  BY DEF ChainInv, TypeOK
<1>3. o.state.gen <= l.state.gen /\ o.state.gen \in Nat /\ l.state.gen \in Nat
  <2>1. o.state.gen \in Nat /\ l.state.gen \in Nat
    BY <1>1, <1>2 DEF PeerState, ClusterState, NoState
  <2>2. CASE l.state = o.state
    BY <2>1, <2>2
  <2>3. CASE /\ l.stateIndex > o.stateIndex /\ l.stateIndex \in DOMAIN meta
             /\ l.state = meta[l.stateIndex]
    <3>1. CASE o.stateIndex = 0
      <4>1. o.state.gen = 0
        BY <1>2, <3>1 DEF LocalInv, NoState
      <4> QED BY <2>1, <4>1
    <3>2. CASE o.stateIndex # 0
      <4>1. /\ o.stateIndex \in DOMAIN meta /\ Copy(o.state, meta[o.stateIndex])
            /\ o.stateIndex <= l.stateIndex /\ meta[o.stateIndex] \in ClusterState
        BY <1>2, <2>3, <3>2 DEF LocalInv, PeerState
      <4>2. o.state.gen = meta[o.stateIndex].gen
        BY <4>1 DEF Copy, ClusterState
      <4>3. Chain(meta[o.stateIndex], meta[l.stateIndex])
        BY <2>3, <4>1 DEF ChainInv
      <4> QED BY <2>1, <2>3, <4>2, <4>3 DEF Chain
    <3> QED BY <3>1, <3>2
  <2> QED BY <1>1, <2>1, <2>2, <2>3 DEF Informed
<1>4. /\ l.gen = o.gen /\ l.role = o.role /\ l.downstream = o.downstream /\ Me(p, l) = Me(p, o)
      /\ l.inc = o.inc /\ l.gen \in Nat
  BY <1>1 DEF Informed, Me, PeerState
<1>5. l.gen <= l.state.gen
  BY <1>1, <1>3, <1>4 DEF Loyal
<1>6. \A i \in DOMAIN meta : meta[i].primary = Me(p, l) => meta[i].gen <= l.state.gen
  <2> SUFFICES ASSUME NEW i \in DOMAIN meta, meta[i].primary = Me(p, l)
               PROVE  meta[i].gen <= l.state.gen
    OBVIOUS
  <2>1. meta[i] \in ClusterState
    BY <1>2
  <2>2. meta[i].gen \in Nat
    BY <2>1 DEF ClusterState
  <2>3. meta[i].gen <= o.state.gen
    BY <1>1, <1>4 DEF Loyal
  <2> QED BY <1>3, <2>2, <2>3
<1>7. l.role = "primary" => Targets(p, l, meta)
  BY <1>1, <1>4 DEF Loyal, Targets
<1> QED BY <1>1, <1>4, <1>5, <1>6, <1>7 DEF Loyal

LEMMA BecomeServes ==
  ASSUME ChainInv, AllLoyal, NEW p \in Peers, NEW n, Loyal(p, n, meta), Become(p, n)
  PROVE  Serves
<1>1. peer' = [peer EXCEPT ![p] = n] /\ meta' = meta /\ peer \in [Peers -> PeerState]
  BY DEF Become, ChainInv, TypeOK
<1>2. ASSUME NEW q \in Peers PROVE Loyal(q, peer'[q], meta')
  BY <1>1 DEF AllLoyal
<1> QED BY <1>2 DEF Serves, AllLoyal

(* A write by another peer, which names that peer as the primary. *)
LEMMA LoyalToOthers ==
  ASSUME NEW m \in Seq(ClusterState), NEW s \in ClusterState, NEW p, NEW l,
         Loyal(p, l, m), s.primary.id # p
  PROVE  Loyal(p, l, Append(m, s))
<1> DEFINE n == Append(m, s)
<1>1. /\ \A i \in DOMAIN m : i \in DOMAIN n /\ n[i] = m[i]
      /\ \A i \in DOMAIN n : i \in DOMAIN m \/ n[i] = s
  OBVIOUS
<1>2. s.primary # Me(p, l)
  BY DEF Me
<1> HIDE DEF n
<1>3. \A i \in DOMAIN n : n[i].primary = Me(p, l) => i \in DOMAIN m
  BY <1>1, <1>2
<1>4. ASSUME Targets(p, l, m) PROVE Targets(p, l, n)
  BY <1>1, <1>2, <1>3, <1>4 DEF Targets
<1>5. \A i \in DOMAIN n : n[i].primary.id = p => n[i].primary.inc <= l.inc
  BY <1>1 DEF Loyal
<1>6. l.pc # "down" =>
        \A i \in DOMAIN n : n[i].primary = Me(p, l) => n[i].gen <= l.state.gen
  BY <1>1, <1>3 DEF Loyal
<1>7. Loyal(p, l, n)
  BY <1>4, <1>5, <1>6 DEF Loyal
<1> QED BY <1>7 DEF n

(* An accepted write names its writer's own job as the primary. *)
LEMMA PutServes ==
  ASSUME ChainInv, AllLoyal, losses = 0, NEW p \in Peers, NEW s \in ClusterState,
         NEW ok \in PeerState, NEW err, Loyal(p, err, meta),
         s.primary = self(p), self(p) \in Instance, ok.inc = peer[p].inc,
         ok.state = s, ok.gen <= s.gen,
         ok.stateIndex = Len(meta) =>
           /\ \A i \in DOMAIN meta : meta[i].gen <= s.gen
           /\ ok.role = "primary" =>
                /\ ok.gen = s.gen
                /\ (\A i \in DOMAIN meta : meta[i].gen = s.gen => meta[i].primary = self(p))
                     => /\ ok.downstream = s.sync
                        /\ \A i \in DOMAIN meta : meta[i].gen = s.gen => meta[i].sync = s.sync,
         putClusterState(p, s, ok, err)
  PROVE  Serves
<1> SUFFICES ASSUME losses' = 0 PROVE AllLoyal'
  BY DEF Serves
<1> DEFINE done == [ok EXCEPT !.stateIndex = Len(meta) + 1]
           n == Append(meta, s)
<1>1. /\ meta \in Seq(ClusterState) /\ peer \in [Peers -> PeerState] /\ Len(meta) \in Nat
  BY DEF ChainInv, TypeOK
<1>2. \/ meta' = meta /\ peer' = [peer EXCEPT ![p] = err]
      \/ /\ ok.stateIndex = Len(meta) /\ meta' = n /\ peer' = [peer EXCEPT ![p] = done]
  BY DEF putClusterState
<1>3. CASE meta' = meta /\ peer' = [peer EXCEPT ![p] = err]
  <2>1. ASSUME NEW q \in Peers PROVE Loyal(q, peer'[q], meta')
    BY <1>1, <1>3 DEF AllLoyal
  <2> QED BY <2>1 DEF AllLoyal
<1>4. CASE ok.stateIndex = Len(meta) /\ meta' = n /\ peer' = [peer EXCEPT ![p] = done]
  <2>1. /\ done.role = ok.role /\ done.gen = ok.gen /\ done.inc = ok.inc /\ done.state = s
        /\ done.downstream = ok.downstream /\ done.pc = ok.pc
    BY <1>1 DEF PeerState
  <2> HIDE DEF done
  <2>2. /\ \A i \in DOMAIN meta : i \in DOMAIN n /\ n[i] = meta[i]
        /\ \A i \in DOMAIN n : (i \in DOMAIN meta /\ n[i] = meta[i]) \/ n[i] = s
    BY <1>1
  <2> HIDE DEF n
  <2>3. Me(p, done) = self(p) /\ self(p).id = p /\ self(p).inc = done.inc /\ done.inc \in Nat
    BY <2>1 DEF Me, self, PeerState
  <2>4. \A i \in DOMAIN n : n[i].gen <= s.gen
    <3>1. s.gen <= s.gen
      BY DEF ClusterState
    <3> QED BY <1>4, <2>2, <3>1
  <2>5. \A i \in DOMAIN n : n[i].primary.id = p => n[i].primary.inc <= done.inc
    <3>1. \A i \in DOMAIN meta : meta[i].primary.id = p => meta[i].primary.inc <= peer[p].inc
      BY DEF AllLoyal, Loyal
    <3>2. s.primary.inc <= done.inc
      BY <2>3
    <3> QED BY <2>1, <2>2, <3>1, <3>2
  <2>6. done.role = "primary" => Targets(p, done, n)
    <3> SUFFICES ASSUME done.role = "primary" PROVE Targets(p, done, n)
      OBVIOUS
    <3>1. done.gen = s.gen
      BY <1>4, <2>1
    <3>2. ASSUME \A i \in DOMAIN n : n[i].gen = done.gen => n[i].primary = Me(p, done)
          PROVE  \A i \in DOMAIN n : n[i].gen = done.gen => done.downstream = n[i].sync
      <4>1. \A i \in DOMAIN meta : meta[i].gen = s.gen => meta[i].primary = self(p)
        BY <2>2, <2>3, <3>1, <3>2
      <4>2. /\ ok.downstream = s.sync
            /\ \A i \in DOMAIN meta : meta[i].gen = s.gen => meta[i].sync = s.sync
        BY <1>4, <2>1, <4>1
      <4> QED BY <2>1, <2>2, <3>1, <4>2
    <3> QED BY <2>4, <3>1, <3>2 DEF Targets
  <2>7. Loyal(p, done, n)
    BY <2>1, <2>4, <2>5, <2>6 DEF Loyal
  <2>8. ASSUME NEW q \in Peers, q # p PROVE Loyal(q, peer[q], n)
    BY <1>1, <2>3, <2>8, LoyalToOthers DEF AllLoyal, n
  <2>9. ASSUME NEW q \in Peers PROVE Loyal(q, peer'[q], meta')
    BY <1>1, <1>4, <2>7, <2>8
  <2> QED BY <2>9 DEF AllLoyal
<1> QED BY <1>2, <1>3, <1>4

(* All accepted generations, for a peer that decides on the last of them. *)
LEMMA DecidedLast ==
  ASSUME ChainInv, NEW p \in Peers, NEW l, Ready(p, l), l.stateIndex = Len(meta)
  PROVE  \A i \in DOMAIN meta : meta[i].gen <= l.state.gen /\ meta[i].gen \in Nat
<1> SUFFICES ASSUME NEW i \in DOMAIN meta
             PROVE  meta[i].gen <= l.state.gen /\ meta[i].gen \in Nat
  OBVIOUS
<1>1. meta \in Seq(ClusterState) /\ meta # <<>> /\ meta[i].gen \in Nat
  <2>1. meta \in Seq(ClusterState)
    BY DEF ChainInv, TypeOK
  <2>2. meta[i] \in ClusterState /\ meta # <<>>
    BY <2>1
  <2> QED BY <2>1, <2>2 DEF ClusterState
<1>2. l.state # NoState
  BY <1>1, Decided
<1>3. Current.gen = l.state.gen /\ Chain(meta[i], Current)
  BY <1>1, <1>2, Decided, CurrentType
<1> QED BY <1>1, <1>3 DEF Chain

(* A loyal peer in an evaluation, with no answer lost so far. *)
Acting(p, l) ==
  /\ ChainInv /\ AllLoyal /\ losses = 0
  /\ Ready(p, l) /\ Loyal(p, l, meta) /\ l.pc # "down"

(* n has the role and the state of l. *)
Same(l, n) ==
  /\ n.inc = l.inc /\ n.gen = l.gen /\ n.state = l.state /\ n.role = l.role
  /\ n.downstream = l.downstream

LEMMA SameServes ==
  ASSUME NEW p \in Peers, NEW l, Acting(p, l), NEW n, Same(l, n), Become(p, n)
  PROVE  Serves
<1>1. Loyal(p, n, meta)
  BY LoyalKeeps DEF Acting, Same
<1> QED BY <1>1, BecomeServes DEF Acting

LEMMA PanicServes ==
  ASSUME NEW p \in Peers, NEW l, Acting(p, l), NEW why, Become(p, Panicked(l, why))
  PROVE  Serves
<1>1. Same(l, Panicked(l, why))
  BY DEF Acting, Ready, Same, Panicked, PeerState
<1> QED BY <1>1, SameServes

LEMMA InitialSetupServes ==
  ASSUME NEW p \in Peers, NEW l, Acting(p, l), l.state = NoState,
         l.singleton \/ Len(peersOf(l)) > 1, startInitialSetup(p, l)
  PROVE  Serves
<1> DEFINE insts == peersOf(l)
           s == [gen |-> 1, freeze |-> l.singleton, singleton |-> l.singleton,
                 initWAL |-> 0, primary |-> self(p),
                 sync |-> IF l.singleton THEN NoInst ELSE insts[2],
                 async |-> IF l.singleton THEN <<>> ELSE SubSeq(insts, 3, Len(insts)),
                 deposed |-> <<>>]
           ok == [l EXCEPT !.state = s, !.evalCh = TRUE]
           err == [l EXCEPT !.updating = TRUE, !.evalTimer = TRUE]
<1>1. /\ l \in PeerState /\ l.singleton \in BOOLEAN /\ ChainInv /\ Ready(p, l)
      /\ LocalInv(p, l, meta, registry) /\ Loyal(p, l, meta) /\ l.pc # "down"
  BY DEF Acting, Ready, PeerState
<1>2. insts \in Seq(Instance) /\ self(p) \in Instance /\ self(p).id = p
  BY <1>1, ReadyFacts
<1>3. CASE l.updating
  BY <1>3, PanicServes DEF startInitialSetup
<1>4. CASE ~l.updating
  <2>1. s \in ClusterState
    <3>1. ~l.singleton => insts[2] \in OptInstance /\ SubSeq(insts, 3, Len(insts)) \in Seq(Instance)
      BY <1>2 DEF OptInstance
    <3> HIDE DEF insts
    <3> QED BY <1>1, <1>2, <3>1, Constructors, WALsAssumption DEF ClusterState
  <2>2. putClusterState(p, s, ok, err) /\ s.gen = 1 /\ s.primary = self(p)
    BY <1>4 DEF startInitialSetup
  <2> HIDE DEF s
  <2>3. /\ ok \in PeerState /\ ok.inc = l.inc /\ ok.state = s /\ ok.gen = l.gen
        /\ ok.stateIndex = l.stateIndex /\ ok.role = l.role
    BY <1>1, <2>1 DEF PeerState
  <2>4. Loyal(p, err, meta)
    <3>1. Same(l, err)
      BY <1>1 DEF Same, PeerState
    <3> HIDE DEF err
    <3> QED BY <1>1, <3>1, LoyalKeeps DEF Same
  <2>5. ok.gen <= s.gen
    BY <1>1, <2>2, <2>3 DEF Loyal, NoState, PeerState
  <2>6. ok.stateIndex = Len(meta) => meta = <<>> /\ ok.role # "primary"
    BY <1>1, <2>3, Decided DEF LocalInv
  <2>7. l.inc = peer[p].inc
    BY <1>1 DEF Ready
  <2> HIDE DEF ok, err
  <2> QED BY <1>2, <2>1, <2>2, <2>3, <2>4, <2>5, <2>6, <2>7, PutServes DEF Acting
<1> QED BY <1>3, <1>4

LEMMA SingletonTakeoverServes ==
  ASSUME NEW p \in Peers, NEW l, Acting(p, l), l.state # NoState, l.role # "primary",
         startSingletonTakeover(p, l)
  PROVE  Serves
<1> DEFINE s == [gen |-> l.state.gen + 1, freeze |-> TRUE, singleton |-> TRUE,
                 initWAL |-> 0, primary |-> self(p), sync |-> NoInst,
                 async |-> <<>>, deposed |-> <<>>]
           ok == [l EXCEPT !.state = s, !.evalCh = TRUE]
           err == [l EXCEPT !.evalTimer = TRUE]
<1>1. /\ l \in PeerState /\ l.state \in ClusterState /\ ChainInv /\ Ready(p, l)
      /\ Loyal(p, l, meta) /\ l.pc # "down" /\ l.inc = peer[p].inc
      /\ self(p) \in Instance /\ self(p).id = p
  BY ReadyFacts DEF Acting, Ready
<1>2. CASE l.updating
  BY <1>2, PanicServes DEF startSingletonTakeover
<1>3. CASE ~l.updating
  <2>1. s \in ClusterState
    BY <1>1, Constructors, WALsAssumption DEF ClusterState
  <2>2. putClusterState(p, s, ok, err) /\ s.gen = l.state.gen + 1 /\ s.primary = self(p)
    BY <1>3 DEF startSingletonTakeover
  <2> HIDE DEF s
  <2>3. /\ ok \in PeerState /\ ok.inc = l.inc /\ ok.state = s /\ ok.gen = l.gen
        /\ ok.stateIndex = l.stateIndex /\ ok.role = l.role
    BY <1>1, <2>1 DEF PeerState
  <2>4. Loyal(p, err, meta)
    <3>1. Same(l, err)
      BY <1>1 DEF Same, PeerState
    <3> HIDE DEF err
    <3> QED BY <1>1, <3>1, LoyalKeeps DEF Same
  <2>5. ok.gen <= s.gen
    BY <1>1, <2>2, <2>3 DEF Loyal, PeerState, ClusterState
  <2>6. ok.stateIndex = Len(meta) => \A i \in DOMAIN meta : meta[i].gen <= s.gen
    <3>1. l.state.gen \in Nat
      BY <1>1 DEF ClusterState
    <3>2. l.stateIndex = Len(meta) =>
            \A i \in DOMAIN meta : meta[i].gen <= l.state.gen /\ meta[i].gen \in Nat
      BY <1>1, DecidedLast
    <3> QED BY <2>2, <2>3, <3>1, <3>2
  <2> HIDE DEF ok, err
  <2> QED BY <1>1, <2>1, <2>2, <2>3, <2>4, <2>5, <2>6, PutServes DEF Acting
<1> QED BY <1>2, <1>3

LEMMA WithPeerServes ==
  ASSUME NEW p \in Peers, NEW l, Acting(p, l), l.state # NoState,
         NEW minWAL, NEW wal \in WALs, NEW sync \in Instance,
         NEW async \in Seq(Instance), NEW deposed \in Seq(Instance),
         startTakeoverWithPeer(p, l, minWAL, wal, sync, async, deposed)
  PROVE  Serves
<1> DEFINE s == [gen |-> l.state.gen + 1, freeze |-> FALSE, singleton |-> FALSE,
                 initWAL |-> wal, primary |-> self(p), sync |-> sync,
                 async |-> async, deposed |-> deposed]
           with == [l EXCEPT !.state = s, !.gen = s.gen]
           ok == assumePrimary(with)
           err == [l EXCEPT !.evalTimer = TRUE]
           why == IF l.updating THEN "updating" ELSE "undeposed"
<1>1. /\ l \in PeerState /\ l.state \in ClusterState /\ ChainInv /\ Ready(p, l)
      /\ Loyal(p, l, meta) /\ l.pc # "down" /\ l.inc = peer[p].inc
      /\ self(p) \in Instance /\ self(p).id = p /\ l.state.gen \in Nat
  BY ReadyFacts DEF Acting, Ready, ClusterState
<1>2. Same(l, l) /\ Same(l, err) /\ Same(l, [l EXCEPT !.evalCh = TRUE])
  BY <1>1 DEF Same, PeerState
<1>3. s \in ClusterState /\ s.gen = l.state.gen + 1 /\ s.primary = self(p)
  BY <1>1 DEF ClusterState, OptInstance
<1>4. \/ Become(p, Panicked(l, why)) \/ Become(p, l)
      \/ Become(p, [l EXCEPT !.evalCh = TRUE]) \/ Become(p, err)
      \/ putClusterState(p, s, ok, err)
  BY Zenon DEF startTakeoverWithPeer
<1> HIDE DEF s
<1>5. /\ with \in PeerState /\ with.inc = l.inc /\ with.stateIndex = l.stateIndex
      /\ with.state = s /\ with.gen = s.gen
  BY <1>1, <1>3 DEF PeerState, ClusterState
<1> HIDE DEF with
<1>6. /\ ok \in PeerState /\ ok.inc = l.inc /\ ok.stateIndex = l.stateIndex
      /\ ok.state = s /\ ok.gen = s.gen
  BY <1>3, <1>5, AssumePrimaryType DEF SameData
<1>7. ok.downstream = s.sync
  BY <1>5 DEF assumePrimary, PeerState
<1>8. ok.gen <= s.gen
  BY <1>1, <1>3, <1>6
<1> HIDE DEF ok, why, err
<1>9. CASE putClusterState(p, s, ok, err)
  <2>1. Loyal(p, err, meta)
    BY <1>1, <1>2, LoyalKeeps DEF Same
  <2>2. ok.stateIndex = Len(meta) =>
          \A i \in DOMAIN meta : meta[i].gen <= s.gen /\ meta[i].gen # s.gen
    <3>1. l.stateIndex = Len(meta) =>
            \A i \in DOMAIN meta : meta[i].gen <= l.state.gen /\ meta[i].gen \in Nat
      BY <1>1, DecidedLast
    <3> QED BY <1>1, <1>3, <1>6, <3>1
  <2> QED BY <1>1, <1>3, <1>6, <1>7, <1>8, <1>9, <2>1, <2>2, PutServes DEF Acting
<1> QED BY <1>2, <1>4, <1>9, SameServes, PanicServes

LEMMA TakeoverServes ==
  ASSUME NEW p \in Peers, NEW l, Acting(p, l), l.state # NoState,
         NEW wal \in WALs, PresentOf(l.state.async, l) # <<>> \/ Listed(p, l.state.async),
         startTakeover(p, l, wal)
  PROVE  Serves
<1> DEFINE present == PresentOf(l.state.async, l)
           async == Others(present, {present[1].id})
           deposed == IF l.state.primary.id = p THEN l.state.deposed
                      ELSE Append(l.state.deposed, l.state.primary)
<1>1. l.state \in ClusterState
  BY ReadyFacts DEF Acting
<1>2. CASE Listed(p, l.state.async)
  BY <1>2, PanicServes DEF startTakeover
<1>3. CASE ~Listed(p, l.state.async)
  <2>1. present \in Seq(Instance) /\ present # <<>>
    BY <1>1, <1>3, FilterTypes DEF ClusterState
  <2>2. startTakeoverWithPeer(p, l, l.state.initWAL, wal, present[1], async, deposed)
    BY <1>3 DEF startTakeover
  <2> HIDE DEF present
  <2>3. present[1] \in Instance /\ async \in Seq(Instance)
    BY <2>1, FilterTypes
  <2>4. deposed \in Seq(Instance)
    BY <1>1 DEF ClusterState
  <2> HIDE DEF async, deposed
  <2> QED BY <2>2, <2>3, <2>4, WithPeerServes
<1> QED BY <1>2, <1>3

LEMMA TransitionServes ==
  ASSUME NEW p \in Peers, NEW l, Acting(p, l), l.state # NoState,
         NEW wal \in WALs, startTransitionToNormalMode(p, l, wal)
  PROVE  Serves
<1> DEFINE others == Others(peersOf(l), {p})
           sync == others[Len(others)]
           async == Others(others, {sync.id})
<1>1. others \in Seq(Instance) /\ Same(l, l)
  BY ReadyFacts, FilterTypes DEF Acting, Same
<1>2. CASE l.state.primary.id = p /\ others # <<>>
  <2>1. startTakeoverWithPeer(p, l, 0, wal, sync, async, <<>>)
    BY <1>2 DEF startTransitionToNormalMode
  <2> HIDE DEF others
  <2>2. sync \in Instance
    BY <1>1, <1>2
  <2>3. async \in Seq(Instance) /\ <<>> \in Seq(Instance)
    BY <1>1, FilterTypes
  <2> HIDE DEF sync, async
  <2> QED BY <2>1, <2>2, <2>3, WithPeerServes
<1> HIDE DEF others
<1> QED BY <1>1, <1>2, SameServes, PanicServes DEF startTransitionToNormalMode, others

(* A write that continues the generation of the primary. *)
LEMMA ContinueServes ==
  ASSUME NEW p \in Peers, NEW l, Acting(p, l), l.state # NoState,
         l.role = "primary", l.gen = l.state.gen,
         NEW s \in ClusterState, s.primary = self(p), s.gen = l.state.gen,
         s.sync = l.state.sync,
         NEW ok \in PeerState, NEW err, Loyal(p, err, meta), ok.inc = l.inc,
         ok.state = s, ok.gen = l.gen, ok.role = "primary",
         ok.stateIndex = l.stateIndex, ok.downstream = l.downstream,
         putClusterState(p, s, ok, err)
  PROVE  Serves
<1>1. /\ ChainInv /\ Ready(p, l) /\ l.inc = peer[p].inc /\ self(p) \in Instance
      /\ Me(p, l) = self(p)
  BY ReadyFacts DEF Acting, Ready, Me, self
<1>2. /\ l.stateIndex \in DOMAIN meta /\ meta[l.stateIndex].gen = s.gen
      /\ \A i \in DOMAIN meta : meta[i].gen = s.gen => meta[i].sync = s.sync
  BY <1>1, SeenState
<1>3. ok.gen <= s.gen
  BY DEF ClusterState
<1>4. ok.stateIndex = Len(meta) => \A i \in DOMAIN meta : meta[i].gen <= s.gen
  BY <1>1, DecidedLast
<1>5. ASSUME \A i \in DOMAIN meta : meta[i].gen = s.gen => meta[i].primary = self(p)
      PROVE  ok.downstream = s.sync
  <2>1. \A i \in DOMAIN meta : meta[i].gen = l.gen => l.downstream = meta[i].sync
    BY <1>1, <1>5 DEF Acting, Loyal, Targets
  <2> QED BY <1>2, <2>1
<1> QED BY <1>1, <1>2, <1>3, <1>4, <1>5, PutServes DEF Acting

LEMMA UpdateAsyncsServes ==
  ASSUME NEW p \in Peers, NEW l, Acting(p, l), l.state # NoState,
         l.role = "primary", l.gen = l.state.gen, l.state.primary = self(p),
         startUpdateAsyncs(p, l)
  PROVE  Serves
<1> DEFINE s == [l.state EXCEPT !.async = newAsync(l),
                                !.deposed = AbsentOf(l.state.deposed, l),
                                !.freeze = FALSE, !.singleton = FALSE]
           err == [l EXCEPT !.evalCh = TRUE]
           ok == [err EXCEPT !.state = s]
<1>1. /\ l \in PeerState /\ l.state \in ClusterState /\ peersOf(l) \in Seq(Instance)
      /\ Loyal(p, l, meta) /\ l.pc # "down"
  BY ReadyFacts DEF Acting, Ready
<1>2. CASE l.updating
  BY <1>2, PanicServes DEF startUpdateAsyncs
<1>3. CASE ~l.updating
  <2>1. putClusterState(p, s, ok, err)
    BY <1>3 DEF startUpdateAsyncs
  <2>2. /\ s \in ClusterState /\ s.primary = self(p) /\ s.gen = l.state.gen
        /\ s.sync = l.state.sync
    <3>1. newAsync(l) \in Seq(Instance) /\ AbsentOf(l.state.deposed, l) \in Seq(Instance)
      BY <1>1, NewAsyncType, FilterTypes DEF ClusterState
    <3> QED BY <1>1, <3>1 DEF ClusterState
  <2> HIDE DEF s
  <2>3. err \in PeerState /\ Same(l, err) /\ err.stateIndex = l.stateIndex
    BY <1>1 DEF PeerState, Same
  <2> HIDE DEF err
  <2>4. /\ ok \in PeerState /\ ok.inc = l.inc /\ ok.state = s /\ ok.gen = l.gen
        /\ ok.role = "primary" /\ ok.stateIndex = l.stateIndex
        /\ ok.downstream = l.downstream
    BY <2>2, <2>3 DEF PeerState, Same
  <2>5. Loyal(p, err, meta)
    BY <1>1, <2>3, LoyalKeeps DEF Same
  <2> HIDE DEF ok
  <2> QED BY <2>1, <2>2, <2>4, <2>5, ContinueServes
<1> QED BY <1>2, <1>3

(* A primary's state of its own generation names it. *)
LEMMA NamedPrimary ==
  ASSUME NEW p \in Peers, NEW l, Acting(p, l), l.state # NoState,
         l.role = "primary", l.gen = l.state.gen,
         l.state.primary.id = p => l.state.primary = self(p)
  PROVE  l.state.primary = self(p)
<1>1. /\ l.stateIndex \in DOMAIN meta /\ Copy(l.state, meta[l.stateIndex])
      /\ LocalInv(p, l, meta, registry) /\ meta \in Seq(ClusterState)
  BY ReadyFacts DEF Acting, Ready, ChainInv, TypeOK
<1>2. PICK i \in DOMAIN meta : meta[i].gen = l.gen /\ meta[i].primary.id = p
  BY <1>1 DEF LocalInv
<1>3. meta[l.stateIndex].gen = l.gen /\ l.state.primary.id = meta[l.stateIndex].primary.id
  BY <1>1, SeenState DEF Acting, Copy
<1>4. Chain(meta[i], meta[l.stateIndex]) \/ Chain(meta[l.stateIndex], meta[i])
  <2>1. i <= l.stateIndex \/ l.stateIndex <= i
    BY <1>1
  <2> QED BY <1>1, <2>1 DEF Acting, ChainInv
<1> QED BY <1>2, <1>3, <1>4 DEF Chain

LEMMA InitClusterStateServes ==
  ASSUME NEW p \in Peers, NEW b, Acting(p, b), b.state # NoState, b.role # "primary",
         NEW l \in PeerState, l.state = b.state, l.stateIndex = b.stateIndex,
         l.view = b.view, l.inc = b.inc, l.role = b.role, l.singleton = b.singleton,
         l.pc # "down", l.gen = l.state.gen, evalInitClusterState(p, l)
  PROVE  Serves
<1>1. /\ ChainInv /\ AllLoyal /\ Ready(p, b) /\ Loyal(p, b, meta) /\ b.pc # "down"
      /\ l.state \in ClusterState /\ (l.role = "sync" => ~l.singleton) /\ l.gen \in Nat
  BY ReadyFacts DEF Acting, Ready, LocalInv, PeerState
<1>2. l.gen <= l.state.gen
  BY <1>1
<1>3. CASE Become(p, assumePrimary(l))
  <2> DEFINE n == assumePrimary(l)
  <2>1. n \in PeerState /\ SameData(l, n)
    BY <1>1, AssumePrimaryType
  <2>2. n.downstream = l.state.sync
    BY DEF assumePrimary, PeerState
  <2> HIDE DEF n
  <2>3. Loyal(p, n, meta)
    BY <1>1, <2>1, <2>2, LoyalAssumes DEF SameData
  <2> QED BY <1>1, <1>3, <2>3, BecomeServes DEF n
<1>4. CASE canSingletonTakeover(p, l) /\ startSingletonTakeover(p, l)
  <2>1. l.role # "sync"
    BY <1>1, <1>4 DEF canSingletonTakeover
  <2>2. LocalInv(p, l, meta, registry)
    BY <1>1, <2>1, LocalFresh
  <2>3. Ready(p, l)
    BY <1>1, <2>2 DEF Ready
  <2>4. Loyal(p, l, meta)
    BY <1>1, <1>2, LoyalLeaves
  <2> QED BY <1>4, <2>3, <2>4, SingletonTakeoverServes DEF Acting
<1>5. CASE Become(p, assumeListedRole(p, l))
  <2> DEFINE n == assumeListedRole(p, l)
  <2>1. n \in PeerState /\ SameData(l, n) /\ n.role # "primary"
    BY <1>1, ListedRoleType
  <2> HIDE DEF n
  <2>2. Loyal(p, n, meta)
    BY <1>1, <1>2, <2>1, LoyalLeaves DEF SameData
  <2> QED BY <1>1, <1>5, <2>2, BecomeServes DEF n
<1> QED BY <1>3, <1>4, <1>5 DEF evalInitClusterState

LEMMA EvaluationServes ==
  ASSUME ChainInv, AllLoyal, losses = 0, NEW p \in Peers, NEW l \in Evaluating(p),
         NEW wal \in WALs, evalClusterState(p, l, wal)
  PROVE  Serves
<1> DEFINE r == Return(l)
           new == [r EXCEPT !.gen = l.state.gen]
<1>1. /\ Acting(p, l) /\ l \in PeerState /\ Ready(p, l) /\ Loyal(p, l, meta) /\ l.pc # "down"
      /\ self(p) \in Instance /\ self(p).id = p /\ LocalInv(p, l, meta, registry)
      /\ (l.state # NoState => l.state \in ClusterState)
  BY LoyalEvaluating, ReadyFacts DEF Acting, Ready
<1>2. /\ r \in PeerState /\ Ready(p, r) /\ Same(l, r) /\ r.pc = "run" /\ r.view = l.view
      /\ r.stateIndex = l.stateIndex /\ r.singleton = l.singleton /\ peersOf(r) = peersOf(l)
      /\ PresentOf(l.state.async, r) = PresentOf(l.state.async, l)
      /\ canSingletonTakeover(p, l) => canSingletonTakeover(p, r)
  <2>1. r \in PeerState /\ Same(l, r) /\ r.pc = "run" /\ r.stateIndex = l.stateIndex
    BY <1>1 DEF Return, PeerState, Same
  <2> QED BY <1>1, <2>1, ReturnFacts
<1> HIDE DEF r
<1>3. Acting(p, r)
  <2>1. Loyal(p, r, meta)
    BY <1>1, <1>2, LoyalKeeps DEF Same
  <2> QED BY <1>2, <2>1 DEF Acting
<1>4. CASE Become(p, r)
  BY <1>1, <1>2, <1>4, SameServes
<1>5. ASSUME NEW why, NEW n \in {l, r}, Become(p, Panicked(n, why)) PROVE Serves
  BY <1>1, <1>3, <1>5, PanicServes
<1>6. ASSUME NEW n, Become(p, n), SameData(r, n), n.role # "primary" \/ Same(r, n)
      PROVE  Serves
  <2>1. CASE n.role # "primary"
    <3>1. Loyal(p, r, meta) /\ r.pc # "down" /\ r.gen <= r.state.gen
      BY <1>3 DEF Acting, Loyal
    <3>2. Loyal(p, n, meta)
      BY <1>6, <2>1, <3>1, LoyalLeaves DEF SameData
    <3> QED BY <1>6, <3>2, BecomeServes
  <2>2. CASE Same(r, n)
    BY <1>3, <1>6, <2>2, SameServes
  <2> QED BY <1>6, <2>1, <2>2
<1>7. CASE Become(p, assumeUnassigned(r))
  BY <1>2, <1>6, <1>7, AssumeTypes
<1>8. ASSUME l.state # NoState, l.role # "primary", whichAsync(p, l.state) # 0,
             Become(p, assumeAsync(r, whichAsync(p, l.state)))
      PROVE  Serves
  <2> DEFINE k == whichAsync(p, l.state)
  <2>1. k \in DOMAIN r.state.async /\ r.state \in ClusterState /\ r.role # "primary"
    BY <1>1, <1>2, <1>8, WhichAsync DEF Same
  <2> HIDE DEF k
  <2>2. SameData(r, assumeAsync(r, k)) /\ assumeAsync(r, k).role # "primary"
    BY <1>2, <2>1, AssumeAsyncType
  <2> QED BY <1>6, <1>8, <2>2 DEF k
<1>9. CASE EvalNoState(p, l)
  <2>1. ASSUME l.singleton \/ Len(peersOf(l)) > 1, startInitialSetup(p, r) PROVE Serves
    <3>1. r.state = NoState
      BY <1>2, <1>9 DEF EvalNoState, Same
    <3> QED BY <1>2, <1>3, <2>1, <3>1, InitialSetupServes
  <2> QED BY <1>4, <1>7, <1>9, <2>1 DEF EvalNoState, r
<1>10. CASE EvalSingletonInNormalMode(p, l) \/ EvalUnknownRole(p, l)
  BY <1>5, <1>10 DEF EvalSingletonInNormalMode, EvalUnknownRole
<1>11. CASE EvalNewGeneration(p, l)
  <2>1. l.state # NoState /\ l.state \in ClusterState /\ l.gen # l.state.gen
    BY <1>1, <1>11 DEF EvalNewGeneration, Usable
  <2>2. /\ new \in PeerState /\ new.inc = r.inc /\ new.role = r.role
        /\ new.singleton = r.singleton /\ new.state = r.state /\ new.gen = r.state.gen
        /\ new.stateIndex = r.stateIndex /\ new.view = r.view /\ new.pc # "down"
    BY <1>2, <2>1 DEF PeerState, ClusterState, Same
  <2>3. \/ l.role = "primary" /\ Become(p, new)
        \/ Become(p, assumeDeposed(new))
        \/ l.role # "primary" /\ evalInitClusterState(p, new)
    BY <1>11 DEF EvalNewGeneration, r
  <2> HIDE DEF new
  <2>4. CASE l.role = "primary" /\ Become(p, new)
    <3>1. Loyal(p, new, meta)
      BY <1>1, <1>2, <2>1, <2>2, <2>4, LoyalContinues DEF Same
    <3> QED BY <2>4, <3>1, BecomeServes
  <2>5. CASE Become(p, assumeDeposed(new))
    <3> DEFINE n == assumeDeposed(new)
    <3>1. SameData(new, n) /\ n.role # "primary"
      BY <2>2, AssumeTypes
    <3> HIDE DEF n
    <3>2. n.gen <= n.state.gen /\ n.state.gen = l.state.gen /\ n.inc = l.inc
      BY <1>2, <2>1, <2>2, <3>1 DEF SameData, ClusterState, Same
    <3>3. Loyal(p, n, meta)
      BY <1>1, <3>1, <3>2, LoyalLeaves
    <3> QED BY <2>5, <3>3, BecomeServes DEF n
  <2>6. CASE l.role # "primary" /\ evalInitClusterState(p, new)
    BY <1>2, <1>3, <2>1, <2>2, <2>6, InitClusterStateServes DEF Same
  <2> QED BY <2>3, <2>4, <2>5, <2>6
<1>12. CASE EvalUnassigned(p, l)
  <2>1. l.state # NoState /\ l.role # "primary"
    BY <1>12 DEF EvalUnassigned, InRole, Usable
  <2>2. CASE startSingletonTakeover(p, r)
    BY <1>2, <1>3, <2>1, <2>2, SingletonTakeoverServes DEF Same
  <2> QED BY <1>4, <1>8, <1>12, <2>1, <2>2 DEF EvalUnassigned, r
<1>13. CASE EvalAsync(p, l)
  <2>1. l.state # NoState /\ l.role # "primary"
    BY <1>13 DEF EvalAsync, InRole, Usable
  <2> QED BY <1>4, <1>7, <1>8, <1>13, <2>1 DEF EvalAsync, r
<1>14. CASE EvalSync(p, l, wal)
  <2>1. l.state # NoState /\ l.role = "sync"
    BY <1>14 DEF EvalSync, InRole, Usable
  <2>2. CASE /\ PresentOf(l.state.async, l) # <<>> \/ Listed(p, l.state.async)
             /\ startTakeover(p, r, wal)
    BY <1>2, <1>3, <2>1, <2>2, TakeoverServes DEF Same
  <2>3. CASE Become(p, assumeSync(l))
    <3>1. SameData(l, assumeSync(l)) /\ assumeSync(l).role # "primary"
      BY <1>1, <2>1, AssumeSyncType
    <3>2. SameData(r, assumeSync(l))
      BY <1>2, <3>1 DEF SameData, Same
    <3> QED BY <1>6, <2>3, <3>1, <3>2
  <2> QED BY <1>4, <1>14, <2>2, <2>3 DEF EvalSync, r
<1>15. CASE EvalDeposed(p, l)
  <2>1. l.state # NoState /\ l.role = "deposed" /\ l.gen = l.state.gen
    BY <1>15 DEF EvalDeposed, InRole, Usable
  <2>2. CASE evalInitClusterState(p, r)
    BY <1>2, <1>3, <2>1, <2>2, InitClusterStateServes DEF Same
  <2> QED BY <1>4, <1>15, <2>2 DEF EvalDeposed, r
<1>16. CASE EvalPrimaryInstance(p, l)
  <2> DEFINE s == [l.state EXCEPT !.primary = self(p)]
             n == [l EXCEPT !.state = s, !.updating = FALSE]
  <2>1. /\ l.state \in ClusterState /\ l.state # NoState /\ l.role = "primary"
        /\ l.gen = l.state.gen /\ putClusterState(p, s, n, n)
    BY <1>1, <1>16 DEF EvalPrimaryInstance, InRole, Usable
  <2>2. s \in ClusterState /\ s.primary = self(p) /\ s.gen = l.state.gen /\ s.sync = l.state.sync
    BY <1>1, <2>1 DEF ClusterState
  <2> HIDE DEF s
  <2>3. /\ n \in PeerState /\ n.inc = l.inc /\ n.state = s /\ n.gen = l.gen /\ n.role = l.role
        /\ n.stateIndex = l.stateIndex /\ n.downstream = l.downstream
    BY <1>1, <2>2 DEF PeerState
  <2> HIDE DEF n
  <2>4. Loyal(p, n, meta)
    BY <1>1, <2>2, <2>3, LoyalKeeps
  <2> QED BY <1>1, <2>1, <2>2, <2>3, <2>4, ContinueServes
<1>17. CASE EvalPrimary(p, l, wal)
  <2>1. /\ l.state # NoState /\ l.role = "primary" /\ l.gen = l.state.gen
        /\ l.state.primary.id = p => l.state.primary = self(p)
    BY <1>17 DEF EvalPrimary, InRole, Usable
  <2>2. CASE startTransitionToNormalMode(p, r, wal)
    BY <1>2, <1>3, <2>1, <2>2, TransitionServes DEF Same
  <2>3. CASE EvalPrimaryNormal(p, r, wal)
    <3>1. CASE PresentOf(r.state.async, r) # <<>> /\ startTakeover(p, r, wal)
      BY <1>2, <1>3, <2>1, <3>1, TakeoverServes DEF Same
    <3>2. CASE startUpdateAsyncs(p, r)
      <4>1. l.state.primary = self(p)
        BY <1>1, <2>1, NamedPrimary
      <4> QED BY <1>2, <1>3, <2>1, <3>2, <4>1, UpdateAsyncsServes DEF Same
    <3> QED BY <1>4, <1>5, <2>3, <3>1, <3>2 DEF EvalPrimaryNormal
  <2> QED BY <1>4, <1>17, <2>2, <2>3 DEF EvalPrimary, r
<1> QED BY <1>9, <1>10, <1>11, <1>12, <1>13, <1>14, <1>15, <1>16, <1>17 DEF evalClusterState

(* Jobs start, stop and crash; nothing else changes a peer or the metadata *)
(* outside an evaluation, but for an operator's Unfreeze.                  *)
LEMMA EnvironmentServes ==
  ASSUME ChainInv, AllLoyal, NEW p \in Peers,
         Environment(p) \/ applyConfig(p) \/ triggerEval(p)
  PROVE  AllLoyal'
<1> DEFINE o == peer[p]
<1>1. /\ o \in PeerState /\ peer \in [Peers -> PeerState] /\ meta \in Seq(ClusterState)
      /\ Loyal(p, o, meta) /\ LocalInv(p, o, meta, registry) /\ o.inc \in Nat
  BY DEF ChainInv, TypeOK, AllLoyal, PeerState
<1>2. ASSUME NEW n, Loyal(p, n, meta), peer' = [peer EXCEPT ![p] = n], meta' = meta
      PROVE  AllLoyal'
  <2>1. ASSUME NEW q \in Peers PROVE Loyal(q, peer'[q], meta')
    BY <1>1, <1>2 DEF AllLoyal
  <2> QED BY <2>1 DEF AllLoyal
<1>3. ASSUME peer' = peer, meta' = meta PROVE AllLoyal'
  BY <1>3 DEF AllLoyal
<1>4. CASE applyConfig(p) \/ triggerEval(p)
  <2>1. PICK n : peer' = [peer EXCEPT ![p] = n] /\ meta' = meta /\ Same(o, n) /\ o.pc # "down"
    <3>1. CASE applyConfig(p)
      <4>1. Same(o, [o EXCEPT !.applied = DesiredConfig(o)])
        BY <1>1 DEF Same, PeerState
      <4> QED BY <3>1, <4>1 DEF applyConfig, Become, Running
    <3>2. CASE triggerEval(p)
      <4>1. Same(o, [o EXCEPT !.evalTimer = FALSE, !.evalCh = TRUE])
        BY <1>1 DEF Same, PeerState
      <4> QED BY <3>2, <4>1 DEF triggerEval, Become, Alive
    <3> QED BY <1>4, <3>1, <3>2
  <2>2. Loyal(p, n, meta)
    BY <1>1, <2>1, LoyalKeeps DEF Same
  <2> QED BY <1>2, <2>1, <2>2
<1>5. ASSUME NEW pc, NEW inc \in Nat, NEW singleton, inc >= o.inc,
             pc # "down" => inc > o.inc
      PROVE  Loyal(p, NewPeer(pc, inc, singleton), meta)
  <2> DEFINE n == NewPeer(pc, inc, singleton)
  <2>1. /\ n.pc = pc /\ n.inc = inc /\ n.role = "unknown" /\ n.gen = 0 /\ n.state.gen = 0
    BY DEF NewPeer, NoState
  <2> HIDE DEF n
  <2>2. ASSUME NEW i \in DOMAIN meta, meta[i].primary.id = p
        PROVE  meta[i].primary.inc <= o.inc /\ meta[i].primary.inc \in Nat
    <3>1. meta[i].primary \in Instance
      <4>1. meta[i] \in ClusterState
        BY <1>1
      <4> QED BY <4>1 DEF ClusterState
    <3> QED BY <1>1, <2>2, <3>1 DEF Loyal, Instance
  <2>3. \A i \in DOMAIN meta : meta[i].primary.id = p => meta[i].primary.inc <= n.inc
    BY <1>1, <1>5, <2>1, <2>2
  <2>4. n.pc # "down" => \A i \in DOMAIN meta : meta[i].primary # Me(p, n)
    <3> SUFFICES ASSUME n.pc # "down", NEW i \in DOMAIN meta, meta[i].primary = Me(p, n)
                 PROVE  FALSE
      OBVIOUS
    <3>1. meta[i].primary.id = p /\ meta[i].primary.inc = inc
      BY <2>1 DEF Me
    <3> QED BY <1>1, <1>5, <2>1, <2>2, <3>1
  <2>5. Loyal(p, n, meta)
    BY <2>1, <2>3, <2>4 DEF Loyal
  <2> QED BY <2>5 DEF n
<1>6. CASE \E singleton \in SingletonModes : StartPeer(p, singleton)
  <2>1. PICK singleton : StartPeer(p, singleton)
    BY <1>6
  <2>2. o.inc + 1 \in Nat /\ o.inc + 1 >= o.inc /\ o.inc + 1 > o.inc
    BY <1>1
  <2>3. Loyal(p, NewPeer("run", o.inc + 1, singleton), meta)
    BY <1>5, <2>2
  <2> QED BY <1>2, <2>1, <2>3 DEF StartPeer
<1>7. CASE StopPeer(p) \/ CrashPeer(p)
  <2>1. Loyal(p, NewPeer("down", o.inc, o.singleton), meta)
    BY <1>1, <1>5
  <2>2. peer' = [peer EXCEPT ![p] = NewPeer("down", o.inc, o.singleton)] /\ meta' = meta
    BY <1>7 DEF StopPeer, CrashPeer
  <2> QED BY <1>2, <2>1, <2>2
<1>8. CASE ExpireDead(p) \/ ExpireLive(p) \/ Reregister(p)
  BY <1>3, <1>8 DEF ExpireDead, ExpireLive, Reregister
<1> QED BY <1>4, <1>6, <1>7, <1>8 DEF Environment

LEMMA UnfreezeServes ==
  ASSUME ChainInv, AllLoyal, Unfreeze
  PROVE  AllLoyal'
<1> DEFINE c == meta[Len(meta)]
           s == [c EXCEPT !.freeze = FALSE]
           n == Append(meta, s)
<1>1. /\ meta \in Seq(ClusterState) /\ meta # <<>> /\ meta' = n /\ peer' = peer
      /\ Len(meta) \in DOMAIN meta /\ c \in ClusterState
  BY DEF Unfreeze, ChainInv, TypeOK
<1> HIDE DEF c
<1>2. s \in ClusterState /\ s.primary = c.primary /\ s.gen = c.gen /\ s.sync = c.sync
  BY <1>1 DEF ClusterState
<1> HIDE DEF s
<1>3. /\ \A i \in DOMAIN meta : i \in DOMAIN n /\ n[i] = meta[i]
      /\ \A i \in DOMAIN n : i \in DOMAIN meta \/ n[i] = s
  BY <1>1, <1>2
<1> HIDE DEF n
<1>4. ASSUME NEW i \in DOMAIN n
      PROVE  \E j \in DOMAIN meta : /\ n[i].primary = meta[j].primary
                                    /\ n[i].gen = meta[j].gen /\ n[i].sync = meta[j].sync
  BY <1>1, <1>2, <1>3 DEF c
<1>5. ASSUME NEW p \in Peers PROVE Loyal(p, peer[p], n)
  <2> DEFINE l == peer[p]
  <2>1. Loyal(p, l, meta)
    BY DEF AllLoyal
  <2> HIDE DEF l
  <2>2. ASSUME Targets(p, l, meta) PROVE Targets(p, l, n)
    <3>1. \A i \in DOMAIN n : n[i].primary = Me(p, l) => n[i].gen <= l.gen
      BY <1>4, <2>2 DEF Targets
    <3>2. ASSUME \A i \in DOMAIN n : n[i].gen = l.gen => n[i].primary = Me(p, l)
          PROVE  \A i \in DOMAIN n : n[i].gen = l.gen => l.downstream = n[i].sync
      <4>1. \A i \in DOMAIN meta : meta[i].gen = l.gen => meta[i].primary = Me(p, l)
        BY <1>3, <3>2
      <4> QED BY <1>4, <2>2, <4>1 DEF Targets
    <3> QED BY <3>1, <3>2 DEF Targets
  <2>3. \A i \in DOMAIN n : n[i].primary.id = p => n[i].primary.inc <= l.inc
    BY <1>4, <2>1 DEF Loyal
  <2>4. l.pc # "down" =>
          \A i \in DOMAIN n : n[i].primary = Me(p, l) => n[i].gen <= l.state.gen
    BY <1>4, <2>1 DEF Loyal
  <2> QED BY <2>1, <2>2, <2>3, <2>4 DEF Loyal, l
<1> QED BY <1>1, <1>5 DEF AllLoyal

LEMMA LoyalNext == ASSUME LoyalInv, [Next]_vars PROVE LoyalInv'
<1>1. ChainInv /\ ChainInv'
  BY StepPreserves DEF LoyalInv, Preserves
<1>2. losses \in Nat
  BY <1>1, BoundsAssumption DEF ChainInv, TypeOK
<1> SUFFICES ASSUME losses' = 0 PROVE AllLoyal'
  BY <1>1 DEF LoyalInv
<1>3. ASSUME losses = 0, NEW p \in Peers, NEW l \in Evaluating(p), NEW wal \in WALs,
             evalClusterState(p, l, wal)
      PROVE  AllLoyal'
  BY <1>1, <1>3, EvaluationServes DEF Serves, LoyalInv
<1>4. ASSUME NEW p \in Peers, NEW l \in Evaluating(p), NEW wal \in WALs,
             evalClusterState(p, l, wal)
      PROVE  losses = 0
  BY <1>2, <1>4, EvaluationSteady DEF Steady
<1>5. ASSUME NEW p \in Peers, Environment(p) \/ applyConfig(p) \/ triggerEval(p)
      PROVE  AllLoyal'
  <2>1. losses' = losses
    BY <1>5 DEF Environment, StartPeer, StopPeer, CrashPeer, ExpireDead, ExpireLive,
       Reregister, applyConfig, triggerEval, Become
  <2> QED BY <1>1, <1>5, <2>1, EnvironmentServes DEF LoyalInv
<1>6. CASE Unfreeze
  <2>1. losses' = losses
    BY <1>6 DEF Unfreeze
  <2> QED BY <1>1, <1>6, <2>1, UnfreezeServes DEF LoyalInv
<1>7. CASE UNCHANGED vars
  BY <1>7 DEF vars, LoyalInv, AllLoyal
<1> QED BY <1>3, <1>4, <1>5, <1>6, <1>7 DEF Next

(* As long as no answer of putClusterState was lost, the primary of a      *)
(* generation that its own job declared replicates to the sync of that     *)
(* generation: assumePrimary runs again for every takeover, and a state    *)
(* that evalClusterState takes for a new generation of the same primary is *)
(* one of the job before.                                                  *)
THEOREM SyncTargeted == Spec => []TargetsSync
<1>1. Init => LoyalInv
  <2> SUFFICES ASSUME Init PROVE ChainInv /\ AllLoyal
    BY DEF LoyalInv
  <2>1. ChainInv
    BY InitialInv
  <2>2. ASSUME NEW p \in Peers PROVE Loyal(p, peer[p], meta)
    <3>1. peer[p] = NewPeer("down", 0, FALSE) /\ meta = <<>>
      BY DEF Init
    <3> QED BY <3>1 DEF Loyal, NewPeer, NoState
  <2> QED BY <2>1, <2>2 DEF AllLoyal
<1>2. LoyalInv /\ [Next]_vars => LoyalInv'
  BY LoyalNext
<1>3. LoyalInv => TargetsSync
  <2> SUFFICES ASSUME LoyalInv, losses = 0, NEW p \in Peers,
                      peer[p].role = "primary", peer[p].gen = peer[p].state.gen,
                      Declared(p)
               PROVE  peer[p].downstream = peer[p].state.sync
    BY DEF TargetsSync
  <2> DEFINE l == peer[p]
  <2>1. /\ l \in PeerState /\ LocalInv(p, l, meta, registry) /\ Loyal(p, l, meta)
        /\ meta \in Seq(ClusterState) /\ Me(p, l) = self(p)
    BY DEF LoyalInv, AllLoyal, ChainInv, TypeOK, Me, self
  <2>2. \A i \in DOMAIN meta : meta[i].gen = l.gen => l.downstream = meta[i].sync
    BY <2>1 DEF Loyal, Targets, Declared
  <2>3. l.state # NoState
    <3>1. PICK i \in DOMAIN meta : meta[i].gen = l.gen
      BY <2>1 DEF LocalInv
    <3>2. meta[i] \in ClusterState
      BY <2>1
    <3> QED BY <3>1, <3>2 DEF ClusterState, NoState
  <2>4. /\ l.stateIndex \in DOMAIN meta /\ Copy(l.state, meta[l.stateIndex])
        /\ meta[l.stateIndex] \in ClusterState
    BY <2>1, <2>3 DEF LocalInv, PeerState
  <2>5. meta[l.stateIndex].gen = l.gen /\ meta[l.stateIndex].sync = l.state.sync
    BY <2>4 DEF Copy, ClusterState
  <2> QED BY <2>2, <2>4, <2>5
<1> QED BY <1>1, <1>2, <1>3, PTL DEF Spec
=============================================================================
