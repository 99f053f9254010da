-------------------------- MODULE ControllerProofs --------------------------
(***************************************************************************)
(* Proofs about the controller: SchedulerPersist, for any jobs, volumes,   *)
(* scale requests, numbers of states and capacity of the channel;          *)
(* ScaleRequests, for any process types, counts and numbers of requests,   *)
(* breaks and errors, while one client at a time scales; ControllerEvents, *)
(* for any events, connections and capacity, while one transaction at a    *)
(* time inserts events; SchedulerJobs, for any hosts, jobs and sizes of    *)
(* the formation and any number of failures, exits and changes;            *)
(* WorkerDeployment, for any process types, jobs of each, batch sizes and  *)
(* number of failures.                                                     *)
(*                                                                         *)
(* None of the properties is inductive.  In SchedulerPersist, Ordered says *)
(* that what the controller has, what is queued and what is in the channel *)
(* are in the order in which the scheduler sent them; Accounted that no    *)
(* state is dropped on the way; Behind that the jobs a scale request waits *)
(* for are before it.  In ScaleRequests, Open says what a transaction has  *)
(* read and locked, LastPending that only the last request is pending, and *)
(* Awaits that a formation on its way agrees with the request it carries.  *)
(* In ControllerEvents, Flow says that what is on its way is in order, and *)
(* Sends that what was received is listed or comes before it.  In          *)
(* SchedulerJobs, Tracked says where every container is known, Adding what *)
(* a goroutine is about to start, and Reported what an event tells.  In    *)
(* WorkerDeployment, DMadeUp says that the new jobs make up for what the   *)
(* old formation lacks, and DLoop what the formations add up to at each    *)
(* request of a strategy.                                                  *)
(***************************************************************************)
EXTENDS Controller, FiniteSetTheorems, TLAPS

Over == seen \cup lost

(* The states of k in the channel and in its queue ascend, and are not     *)
(* older than what the controller has.                                     *)
ChannelSent(k) ==
  \A i \in 1..Len(controllerPersist) : controllerPersist[i][1] = k =>
    controllerPersist[i][2] <= sent[k] /\ stored[k] <= controllerPersist[i][2]
ChannelAscends(k) ==
  \A i, j \in 1..Len(controllerPersist) :
    controllerPersist[i][1] = k /\ controllerPersist[j][1] = k /\ i < j =>
      controllerPersist[i][2] < controllerPersist[j][2]
ChannelAfter(k) ==
  \A i \in 1..Len(controllerPersist), p \in 1..Len(queue[k]) :
    controllerPersist[i][1] = k => queue[k][p] < controllerPersist[i][2]
QueueSent(k) == \A p \in 1..Len(queue[k]) : queue[k][p] <= sent[k] /\ stored[k] <= queue[k][p]
QueueAscends(k) == \A p, q \in 1..Len(queue[k]) : p < q => queue[k][p] < queue[k][q]

Ordered(k) ==
  /\ ChannelSent(k) /\ ChannelAscends(k) /\ ChannelAfter(k)
  /\ QueueSent(k) /\ QueueAscends(k) /\ stored[k] <= sent[k]

QueuesInOrder == ~Break => late = {} /\ \A k \in Keys : Ordered(k)

InChannel(i) == \E p \in 1..Len(controllerPersist) : controllerPersist[p] = i
InQueue(k, n) == \E p \in 1..Len(queue[k]) : queue[k][p] = n

Accounted ==
  \A k \in Keys :
    /\ \A n \in 1..sent[k] : InChannel(<<k, n>>) \/ InQueue(k, n) \/ <<k, n>> \in Over
    /\ put[k] = "done" => <<k, queue[k][1]>> \in Over

Behind(r) ==
  /\ owed[r] \subseteq {<<>>} \cup {i \in Jobs \X States : i[1] \in Of(r) /\ i[2] \in 1..sent[i[1]]}
  /\ owed[r] = {} => ~InChannel(<<r, 0>>) /\ r \notin scaleRequests \cup scaling /\ <<r, 0>> \notin Over
  /\ \A p, q \in 1..Len(controllerPersist) : controllerPersist[p] = <<r, 0>> /\ p < q =>
       controllerPersist[q] \notin owed[r]
  /\ r \in scaleRequests => \A i \in owed[r] : ~InChannel(i)
  /\ r \in scaling \/ <<r, 0>> \in Over => owed[r] \ {<<>>} \subseteq Over

AllBehind == Accounted /\ \A r \in Requests : Behind(r)

-----------------------------------------------------------------------------
(* Sequences: what the first and the other elements of a longer or shorter *)
(* one are.                                                                *)
LEMMA AppendFacts ==
  ASSUME NEW S, NEW s \in Seq(S), NEW e \in S
  PROVE  /\ Append(s, e) \in Seq(S) /\ Len(Append(s, e)) = Len(s) + 1
         /\ \A i \in 1..Len(s) : Append(s, e)[i] = s[i]
         /\ Append(s, e)[Len(s) + 1] = e
         /\ Append(s, e) # <<>>
OBVIOUS

LEMMA TailFacts ==
  ASSUME NEW S, NEW s \in Seq(S), s # <<>>
  PROVE  /\ Tail(s) \in Seq(S) /\ Len(Tail(s)) = Len(s) - 1 /\ Len(s) \in Nat \ {0}
         /\ \A i \in 1..(Len(s) - 1) : Tail(s)[i] = s[i + 1]
         /\ Head(s) = s[1] /\ s[1] \in S
         /\ \A i \in 1..Len(s) : s[i] \in S
OBVIOUS

LEMMA ElementType == ASSUME NEW S, NEW s \in Seq(S), NEW i \in 1..Len(s) PROVE s[i] \in S
OBVIOUS

(* Where the elements of a longer or shorter sequence come from. *)
LEMMA AppendFrom ==
  ASSUME NEW S, NEW s \in Seq(S), NEW e \in S, NEW t, t = Append(s, e)
  PROVE  /\ \A p \in 1..Len(t) : \/ p \in 1..Len(s) /\ t[p] = s[p]
                                 \/ p = Len(t) /\ t[p] = e /\ \A q \in 1..Len(s) : q < p
         /\ \A p \in 1..Len(s) : p \in 1..Len(t) /\ t[p] = s[p]
         /\ Len(t) \in 1..Len(t) /\ t[Len(t)] = e
BY AppendFacts

LEMMA TailFrom ==
  ASSUME NEW S, NEW s \in Seq(S), s # <<>>, NEW t, t = Tail(s)
  PROVE  /\ \A p \in 1..Len(t) : t[p] = s[p + 1] /\ p + 1 \in 1..Len(s) /\ 1 < p + 1
         /\ \A p, q \in 1..Len(t) : p < q => p + 1 < q + 1
         /\ \A p \in 1..Len(s) : p = 1 \/ \E q \in 1..Len(t) : t[q] = s[p]
         /\ 1 \in 1..Len(s)
<1>1. /\ Len(t) = Len(s) - 1 /\ Len(s) \in Nat \ {0}
      /\ \A i \in 1..(Len(s) - 1) : t[i] = s[i + 1]
  BY TailFacts
<1>2. \A p \in 1..Len(s) : p = 1 \/ \E q \in 1..Len(t) : t[q] = s[p]
  <2> SUFFICES ASSUME NEW p \in 1..Len(s), p # 1 PROVE \E q \in 1..Len(t) : t[q] = s[p]
    OBVIOUS
  <2>1. p - 1 \in 1..Len(t) /\ t[p - 1] = s[p]
    BY <1>1
  <2> QED BY <2>1
<1> QED BY <1>1, <1>2

(* The item the loop receives. *)
LEMMA HeadItem ==
  ASSUME TypeOK, controllerPersist # <<>>
  PROVE  /\ Head(controllerPersist)[1] \in Keys =>
              Head(controllerPersist)[2] \in States
         /\ Head(controllerPersist)[1] \in Requests => Head(controllerPersist)[2] = 0
         /\ Head(controllerPersist) = <<Head(controllerPersist)[1], Head(controllerPersist)[2]>>
<1>1. Head(controllerPersist) \in Items
  BY TailFacts DEF TypeOK
<1> QED BY <1>1, PersistAssumption DEF Items

LEMMA HeadQueue ==
  ASSUME TypeOK, NEW k \in Keys, put[k] # "none"
  PROVE  queue[k] # <<>> /\ Head(queue[k]) = queue[k][1] /\ queue[k][1] \in States
<1>1. queue[k] # <<>> /\ queue[k] \in Seq(States)
  BY DEF TypeOK
<1> QED BY <1>1, TailFacts

-----------------------------------------------------------------------------
(* Types. *)
LEMMA InitType == Init => TypeOK
BY PersistAssumption DEF Init, TypeOK

LEMMA NextType == TypeOK /\ [Next]_vars => TypeOK'
<1> SUFFICES ASSUME TypeOK, [Next]_vars PROVE TypeOK'
  OBVIOUS
<1> USE PersistAssumption
<1>1. ASSUME NEW k \in Keys, persistControllerJob(k) PROVE TypeOK'
  <2>1. sent[k] + 1 \in States /\ <<k, sent[k] + 1>> \in Items
    BY <1>1 DEF persistControllerJob, TypeOK, States, Items
  <2> QED BY <1>1, <2>1, AppendFacts DEF persistControllerJob, TypeOK, States, controller
<1>2. ASSUME NEW k \in Keys, Done(k) PROVE TypeOK'
  <2>1. queue[k] # <<>> /\ queue[k] \in Seq(States)
    BY <1>2, HeadQueue DEF Done, TypeOK
  <2>2. Tail(queue[k]) \in Seq(States)
    BY <2>1, TailFacts
  <2>3. scaling' \subseteq Requests /\ scaleRequests' \subseteq Requests
    BY <1>2 DEF Done, TypeOK
  <2> QED BY <1>2, <2>2, <2>3 DEF Done, TypeOK, controller
<1>3. ASSUME NEW k \in Keys, Put(k) PROVE TypeOK'
  <2>1. Head(queue[k]) \in States
    BY <1>3, HeadQueue DEF Put
  <2> QED BY <1>3, <2>1 DEF Put, Store, TypeOK, States, Items
<1>4. ASSUME NEW k \in Keys, GiveUp(k) PROVE TypeOK'
  <2>1. Head(queue[k]) \in States
    BY <1>4, HeadQueue DEF GiveUp
  <2>2. <<k, Head(queue[k])>> \in Items /\ <<k, Head(queue[k])>> \in Keys \X States
    BY <2>1 DEF Items
  <2>3. lost' \subseteq Items /\ late' \subseteq Keys \X States
    BY <1>4, <2>2 DEF GiveUp, TypeOK
  <2> QED BY <1>4, <2>3 DEF GiveUp, TypeOK, controller
<1>5. ASSUME NEW r \in Requests, markScaleRequestAsComplete(r) PROVE TypeOK'
  <2>1. <<r, 0>> \in Items
    BY DEF Items
  <2> QED BY <1>5, <2>1, AppendFacts DEF markScaleRequestAsComplete, TypeOK, controller
<1>6. ASSUME NEW r \in Requests, PutScaleRequest(r) PROVE TypeOK'
  BY <1>6 DEF PutScaleRequest, TypeOK, loop, Items
<1>7. CASE Receive
  <2> DEFINE i == Head(controllerPersist)
  <2>1. Tail(controllerPersist) \in Seq(Items)
    BY <1>7, TailFacts DEF Receive, TypeOK
  <2>2. CASE i[1] \in Keys /\ ReceiveState(i[1], i[2])
    <3>1. i[2] \in States
      BY <1>7, <2>2, HeadItem DEF Receive
    <3>2. queue[i[1]] \in Seq(States)
      BY <2>2 DEF TypeOK
    <3>3. Append(queue[i[1]], i[2]) \in Seq(States) /\ Append(queue[i[1]], i[2]) # <<>>
      BY <3>1, <3>2, AppendFacts
    <3> HIDE DEF i
    <3> QED BY <1>7, <2>1, <2>2, <3>3 DEF Receive, ReceiveState, TypeOK, controller
  <2>3. CASE i[1] \in Requests /\ maybePersistScaleRequest(i[1])
    <3> HIDE DEF i
    <3> QED BY <1>7, <2>1, <2>3 DEF Receive, maybePersistScaleRequest, TypeOK, controller
  <2> QED BY <1>7, <2>2, <2>3 DEF Receive
<1>8. CASE StoreLate
  BY <1>8 DEF StoreLate, Store, TypeOK, States, Items, loop
<1>9. CASE UNCHANGED vars
  BY <1>9 DEF TypeOK, vars, loop, controller
<1> QED BY <1>1, <1>2, <1>3, <1>4, <1>5, <1>6, <1>7, <1>8, <1>9 DEF Next

(* Every variable keeps its type, and a queue has a goroutine exactly when *)
(* it is not empty.                                                        *)
THEOREM PersistTypes == Spec => []TypeOK
<1>1. Init => TypeOK
  BY InitType
<1>2. TypeOK /\ [Next]_vars => TypeOK'
  BY NextType
<1> QED BY <1>1, <1>2, PTL DEF Spec

-----------------------------------------------------------------------------
(* Order. *)
LEMMA InitInOrder == Init => QueuesInOrder
BY PersistAssumption DEF Init, QueuesInOrder, Ordered, ChannelSent, ChannelAscends, ChannelAfter, QueueSent, QueueAscends

LEMMA NextInOrder == TypeOK /\ QueuesInOrder /\ [Next]_vars => QueuesInOrder'
<1> SUFFICES ASSUME TypeOK, QueuesInOrder, [Next]_vars, ~Break PROVE QueuesInOrder'
  BY DEF QueuesInOrder
<1> USE PersistAssumption
<1>a. late = {} /\ \A k \in Keys : Ordered(k)
  BY DEF QueuesInOrder
<1>b. /\ controllerPersist \in Seq(Items) /\ Len(controllerPersist) \in Nat
      /\ \A k \in Keys : queue[k] \in Seq(States) /\ Len(queue[k]) \in Nat
      /\ \A k \in Keys : sent[k] \in Nat /\ stored[k] \in Nat
  BY DEF TypeOK
<1>c. \A k \in Keys : \A p \in 1..Len(queue[k]) : queue[k][p] \in Nat
  BY <1>b, ElementType DEF States
<1>d. \A i \in 1..Len(controllerPersist) : controllerPersist[i][2] \in Nat
  <2>1. \A i \in 1..Len(controllerPersist) : controllerPersist[i] \in Items
    BY <1>b, ElementType
  <2> QED BY <2>1 DEF Items, States
<1>s. ASSUME UNCHANGED <<sent, controllerPersist, queue, stored>>, late' = {} PROVE QueuesInOrder'
  BY <1>a, <1>s DEF QueuesInOrder, Ordered, ChannelSent, ChannelAscends, ChannelAfter, QueueSent, QueueAscends
<1>1. ASSUME NEW k \in Keys, persistControllerJob(k) PROVE QueuesInOrder'
  <2>1. sent[k] + 1 \in States /\ <<k, sent[k] + 1>> \in Items
    BY <1>1 DEF persistControllerJob, TypeOK, States, Items
  <2>2. \A p \in 1..Len(controllerPersist') :
           \/ p \in 1..Len(controllerPersist) /\ controllerPersist'[p] = controllerPersist[p]
           \/ /\ controllerPersist'[p][1] = k /\ controllerPersist'[p][2] = sent[k] + 1
              /\ p = Len(controllerPersist') /\ \A q \in 1..Len(controllerPersist) : q < p
    BY <1>1, <1>b, <2>1, AppendFrom DEF persistControllerJob
  <2>3. /\ UNCHANGED <<queue, stored, late>>
        /\ sent'[k] = sent[k] + 1 /\ \A j \in Keys \ {k} : sent'[j] = sent[j]
    BY <1>1 DEF persistControllerJob, controller, TypeOK
  <2>4. ASSUME NEW j \in Keys PROVE Ordered(j)'
    <3>1. Ordered(j)
      BY <1>a
    <3>2. CASE j # k
      <4>1. /\ sent'[j] = sent[j]
            /\ \A p \in 1..Len(controllerPersist') : controllerPersist'[p][1] = j =>
                 p \in 1..Len(controllerPersist) /\ controllerPersist'[p] = controllerPersist[p]
        BY <2>2, <2>3, <3>2
      <4> QED BY <2>3, <3>1, <4>1 DEF Ordered, ChannelSent, ChannelAscends, ChannelAfter, QueueSent, QueueAscends
    <3>3. CASE j = k
      <4>1. sent'[j] = sent[j] + 1
        BY <2>3, <3>3
      <4>u. ChannelSent(j)'
        BY <1>b, <1>d, <2>2, <2>3, <3>1, <3>3, <4>1 DEF Ordered, ChannelSent
      <4>v. ChannelAscends(j)'
        <5> SUFFICES ASSUME NEW p \in 1..Len(controllerPersist'), NEW q \in 1..Len(controllerPersist'), p < q,
                            controllerPersist'[p][1] = j, controllerPersist'[q][1] = j
                     PROVE  controllerPersist'[p][2] < controllerPersist'[q][2]
          BY DEF ChannelAscends
        <5>1. p \in 1..Len(controllerPersist) /\ controllerPersist'[p] = controllerPersist[p]
          BY <2>2
        <5>2. CASE q \in 1..Len(controllerPersist) /\ controllerPersist'[q] = controllerPersist[q]
          BY <3>1, <5>1, <5>2 DEF Ordered, ChannelAscends
        <5>3. CASE controllerPersist'[q][2] = sent[j] + 1
          BY <1>b, <1>d, <3>1, <5>1, <5>3 DEF Ordered, ChannelSent
        <5> QED BY <2>2, <3>3, <5>2, <5>3
      <4>w. ChannelAfter(j)'
        <5> SUFFICES ASSUME NEW p \in 1..Len(controllerPersist'), NEW q \in 1..Len(queue'[j]),
                            controllerPersist'[p][1] = j
                     PROVE  queue'[j][q] < controllerPersist'[p][2]
          BY DEF ChannelAfter
        <5>1. q \in 1..Len(queue[j]) /\ queue'[j][q] = queue[j][q]
          BY <2>3
        <5>2. CASE p \in 1..Len(controllerPersist) /\ controllerPersist'[p] = controllerPersist[p]
          BY <3>1, <5>1, <5>2 DEF Ordered, ChannelAfter
        <5>3. CASE controllerPersist'[p][2] = sent[j] + 1
          <6>1. queue[j][q] <= sent[j]
            BY <3>1, <5>1 DEF Ordered, QueueSent
          <6>2. queue[j][q] \in Nat /\ sent[j] \in Nat
            BY <1>b, <1>c, <5>1
          <6>3. queue[j][q] < sent[j] + 1
            BY <6>1, <6>2
          <6> QED BY <5>1, <5>3, <6>3
        <5> QED BY <2>2, <3>3, <5>2, <5>3
      <4>x. QueueSent(j)'
        BY <1>b, <1>c, <2>3, <3>1, <4>1 DEF Ordered, QueueSent
      <4>y. QueueAscends(j)'
        BY <2>3, <3>1 DEF Ordered, QueueAscends
      <4> QED BY <1>b, <2>3, <3>1, <4>1, <4>u, <4>v, <4>w, <4>x, <4>y DEF Ordered
    <3> QED BY <3>2, <3>3
  <2> QED BY <1>a, <2>3, <2>4 DEF QueuesInOrder
<1>2. ASSUME NEW k \in Keys, Done(k) PROVE QueuesInOrder'
  <2>1. queue[k] # <<>>
    BY <1>2, HeadQueue DEF Done
  <2>a. queue[k] \in Seq(States) /\ queue'[k] = Tail(queue[k]) /\ \A j \in Keys \ {k} : queue'[j] = queue[j]
    BY <1>2, <1>b DEF Done, TypeOK
  <2> DEFINE h(p) == p + 1
  <2>2. /\ \A p \in 1..Len(queue'[k]) : queue'[k][p] = queue[k][h(p)] /\ h(p) \in 1..Len(queue[k])
        /\ \A p, q \in 1..Len(queue'[k]) : p < q => h(p) < h(q)
        /\ \A j \in Keys \ {k} : queue'[j] = queue[j]
    BY <2>1, <2>a, TailFrom
  <2> HIDE DEF h
  <2>3. UNCHANGED <<sent, controllerPersist, stored, late>>
    BY <1>2 DEF Done, controller
  <2>4. ASSUME NEW j \in Keys PROVE Ordered(j)'
    <3>1. Ordered(j)
      BY <1>a
    <3>2. CASE j # k
      BY <2>2, <2>3, <3>1, <3>2 DEF Ordered, ChannelSent, ChannelAscends, ChannelAfter, QueueSent, QueueAscends
    <3>3. CASE j = k
      <4>u. ChannelSent(j)'
        BY <1>b, <1>c, <1>d, <2>2, <2>3, <3>1, <3>3 DEF Ordered, ChannelSent
      <4>v. ChannelAscends(j)'
        BY <1>b, <1>c, <1>d, <2>2, <2>3, <3>1, <3>3 DEF Ordered, ChannelAscends
      <4>w. ChannelAfter(j)'
        BY <1>b, <1>c, <1>d, <2>2, <2>3, <3>1, <3>3 DEF Ordered, ChannelAfter
      <4>x. QueueSent(j)'
        BY <1>b, <1>c, <1>d, <2>2, <2>3, <3>1, <3>3 DEF Ordered, QueueSent
      <4>y. QueueAscends(j)'
        BY <1>b, <1>c, <1>d, <2>2, <2>3, <3>1, <3>3 DEF Ordered, QueueAscends
      <4> QED BY <4>u, <4>v, <4>w, <4>x, <4>y, <1>b, <1>c, <1>d, <2>2, <2>3, <3>1, <3>3 DEF Ordered
    <3> QED BY <3>2, <3>3
  <2> QED BY <1>a, <2>3, <2>4 DEF QueuesInOrder
<1>3. ASSUME NEW k \in Keys, Put(k) PROVE QueuesInOrder'
  <2>1. queue[k] # <<>> /\ Head(queue[k]) = queue[k][1] /\ Len(queue[k]) >= 1
    BY <1>3, <1>b, HeadQueue, TailFacts DEF Put
  <2>2. /\ stored'[k] = queue[k][1] /\ \A j \in Keys \ {k} : stored'[j] = stored[j]
        /\ UNCHANGED <<sent, controllerPersist, queue, late>>
    BY <1>3, <2>1 DEF Put, Store, TypeOK
  <2>3. ASSUME NEW j \in Keys PROVE Ordered(j)'
    <3>1. Ordered(j)
      BY <1>a
    <3>2. CASE j # k
      BY <2>2, <3>1, <3>2 DEF Ordered, ChannelSent, ChannelAscends, ChannelAfter, QueueSent, QueueAscends
    <3>3. CASE j = k
      BY <1>b, <1>c, <1>d, <2>1, <2>2, <3>1, <3>3 DEF Ordered, ChannelSent, ChannelAscends, ChannelAfter, QueueSent, QueueAscends
    <3> QED BY <3>2, <3>3
  <2> QED BY <1>a, <2>2, <2>3 DEF QueuesInOrder
<1>4. ASSUME NEW k \in Keys, GiveUp(k) PROVE QueuesInOrder'
  BY <1>a, <1>s, <1>4 DEF GiveUp, controller
<1>5. ASSUME NEW r \in Requests, markScaleRequestAsComplete(r) PROVE QueuesInOrder'
  <2>1. <<r, 0>> \in Items
    BY DEF Items
  <2>2. \A p \in 1..Len(controllerPersist') :
           \/ p \in 1..Len(controllerPersist) /\ controllerPersist'[p] = controllerPersist[p]
           \/ controllerPersist'[p][1] = r
    BY <1>5, <1>b, <2>1, AppendFrom DEF markScaleRequestAsComplete
  <2>3. UNCHANGED <<sent, queue, stored, late>>
    BY <1>5 DEF markScaleRequestAsComplete, controller
  <2>4. ASSUME NEW j \in Keys PROVE Ordered(j)'
    <3>1. Ordered(j) /\ j # r
      BY <1>a
    <3>u. ChannelSent(j)'
      BY <1>b, <1>c, <1>d, <2>2, <2>3, <3>1 DEF Ordered, ChannelSent
    <3>v. ChannelAscends(j)'
      BY <1>b, <1>c, <1>d, <2>2, <2>3, <3>1 DEF Ordered, ChannelAscends
    <3>w. ChannelAfter(j)'
      BY <1>b, <1>c, <1>d, <2>2, <2>3, <3>1 DEF Ordered, ChannelAfter
    <3>x. QueueSent(j)'
      BY <1>b, <1>c, <1>d, <2>2, <2>3, <3>1 DEF Ordered, QueueSent
    <3>y. QueueAscends(j)'
      BY <1>b, <1>c, <1>d, <2>2, <2>3, <3>1 DEF Ordered, QueueAscends
    <3> QED BY <3>u, <3>v, <3>w, <3>x, <3>y, <1>b, <1>c, <1>d, <2>2, <2>3, <3>1 DEF Ordered
  <2> QED BY <1>a, <2>3, <2>4 DEF QueuesInOrder
<1>6. ASSUME NEW r \in Requests, PutScaleRequest(r) PROVE QueuesInOrder'
  BY <1>a, <1>s, <1>6 DEF PutScaleRequest, loop
<1>7. CASE Receive
  <2> DEFINE i == Head(controllerPersist)
  <2>a. controllerPersist # <<>> /\ controllerPersist' = Tail(controllerPersist)
    BY <1>7 DEF Receive
  <2>b. i = controllerPersist[1] /\ 1 \in 1..Len(controllerPersist)
    BY <2>a, <1>b, TailFacts, TailFrom
  <2> DEFINE h(p) == p + 1
  <2>1. /\ \A p \in 1..Len(controllerPersist') :
             /\ controllerPersist'[p] = controllerPersist[h(p)] /\ 1 < h(p)
             /\ h(p) \in 1..Len(controllerPersist)
        /\ \A p, q \in 1..Len(controllerPersist') : p < q => h(p) < h(q)
    BY <1>b, <2>a, TailFrom
  <2> HIDE DEF h
  <2>2. UNCHANGED <<sent, stored, late>>
    BY <1>7 DEF Receive, controller
  <2>3. CASE i[1] \in Keys /\ ReceiveState(i[1], i[2])
    <3> DEFINE k == i[1]
    <3>1. i[2] \in States
      BY <1>7, <2>3, HeadItem DEF Receive
    <3>2. queue[k] \in Seq(States)
      BY <1>b, <2>3
    <3>3. /\ \A p \in 1..Len(queue'[k]) :
               \/ p \in 1..Len(queue[k]) /\ queue'[k][p] = queue[k][p]
               \/ /\ queue'[k][p] = i[2] /\ p = Len(queue'[k])
                  /\ \A q \in 1..Len(queue[k]) : q < p
          /\ \A j \in Keys \ {k} : queue'[j] = queue[j]
      <4>1. queue'[k] = Append(queue[k], i[2])
        BY <2>3 DEF ReceiveState, TypeOK
      <4>2. \A j \in Keys \ {k} : queue'[j] = queue[j]
        BY <2>3 DEF ReceiveState, TypeOK
      <4> QED BY <3>1, <3>2, <4>1, <4>2, AppendFrom
    <3>4. ASSUME NEW j \in Keys PROVE Ordered(j)'
      <4>1. Ordered(j)
        BY <1>a
      <4> HIDE DEF i, k
      <4>2. CASE j # k
        <5>1. queue'[j] = queue[j]
          BY <3>3, <4>2
        <5>u. ChannelSent(j)'
          BY <1>b, <1>c, <1>d, <2>1, <2>2, <4>1, <5>1 DEF Ordered, ChannelSent
        <5>v. ChannelAscends(j)'
          BY <1>b, <1>c, <1>d, <2>1, <2>2, <4>1, <5>1 DEF Ordered, ChannelAscends
        <5>w. ChannelAfter(j)'
          BY <1>b, <1>c, <1>d, <2>1, <2>2, <4>1, <5>1 DEF Ordered, ChannelAfter
        <5>x. QueueSent(j)'
          BY <1>b, <1>c, <1>d, <2>1, <2>2, <4>1, <5>1 DEF Ordered, QueueSent
        <5>y. QueueAscends(j)'
          BY <1>b, <1>c, <1>d, <2>1, <2>2, <4>1, <5>1 DEF Ordered, QueueAscends
        <5> QED BY <5>u, <5>v, <5>w, <5>x, <5>y, <1>b, <1>c, <1>d, <2>1, <2>2, <4>1, <5>1 DEF Ordered
      <4>3. CASE j = k
        <5>1. controllerPersist[1][1] = j /\ controllerPersist[1][2] = i[2] /\ i[2] \in Nat
          BY <2>b, <3>1, <4>3 DEF States, i, k
        <5>u. ChannelSent(j)'
          BY <2>1, <2>2, <4>1 DEF Ordered, ChannelSent
        <5>v. ChannelAscends(j)'
          BY <2>1, <4>1 DEF Ordered, ChannelAscends
        <5>w. ChannelAfter(j)'
          <6> SUFFICES ASSUME NEW p \in 1..Len(controllerPersist'), NEW q \in 1..Len(queue'[j]),
                              controllerPersist'[p][1] = j
                       PROVE  queue'[j][q] < controllerPersist'[p][2]
            BY DEF ChannelAfter
          <6>1. controllerPersist'[p] = controllerPersist[h(p)] /\ h(p) \in 1..Len(controllerPersist) /\ 1 < h(p)
            BY <2>1
          <6>2. CASE q \in 1..Len(queue[j]) /\ queue'[j][q] = queue[j][q]
            BY <4>1, <6>1, <6>2 DEF Ordered, ChannelAfter
          <6>3. CASE queue'[j][q] = i[2]
            BY <2>b, <4>1, <5>1, <6>1, <6>3 DEF Ordered, ChannelAscends
          <6> QED BY <3>3, <4>3, <6>2, <6>3
        <5>x. QueueSent(j)'
          BY <1>b, <1>c, <1>d, <2>b, <2>1, <2>2, <3>3, <4>1, <4>3, <5>1 DEF Ordered, QueueSent, ChannelSent
        <5>y. QueueAscends(j)'
          <6> SUFFICES ASSUME NEW p \in 1..Len(queue'[j]), NEW q \in 1..Len(queue'[j]), p < q
                       PROVE  queue'[j][p] < queue'[j][q]
            BY DEF QueueAscends
          <6>1. p \in 1..Len(queue[j]) /\ queue'[j][p] = queue[j][p]
            BY <3>3, <4>3
          <6>2. CASE q \in 1..Len(queue[j]) /\ queue'[j][q] = queue[j][q]
            BY <4>1, <6>1, <6>2 DEF Ordered, QueueAscends
          <6>3. CASE queue'[j][q] = i[2]
            BY <2>b, <4>1, <5>1, <6>1, <6>3 DEF Ordered, ChannelAfter
          <6> QED BY <3>3, <4>3, <6>2, <6>3
        <5> QED BY <5>u, <5>v, <5>w, <5>x, <5>y, <1>b, <1>c, <1>d, <2>b, <2>1, <2>2, <3>3, <4>1, <4>3, <5>1 DEF Ordered
      <4> QED BY <4>2, <4>3
    <3> QED BY <1>a, <2>2, <3>4 DEF QueuesInOrder
  <2>4. CASE i[1] \in Requests /\ maybePersistScaleRequest(i[1])
    <3>1. UNCHANGED queue
      BY <2>4 DEF maybePersistScaleRequest
    <3>2. ASSUME NEW j \in Keys PROVE Ordered(j)'
      <4>1. Ordered(j)
        BY <1>a
      <4>u. ChannelSent(j)'
        BY <1>b, <1>c, <1>d, <2>1, <2>2, <3>1, <4>1 DEF Ordered, ChannelSent
      <4>v. ChannelAscends(j)'
        BY <1>b, <1>c, <1>d, <2>1, <2>2, <3>1, <4>1 DEF Ordered, ChannelAscends
      <4>w. ChannelAfter(j)'
        BY <1>b, <1>c, <1>d, <2>1, <2>2, <3>1, <4>1 DEF Ordered, ChannelAfter
      <4>x. QueueSent(j)'
        BY <1>b, <1>c, <1>d, <2>1, <2>2, <3>1, <4>1 DEF Ordered, QueueSent
      <4>y. QueueAscends(j)'
        BY <1>b, <1>c, <1>d, <2>1, <2>2, <3>1, <4>1 DEF Ordered, QueueAscends
      <4> QED BY <4>u, <4>v, <4>w, <4>x, <4>y, <1>b, <1>c, <1>d, <2>1, <2>2, <3>1, <4>1 DEF Ordered
    <3> QED BY <1>a, <2>2, <3>2 DEF QueuesInOrder
  <2> QED BY <1>7, <2>3, <2>4 DEF Receive
<1>8. CASE StoreLate
  BY <1>a, <1>8 DEF StoreLate
<1>9. CASE UNCHANGED vars
  BY <1>a, <1>s, <1>9 DEF vars, loop, controller
<1> QED BY <1>1, <1>2, <1>3, <1>4, <1>5, <1>6, <1>7, <1>8, <1>9 DEF Next

(* While no connection breaks, the controller never goes back to an        *)
(* earlier state of a job or volume.                                       *)
THEOREM PersistNeverBack == ASSUME ~Break PROVE Spec => NeverBack
<1>1. Init => TypeOK /\ QueuesInOrder
  BY InitType, InitInOrder
<1>2. TypeOK /\ QueuesInOrder /\ [Next]_vars => TypeOK' /\ QueuesInOrder'
  BY NextType, NextInOrder
<1>3. TypeOK /\ QueuesInOrder /\ [Next]_vars => [\A k \in Keys : stored'[k] >= stored[k]]_vars
  <2> SUFFICES ASSUME TypeOK, QueuesInOrder, Next PROVE \A k \in Keys : stored'[k] >= stored[k]
    OBVIOUS
  <2>1. \A k \in Keys : stored[k] \in Nat /\ Ordered(k)
    BY DEF TypeOK, QueuesInOrder
  <2>2. ASSUME UNCHANGED stored PROVE \A k \in Keys : stored'[k] >= stored[k]
    BY <2>1, <2>2
  <2>3. ASSUME NEW j \in Keys, Put(j) PROVE \A k \in Keys : stored'[k] >= stored[k]
    <3>1. queue[j] # <<>> /\ Head(queue[j]) = queue[j][1] /\ queue[j] \in Seq(States)
      BY <2>3, HeadQueue DEF Put, TypeOK
    <3>2. Len(queue[j]) >= 1 /\ Len(queue[j]) \in Nat
      BY <3>1, TailFacts
    <3>3. queue[j][1] >= stored[j]
      <4>1. queue[j][1] \in Nat
        <5>1. queue[j][1] \in States
          BY <3>1, TailFacts
        <5> QED BY <5>1 DEF States
      <4>2. stored[j] <= queue[j][1]
        BY <2>1, <3>2 DEF Ordered, QueueSent
      <4> QED BY <2>1, <4>1, <4>2
    <3> QED BY <2>1, <2>3, <3>1, <3>3 DEF Put, Store, TypeOK
  <2>4. ~StoreLate
    BY DEF StoreLate, QueuesInOrder
  <2> QED BY <2>2, <2>3, <2>4 DEF Next, persistControllerJob, Done, GiveUp, markScaleRequestAsComplete,
                                 PutScaleRequest, Receive, controller
<1> QED BY <1>1, <1>2, <1>3, PTL DEF Spec, NeverBack

-----------------------------------------------------------------------------
(* Scale requests. *)
LEMMA InitBehind == Init => AllBehind
BY DEF Init, AllBehind, Accounted, Behind, InChannel, InQueue, Over

LEMMA NextAccounted == TypeOK /\ Accounted /\ [Next]_vars => Accounted'
<1> SUFFICES ASSUME TypeOK, Accounted, [Next]_vars PROVE Accounted'
  OBVIOUS
<1> USE PersistAssumption
<1>b. /\ controllerPersist \in Seq(Items)
      /\ \A k \in Keys : queue[k] \in Seq(States) /\ sent[k] \in Nat
  BY DEF TypeOK
<1>c. ASSUME UNCHANGED <<sent, queue>>, Over \subseteq Over',
             \A k \in Keys, n \in States : InChannel(<<k, n>>) => InChannel(<<k, n>>)',
             \A k \in Keys : put'[k] = "done" => put[k] = "done" \/ <<k, queue[k][1]>> \in Over'
      PROVE  Accounted'
  <2>1. \A k \in Keys : 1..sent[k] \subseteq States
    BY DEF TypeOK, States
  <2>2. \A k \in Keys : \A n \in 1..sent[k] : InQueue(k, n)' = InQueue(k, n)
    BY <1>c DEF InQueue
  <2> QED BY <1>c, <2>1, <2>2 DEF Accounted
<1>1. ASSUME NEW k \in Keys, persistControllerJob(k) PROVE Accounted'
  <2>1. sent[k] + 1 \in States /\ <<k, sent[k] + 1>> \in Items
    BY <1>1 DEF persistControllerJob, TypeOK, States, Items
  <2>2. PICK m : m = sent[k] + 1 /\ controllerPersist' = Append(controllerPersist, <<k, m>>)
    BY <1>1 DEF persistControllerJob
  <2>3. InChannel(<<k, m>>)' /\ \A i : InChannel(i) => InChannel(i)'
    <3>1. /\ \A p \in 1..Len(controllerPersist) : p \in 1..Len(controllerPersist') /\ controllerPersist'[p] = controllerPersist[p]
          /\ Len(controllerPersist') \in 1..Len(controllerPersist')
          /\ controllerPersist'[Len(controllerPersist')] = <<k, m>>
      BY <1>b, <2>1, <2>2, AppendFrom
    <3> QED BY <3>1 DEF InChannel
  <2>4. /\ UNCHANGED <<queue, put, Over>>
        /\ sent'[k] = sent[k] + 1 /\ \A j \in Keys \ {k} : sent'[j] = sent[j]
    BY <1>1 DEF persistControllerJob, controller, TypeOK, Over
  <2>5. ASSUME NEW j \in Keys, NEW n \in 1..sent'[j] PROVE (InChannel(<<j, n>>) \/ InQueue(j, n) \/ <<j, n>> \in Over)'
    <3>1. n \in 1..sent[j] \/ (j = k /\ n = sent[k] + 1)
      BY <1>b, <2>4, <2>5
    <3>2. CASE n \in 1..sent[j]
      BY <2>3, <2>4, <3>2 DEF Accounted, InQueue
    <3>3. CASE j = k /\ n = sent[k] + 1
      <4>1. <<j, n>> = <<k, m>>
        BY <2>2, <3>3
      <4>2. InChannel(<<j, n>>)'
        BY <2>3, <4>1 DEF InChannel
      <4> QED BY <4>2
    <3> QED BY <3>1, <3>2, <3>3
  <2> QED BY <2>4, <2>5 DEF Accounted
<1>2. ASSUME NEW k \in Keys, Done(k) PROVE Accounted'
  <2>1. put[k] = "done" /\ queue[k] # <<>>
    BY <1>2, HeadQueue DEF Done
  <2>2. /\ queue[k] \in Seq(States) /\ queue'[k] = Tail(queue[k])
        /\ \A j \in Keys \ {k} : queue'[j] = queue[j] /\ put'[j] = put[j]
        /\ put'[k] # "done" /\ UNCHANGED <<sent, controllerPersist, Over>>
    BY <1>2, <1>b DEF Done, TypeOK, controller, Over
  <2>3. \A p \in 1..Len(queue[k]) : p = 1 \/ \E q \in 1..Len(queue'[k]) : queue'[k][q] = queue[k][p]
    <3>1. PICK s \in Seq(States) : s = queue[k] /\ s # <<>>
      BY <2>1, <2>2
    <3>2. PICK u : u = Tail(s) /\ u = queue'[k]
      BY <2>2, <3>1
    <3>3. \A p \in 1..Len(s) : p = 1 \/ \E q \in 1..Len(u) : u[q] = s[p]
      BY <3>1, <3>2, TailFrom
    <3> QED BY <2>2, <3>1, <3>2, <3>3
  <2>4. <<k, queue[k][1]>> \in Over
    BY <2>1 DEF Accounted
  <2>5. \A n : InQueue(k, n) => InQueue(k, n)' \/ <<k, n>> \in Over
    BY <2>3, <2>4 DEF InQueue
  <2>6. \A j \in Keys \ {k} : \A n \in 1..sent[j] : InQueue(j, n) => InQueue(j, n)'
    BY <2>2 DEF InQueue
  <2>7. ASSUME NEW j \in Keys, NEW n \in 1..sent'[j] PROVE (InChannel(<<j, n>>) \/ InQueue(j, n) \/ <<j, n>> \in Over)'
    <3>1. InChannel(<<j, n>>) => InChannel(<<j, n>>)'
      BY <2>2 DEF InChannel
    <3> QED BY <2>2, <2>5, <2>6, <3>1 DEF Accounted
  <2> QED BY <2>2, <2>7 DEF Accounted
<1>3. ASSUME NEW k \in Keys, Put(k) PROVE Accounted'
  <2>1. Head(queue[k]) = queue[k][1]
    BY <1>3, HeadQueue DEF Put
  <2> QED BY <1>3, <1>c, <2>1 DEF Put, Store, TypeOK, Over, InChannel
<1>4. ASSUME NEW k \in Keys, GiveUp(k) PROVE Accounted'
  <2>1. Head(queue[k]) = queue[k][1]
    BY <1>4, HeadQueue DEF GiveUp
  <2> QED BY <1>4, <1>c, <2>1 DEF GiveUp, TypeOK, Over, InChannel, controller
<1>5. ASSUME NEW r \in Requests, markScaleRequestAsComplete(r) PROVE Accounted'
  <2>1. <<r, 0>> \in Items /\ controllerPersist' = Append(controllerPersist, <<r, 0>>)
    BY <1>5 DEF Items, markScaleRequestAsComplete
  <2>2. \A i : InChannel(i) => InChannel(i)'
    BY <1>b, <2>1, AppendFrom DEF InChannel
  <2> QED BY <1>5, <1>c, <2>2 DEF markScaleRequestAsComplete, Over, controller
<1>6. ASSUME NEW r \in Requests, PutScaleRequest(r) PROVE Accounted'
  BY <1>6, <1>c DEF PutScaleRequest, loop, Over, InChannel
<1>7. CASE Receive
  <2> DEFINE i == Head(controllerPersist)
  <2>1. /\ controllerPersist # <<>> /\ controllerPersist' = Tail(controllerPersist)
        /\ UNCHANGED <<sent, Over>>
    BY <1>7 DEF Receive, Over, controller
  <2>2. i = controllerPersist[1] /\ \A x : InChannel(x) => x = i \/ InChannel(x)'
    <3>1. i = controllerPersist[1]
      BY <1>b, <2>1, TailFacts
    <3>2. \A p \in 1..Len(controllerPersist) : p = 1 \/ \E q \in 1..Len(controllerPersist') : controllerPersist'[q] = controllerPersist[p]
      BY <1>b, <2>1, TailFrom
    <3> QED BY <3>1, <3>2 DEF InChannel
  <2>3. CASE i[1] \in Keys /\ ReceiveState(i[1], i[2])
    <3>1. PICK k \in Keys, m \in States : i = <<k, m>>
      BY <1>7, <2>3, HeadItem DEF Receive
    <3>2. /\ queue[k] \in Seq(States) /\ queue'[k] = Append(queue[k], m)
          /\ \A j \in Keys \ {k} : queue'[j] = queue[j]
          /\ \A j \in Keys : put'[j] = "done" => put[j] = "done"
      <4>1. ReceiveState(k, m)
        BY <2>3, <3>1
      <4> HIDE DEF i
      <4> QED BY <1>b, <4>1 DEF ReceiveState, TypeOK
    <3>3. InQueue(k, m)' /\ \A n : InQueue(k, n) => InQueue(k, n)'
      <4> HIDE DEF i
      <4>1. /\ \A p \in 1..Len(queue[k]) : p \in 1..Len(queue'[k]) /\ queue'[k][p] = queue[k][p]
            /\ Len(queue'[k]) \in 1..Len(queue'[k]) /\ queue'[k][Len(queue'[k])] = m
        BY <3>1, <3>2, AppendFrom
      <4> QED BY <4>1 DEF InQueue
    <3>4. \A j \in Keys \ {k} : \A n \in 1..sent[j] : InQueue(j, n) => InQueue(j, n)'
      BY <3>2 DEF InQueue
    <3>5. ASSUME NEW j \in Keys, NEW n \in 1..sent'[j] PROVE (InChannel(<<j, n>>) \/ InQueue(j, n) \/ <<j, n>> \in Over)'
      <4> HIDE DEF i
      <4>1. InChannel(<<j, n>>) \/ InQueue(j, n) \/ <<j, n>> \in Over
        BY <2>1 DEF Accounted
      <4>2. CASE InChannel(<<j, n>>)
        <5>1. CASE <<j, n>> = i
          <6>1. j = k /\ n = m
            BY <3>1, <5>1
          <6> QED BY <3>3, <6>1
        <5>2. CASE InChannel(<<j, n>>)'
          BY <5>2
        <5> QED BY <2>2, <4>2, <5>1, <5>2
      <4>3. CASE InQueue(j, n)
        <5>1. CASE j = k
          BY <3>3, <4>3, <5>1
        <5>2. CASE j # k
          BY <2>1, <3>4, <4>3, <5>2
        <5> QED BY <5>1, <5>2
      <4> QED BY <2>1, <4>1, <4>2, <4>3
    <3>6. ASSUME NEW j \in Keys, put'[j] = "done" PROVE <<j, queue'[j][1]>> \in Over'
      <4>1. put[j] = "done" /\ <<j, queue[j][1]>> \in Over
        BY <3>2, <3>6 DEF Accounted
      <4>2. queue[j] # <<>> /\ queue[j] \in Seq(States)
        BY <4>1, <1>b, HeadQueue
      <4>3. 1 \in 1..Len(queue[j])
        BY <4>2, TailFrom
      <4>4. queue'[j][1] = queue[j][1]
        <5>1. CASE j = k
          BY <3>1, <3>2, <4>2, <4>3, <5>1, AppendFrom
        <5>2. CASE j # k
          BY <3>2, <5>2
        <5> QED BY <5>1, <5>2
      <4> QED BY <2>1, <4>1, <4>4
    <3> QED BY <3>5, <3>6 DEF Accounted
  <2>4. CASE i[1] \in Requests /\ maybePersistScaleRequest(i[1])
    <3>1. UNCHANGED <<queue, put>>
      BY <2>4 DEF maybePersistScaleRequest
    <3>2. \A k \in Keys, n \in States : <<k, n>> # i
      BY <2>4
    <3> QED BY <1>c, <2>1, <2>2, <3>1, <3>2
  <2> QED BY <1>7, <2>3, <2>4 DEF Receive
<1>8. CASE StoreLate
  BY <1>8, <1>c DEF StoreLate, Store, loop, Over, InChannel
<1>9. CASE UNCHANGED vars
  BY <1>9, <1>c DEF vars, loop, controller, Over, InChannel
<1> QED BY <1>1, <1>2, <1>3, <1>4, <1>5, <1>6, <1>7, <1>8, <1>9 DEF Next

LEMMA NextBehind ==
  ASSUME TypeOK, TypeOK', Accounted, Accounted', [Next]_vars, NEW r \in Requests, Behind(r)
  PROVE  Behind(r)'
<1> USE PersistAssumption
<1>a. controllerPersist \in Seq(Items)
  BY DEF TypeOK
<1>b. owed[r] \subseteq {<<>>} \cup {i \in Jobs \X States : i[1] \in Of(r) /\ i[2] \in 1..sent[i[1]]}
  BY DEF Behind
<1>c. \A k \in Keys, n \in States : <<k, n>> # <<r, 0>>
  OBVIOUS
(* A step that leaves the request and the channel alone. *)
<1>s. ASSUME UNCHANGED <<sent, controllerPersist, owed, scaleRequests, scaling>>, Over \subseteq Over',
             <<r, 0>> \in Over' => <<r, 0>> \in Over
      PROVE  Behind(r)'
  BY <1>s DEF Behind, InChannel, Of
<1>1. ASSUME NEW k \in Keys, persistControllerJob(k) PROVE Behind(r)'
  <2>1. PICK m \in States : /\ m = sent[k] + 1 /\ <<k, m>> \in Items
                            /\ controllerPersist' = Append(controllerPersist, <<k, m>>)
    <3>1. sent[k] + 1 \in States /\ <<k, sent[k] + 1>> \in Items
      BY <1>1 DEF persistControllerJob, TypeOK, States, Items
    <3> QED BY <1>1, <3>1 DEF persistControllerJob
  <2>2. \A p \in 1..Len(controllerPersist') :
           \/ p \in 1..Len(controllerPersist) /\ controllerPersist'[p] = controllerPersist[p]
           \/ /\ controllerPersist'[p] = <<k, m>> /\ p = Len(controllerPersist')
              /\ \A q \in 1..Len(controllerPersist) : q < p
    BY <1>a, <2>1, AppendFrom
  <2>3. /\ UNCHANGED <<owed, scaleRequests, scaling, Over>>
        /\ \A j \in Keys : sent[j] \in Nat /\ (sent'[j] = sent[j] \/ sent'[j] = sent[j] + 1)
    BY <1>1 DEF persistControllerJob, TypeOK, Over, controller
  <2>4. <<k, m>> \notin owed[r]
    <3>1. sent[k] \in Nat /\ m \notin 1..sent[k]
      BY <2>1 DEF TypeOK
    <3> QED BY <1>b, <3>1
  <2>5. owed'[r] \subseteq {<<>>} \cup {i \in Jobs \X States : i[1] \in Of(r) /\ i[2] \in 1..sent'[i[1]]}
    BY <1>b, <2>3 DEF Keys
  <2>6. \A i : InChannel(i)' => InChannel(i) \/ i = <<k, m>>
    BY <2>2 DEF InChannel
  <2>7. ASSUME NEW p \in 1..Len(controllerPersist'), NEW q \in 1..Len(controllerPersist'),
               controllerPersist'[p] = <<r, 0>>, p < q
        PROVE  controllerPersist'[q] \notin owed'[r]
    <3>1. p \in 1..Len(controllerPersist) /\ controllerPersist[p] = <<r, 0>>
      BY <1>c, <2>1, <2>2, <2>7
    <3> QED BY <2>2, <2>3, <2>4, <2>7, <3>1 DEF Behind
  <2> QED BY <1>c, <2>1, <2>3, <2>4, <2>5, <2>6, <2>7 DEF Behind, Of
<1>2. ASSUME NEW k \in Keys, Done(k) PROVE Behind(r)'
  <2>1. UNCHANGED <<sent, controllerPersist, owed, Over>>
    BY <1>2 DEF Done, Over, controller
  <2>2. CASE r \in scaling' /\ r \notin scaling
    <3>1. r \in scaleRequests /\ r \notin scaleRequests' /\ ~Waits(queue', r)
      BY <1>2, <2>2 DEF Done
    <3>2. ~Waits(queue, r)'
      BY <3>1 DEF Waits, Of
    <3>3. \A i \in owed'[r] : ~InChannel(i)'
      BY <2>1, <3>1 DEF Behind, InChannel
    <3>4. owed'[r] \subseteq {<<>>} \cup {i \in Jobs \X States : i[1] \in Of(r) /\ i[2] \in 1..sent'[i[1]]}
      BY <1>b, <2>1
    <3>5. owed'[r] \ {<<>>} \subseteq Over'
      <4>1. PICK u : u = owed'[r]
        OBVIOUS
      <4> SUFFICES ASSUME NEW x \in u, x # <<>> PROVE x \in Over'
        BY <4>1
      <4>2. PICK j \in Jobs, n \in States : x = <<j, n>> /\ j \in Of(r) /\ n \in 1..sent'[j]
        BY <3>4, <4>1
      <4>3. queue'[j] = <<>>
        BY <3>1, <4>2 DEF Waits
      <4>4. ~InQueue(j, n)'
        BY <4>3 DEF InQueue
      <4>5. ~InChannel(<<j, n>>)'
        BY <3>3, <4>1, <4>2
      <4> QED BY <4>2, <4>4, <4>5 DEF Accounted, Keys
    <3> QED BY <2>1, <2>2, <3>1, <3>5 DEF Behind, InChannel, Of
  <2>3. CASE r \in scaling' => r \in scaling
    <3>1. scaleRequests' \subseteq scaleRequests
      BY <1>2 DEF Done
    <3> QED BY <2>1, <2>3, <3>1 DEF Behind, InChannel, Of
  <2> QED BY <2>2, <2>3
<1>3. ASSUME NEW k \in Keys, Put(k) PROVE Behind(r)'
  BY <1>3, <1>s DEF Put, Store, Over
<1>4. ASSUME NEW k \in Keys, GiveUp(k) PROVE Behind(r)'
  BY <1>4, <1>s DEF GiveUp, Over, controller
<1>6. ASSUME NEW r0 \in Requests, PutScaleRequest(r0) PROVE Behind(r)'
  <2>1. UNCHANGED <<sent, controllerPersist, owed, scaleRequests>> /\ Over \subseteq Over'
    BY <1>6 DEF PutScaleRequest, Over, loop
  <2>2. scaling' \subseteq scaling /\ (<<r, 0>> \in Over' => <<r, 0>> \in Over \/ r \in scaling)
    BY <1>6 DEF PutScaleRequest, Over
  <2> QED BY <2>1, <2>2 DEF Behind, InChannel, Of
<1>8. CASE StoreLate
  <2>1. PICK x \in Keys \X States : Store(x[1], x[2])
    BY <1>8 DEF StoreLate, TypeOK
  <2> QED BY <1>8, <1>s, <2>1 DEF StoreLate, Store, loop, Over
<1>9. CASE UNCHANGED vars
  BY <1>9, <1>s DEF vars, loop, controller, Over
<1>5. ASSUME NEW r0 \in Requests, markScaleRequestAsComplete(r0) PROVE Behind(r)'
  <2>1. <<r0, 0>> \in Items /\ controllerPersist' = Append(controllerPersist, <<r0, 0>>)
    BY <1>5 DEF Items, markScaleRequestAsComplete
  <2>2. \A p \in 1..Len(controllerPersist') :
           \/ p \in 1..Len(controllerPersist) /\ controllerPersist'[p] = controllerPersist[p]
           \/ /\ controllerPersist'[p] = <<r0, 0>> /\ p = Len(controllerPersist')
              /\ \A q \in 1..Len(controllerPersist) : q < p
    BY <1>a, <2>1, AppendFrom
  <2>3. UNCHANGED <<sent, scaleRequests, scaling, Over>>
    BY <1>5 DEF markScaleRequestAsComplete, Over, controller
  <2>4. \A i : InChannel(i)' => InChannel(i) \/ i = <<r0, 0>>
    BY <2>2 DEF InChannel
  <2>5. CASE r = r0
    <3>1. owed[r] = {} /\ owed'[r] = {<<>>} \cup {i \in Jobs \X States : i[1] \in Of(r) /\ i[2] <= sent[i[1]]}
      BY <1>5, <2>5 DEF markScaleRequestAsComplete, TypeOK
    <3>2. owed'[r] \subseteq {<<>>} \cup {i \in Jobs \X States : i[1] \in Of(r) /\ i[2] \in 1..sent'[i[1]]}
      BY <2>3, <3>1 DEF TypeOK, States, Keys
    <3>3. ~InChannel(<<r, 0>>) /\ r \notin scaleRequests' \cup scaling' /\ <<r, 0>> \notin Over'
      BY <2>3, <3>1 DEF Behind
    <3>4. ASSUME NEW p \in 1..Len(controllerPersist'), NEW q \in 1..Len(controllerPersist'),
                 controllerPersist'[p] = <<r, 0>>
          PROVE  ~(p < q)
      BY <2>2, <3>3, <3>4 DEF InChannel
    <3> QED BY <3>1, <3>2, <3>3, <3>4 DEF Behind, Of
  <2>6. CASE r # r0
    <3>1. owed'[r] = owed[r] /\ <<r0, 0>> \notin owed[r]
      BY <1>5, <1>b, <2>6 DEF markScaleRequestAsComplete, TypeOK, Keys
    <3>2. ASSUME NEW p \in 1..Len(controllerPersist'), NEW q \in 1..Len(controllerPersist'),
                 controllerPersist'[p] = <<r, 0>>, p < q
          PROVE  controllerPersist'[q] \notin owed'[r]
      <4>1. p \in 1..Len(controllerPersist) /\ controllerPersist[p] = <<r, 0>>
        BY <2>2, <2>6, <3>2
      <4> QED BY <2>2, <3>1, <3>2, <4>1 DEF Behind
    <3> QED BY <1>b, <2>3, <2>4, <2>6, <3>1, <3>2 DEF Behind, Of
  <2> QED BY <2>5, <2>6
<1>7. CASE Receive
  <2> DEFINE i == Head(controllerPersist)
  <2> DEFINE h(p) == p + 1
  <2>1. /\ controllerPersist # <<>> /\ controllerPersist' = Tail(controllerPersist)
        /\ UNCHANGED <<sent, owed, Over>>
    BY <1>7 DEF Receive, Over, controller
  <2>2. i = controllerPersist[1] /\ 1 \in 1..Len(controllerPersist)
    BY <1>a, <2>1, TailFacts, TailFrom
  <2>3. /\ \A p \in 1..Len(controllerPersist') :
             /\ controllerPersist'[p] = controllerPersist[h(p)] /\ 1 < h(p)
             /\ h(p) \in 1..Len(controllerPersist)
        /\ \A p, q \in 1..Len(controllerPersist') : p < q => h(p) < h(q)
    BY <1>a, <2>1, TailFrom
  <2> HIDE DEF h, i
  <2>4. \A x : InChannel(x)' => InChannel(x)
    BY <2>3 DEF InChannel
  <2>5. \A p, q \in 1..Len(controllerPersist') : controllerPersist'[p] = <<r, 0>> /\ p < q =>
          controllerPersist'[q] \notin owed'[r]
    BY <2>1, <2>3 DEF Behind
  <2>6. CASE i[1] = r /\ maybePersistScaleRequest(r)
    <3>1. i = <<r, 0>>
      BY <2>1, <2>6, HeadItem DEF i
    <3>2. owed[r] # {}
      BY <2>2, <3>1 DEF Behind, InChannel
    <3>3. \A x \in owed[r] : ~InChannel(x)'
      <4> SUFFICES ASSUME NEW x \in owed[r], NEW p \in 1..Len(controllerPersist'), controllerPersist'[p] = x
                   PROVE  FALSE
        BY DEF InChannel
      <4>1. controllerPersist[h(p)] = x /\ 1 < h(p) /\ h(p) \in 1..Len(controllerPersist)
        BY <2>3
      <4> QED BY <2>2, <3>1, <4>1 DEF Behind
    <3>4. CASE Waits(queue, r)
      BY <1>b, <2>1, <2>5, <2>6, <3>2, <3>3, <3>4 DEF Behind, maybePersistScaleRequest, Of
    <3>5. CASE ~Waits(queue, r)
      <4>1. owed[r] \ {<<>>} \subseteq Over
        <5> SUFFICES ASSUME NEW x \in owed[r], x # <<>> PROVE x \in Over
          OBVIOUS
        <5>1. PICK j \in Jobs, n \in States : x = <<j, n>> /\ j \in Of(r) /\ n \in 1..sent'[j]
          BY <1>b, <2>1
        <5>2. queue'[j] = <<>>
          BY <2>6, <3>5, <5>1 DEF Waits, maybePersistScaleRequest
        <5>3. ~InQueue(j, n)' /\ ~InChannel(<<j, n>>)'
          BY <3>3, <5>1, <5>2 DEF InQueue
        <5> QED BY <2>1, <5>1, <5>3 DEF Accounted, Keys
      <4> QED BY <1>b, <2>1, <2>5, <2>6, <3>2, <3>5, <4>1 DEF Behind, maybePersistScaleRequest, Of
    <3> QED BY <3>4, <3>5
  <2>7. ASSUME r \in scaleRequests' <=> r \in scaleRequests, r \in scaling' <=> r \in scaling PROVE Behind(r)'
    BY <1>b, <2>1, <2>4, <2>5, <2>7 DEF Behind, Of
  <2>8. CASE i[1] \in Keys /\ ReceiveState(i[1], i[2])
    BY <2>7, <2>8 DEF ReceiveState
  <2>9. CASE i[1] \in Requests /\ i[1] # r /\ maybePersistScaleRequest(i[1])
    BY <2>7, <2>9 DEF maybePersistScaleRequest
  <2> QED BY <1>7, <2>6, <2>8, <2>9 DEF Receive, i
<1> QED BY <1>1, <1>2, <1>3, <1>4, <1>5, <1>6, <1>7, <1>8, <1>9 DEF Next

(* A scale request is put after the jobs of its formation, whatever is     *)
(* given up on the way.                                                    *)
THEOREM PersistScaleAfterJobs == Spec => []ScaleAfterJobs
<1>1. Init => TypeOK /\ AllBehind
  BY InitType, InitBehind
<1>2. TypeOK /\ AllBehind /\ [Next]_vars => TypeOK' /\ AllBehind'
  BY NextType, NextAccounted, NextBehind DEF AllBehind
<1>3. AllBehind => ScaleAfterJobs
  BY DEF AllBehind, Behind, ScaleAfterJobs, Over
<1> QED BY <1>1, <1>2, <1>3, PTL DEF Spec

-----------------------------------------------------------------------------
(* Scale requests, for any clients, process types, counts and numbers of   *)
(* requests, breaks and errors.                                            *)
Request == [state : Scale!States, old : Scale!ProcessMaps, new : Scale!Asked, saw : Nat, covers : Nat]
Row == [procs : Scale!ProcessMaps, at : Nat, deleted : BOOLEAN]
Tx == [pc : {"idle", "begun", "read", "cancel", "cancelled"}, at : Nat, new : Scale!Asked \cup {<<>>},
       delete : BOOLEAN, read : Scale!ProcessMaps, saw : Nat, covers : Nat, cancel : SUBSET Nat]
Expansion == [procs : Scale!ProcessMaps, at : Nat, pending : Nat]
Formation == [procs : Scale!ProcessMaps, original : Scale!ProcessMaps, at : Nat, pending : Nat,
              critical : BOOLEAN]

(* Of the rows q: the requests after r could see it when they cancelled,   *)
(* and the processes that r has made of the formation.                     *)
CoveredIn(q, r) == \A s \in DOMAIN q : s > r => q[s].covers >= r
ResultIn(q, r) == Scale!Merge(q[r].old, q[r].new)

(* The processes are those that the last of the first n requests for each  *)
(* type asked for, if the later ones had read the formation after it.      *)
Reflects(q, procs, n) ==
  \A y \in Types, r \in 1..n :
    y \in DOMAIN q[r].new /\ (\A s \in 1..n : s > r => y \notin DOMAIN q[s].new /\ q[s].saw >= r)
      => procs[y] = q[r].new[y]

(* A request that is covered by a later one is not pending. *)
Uncovered(q) ==
  \A r, s \in DOMAIN q : r < s /\ r <= q[s].covers => q[r].state # "pending"

(* The request a formation awaits, if any, has made the formation what it  *)
(* is, and the scheduler's is that one unless it was refused.              *)
Awaits(q, f) ==
  f.pending # 0 => f.pending \in DOMAIN q /\ (CoveredIn(q, f.pending) => f.procs = ResultIn(q, f.pending))
Works(q, k) ==
  k.pending # 0 =>
    /\ k.pending \in DOMAIN q
    /\ CoveredIn(q, k.pending) /\ ~(k.critical /\ Scale!IsScaleDown(ResultIn(q, k.pending)))
         => k.original = ResultIn(q, k.pending)

(* What a transaction has read, and the requests it has locked. *)
Open(q, t) ==
  /\ t.cancel \subseteq DOMAIN q
  /\ t.pc # "idle" => t.new \in Scale!Asked /\ (t.delete => t.new = Scale!None)
  /\ t.pc \in {"read", "cancel", "cancelled"} => t.saw <= Len(q) /\ Reflects(q, t.read, t.saw)
  /\ t.pc \in {"cancel", "cancelled"} => t.covers <= Len(q)
  /\ t.pc = "cancelled" => \A r \in 1..t.covers : q[r].state = "pending" => r \in t.cancel

ScaleTyped ==
  /\ requests \in Seq(Request) /\ row \in Row /\ known \in Formation /\ ch \in Seq(Expansion)
  /\ clock \in Nat /\ current \in Nat /\ since \in Nat
  /\ running \in [Types -> Nat] /\ stopping \in [Types -> Nat]
  /\ persist \subseteq DOMAIN requests /\ tx \in [Clients -> Tx]

RowsInv ==
  /\ row.deleted => row.procs = Scale!None
  /\ Reflects(requests, row.procs, Len(requests))
  /\ Len(requests) # 0 => row.procs = ResultIn(requests, Len(requests))
  /\ Uncovered(requests)

ScaleInv ==
  /\ ScaleTyped /\ RowsInv
  /\ \A c \in Clients : Open(requests, tx[c])
  /\ \A i \in DOMAIN ch : Awaits(requests, ch[i])
  /\ Works(requests, known)

-----------------------------------------------------------------------------
LEMMA RowFacts ==
  ASSUME NEW q \in Seq(Request)
  PROVE  /\ Len(q) \in Nat /\ DOMAIN q = 1..Len(q)
         /\ \A r \in DOMAIN q : q[r] \in Request
OBVIOUS

(* What a request names are process types. *)
LEMMA AskedTypes ==
  ASSUME NEW new \in Scale!Asked
  PROVE  /\ DOMAIN new \subseteq Types
         /\ \A t \in DOMAIN new : new[t] \in Counts \cup {0}
BY DEF Scale!Asked, Scale!Partial, Scale!None

LEMMA NoneType ==
  /\ Scale!None \in Scale!ProcessMaps /\ DOMAIN Scale!None = Types
  /\ \A t \in Types : Scale!None[t] = 0
BY DEF Scale!None, Scale!ProcessMaps

LEMMA MergeType ==
  ASSUME NEW p \in Scale!ProcessMaps, NEW new \in Scale!Asked
  PROVE  /\ Scale!Merge(p, new) \in Scale!ProcessMaps
         /\ \A t \in Types : Scale!Merge(p, new)[t] = IF t \in DOMAIN new THEN new[t] ELSE p[t]
<1>1. \A t \in Types : p[t] \in Counts \cup {0}
  BY DEF Scale!ProcessMaps
<1> QED BY <1>1, AskedTypes DEF Scale!Merge, Scale!ProcessMaps

LEMMA MergeNone ==
  ASSUME NEW p \in Scale!ProcessMaps PROVE Scale!Merge(p, Scale!None) = Scale!None
BY NoneType DEF Scale!Merge, Scale!None

(* What a request asked for is not asked for again. *)
LEMMA MergeTwice ==
  ASSUME NEW p \in Scale!ProcessMaps, NEW new \in Scale!Asked
  PROVE  Scale!Merge(Scale!Merge(p, new), new) = Scale!Merge(p, new)
BY DEF Scale!Merge

LEMMA MapNumbers == ASSUME NEW p \in Scale!ProcessMaps PROVE p \in [Types -> Nat]
<1>1. p = [t \in Types |-> p[t]] /\ \A t \in Types : p[t] \in Counts \cup {0}
  BY DEF Scale!ProcessMaps
<1>2. \A t \in Types : p[t] \in Nat
  BY <1>1, ScaleAssumption
<1> QED BY <1>1, <1>2

(* Rows that are committed keep all but their state. *)
Grows(q, p) ==
  /\ p \in Seq(Request) /\ DOMAIN q \subseteq DOMAIN p /\ Len(q) <= Len(p)
  /\ \A r \in DOMAIN q : /\ p[r].new = q[r].new /\ p[r].old = q[r].old
                         /\ p[r].saw = q[r].saw /\ p[r].covers = q[r].covers
                         /\ p[r].state = "pending" => q[r].state = "pending"

LEMMA GrowsNone == ASSUME NEW q \in Seq(Request) PROVE Grows(q, q)
BY RowFacts DEF Grows

LEMMA GrowsCovered ==
  ASSUME NEW q \in Seq(Request), NEW p, Grows(q, p), NEW r \in DOMAIN q
  PROVE  /\ CoveredIn(p, r) => CoveredIn(q, r)
         /\ ResultIn(p, r) = ResultIn(q, r)
BY DEF Grows, CoveredIn, ResultIn

LEMMA GrowsAwaits ==
  ASSUME NEW q \in Seq(Request), NEW p, Grows(q, p)
  PROVE  /\ \A f : Awaits(q, f) => Awaits(p, f)
         /\ \A k : Works(q, k) => Works(p, k)
<1>1. DOMAIN q \subseteq DOMAIN p
  BY DEF Grows
<1>2. ASSUME NEW f, Awaits(q, f) PROVE Awaits(p, f)
  BY <1>1, <1>2, GrowsCovered DEF Awaits
<1>3. ASSUME NEW k, Works(q, k) PROVE Works(p, k)
  BY <1>1, <1>3, GrowsCovered DEF Works
<1> QED BY <1>2, <1>3

LEMMA GrowsReflects ==
  ASSUME NEW q \in Seq(Request), NEW p, Grows(q, p), NEW n \in Nat, n <= Len(q), NEW procs
  PROVE  Reflects(q, procs, n) => Reflects(p, procs, n)
<1>1. \A r \in 1..n : r \in DOMAIN q /\ p[r].new = q[r].new /\ p[r].saw = q[r].saw
  BY RowFacts DEF Grows
<1> QED BY <1>1 DEF Reflects

LEMMA GrowsOpen ==
  ASSUME NEW q \in Seq(Request), NEW p, Grows(q, p), NEW t \in Tx, Open(q, t)
  PROVE  Open(p, t)
<1>1. Len(q) \in Nat /\ Len(p) \in Nat /\ Len(q) <= Len(p) /\ DOMAIN q \subseteq DOMAIN p /\ DOMAIN q = 1..Len(q)
  BY RowFacts DEF Grows
<1>2. t.saw \in Nat /\ t.covers \in Nat
  BY DEF Tx
<1>3. t.pc \in {"read", "cancel", "cancelled"} => t.saw <= Len(p) /\ Reflects(p, t.read, t.saw)
  BY <1>1, <1>2, GrowsReflects DEF Open
<1>4. t.pc = "cancelled" => \A r \in 1..t.covers : p[r].state = "pending" => r \in t.cancel
  BY <1>1, <1>2 DEF Open, Grows
<1> QED BY <1>1, <1>2, <1>3, <1>4 DEF Open

(* A pending request that every later one covers is the last, and the      *)
(* formation is what it has made of it.                                    *)
LEMMA ExpandedAwaits ==
  ASSUME ScaleTyped, RowsInv, NEW ef \in Scale!Expanded
  PROVE  ef \in Expansion /\ Awaits(requests, ef)
<1>1. /\ Len(requests) \in Nat /\ DOMAIN requests = 1..Len(requests)
      /\ \A r \in DOMAIN requests : requests[r] \in Request
  BY RowFacts DEF ScaleTyped
<1>2. PICK r \in DOMAIN requests \cup {0} :
        /\ ef = [procs |-> row.procs, at |-> row.at, pending |-> r]
        /\ r # 0 => requests[r].state = "pending"
  BY <1>1 DEF Scale!Expanded
<1>3. ef \in Expansion /\ ef.pending = r /\ ef.procs = row.procs
  BY <1>1, <1>2 DEF ScaleTyped, Row, Expansion
<1>4. ASSUME r # 0, CoveredIn(requests, r) PROVE row.procs = ResultIn(requests, r)
  <2>1. r \in DOMAIN requests /\ requests[r].state = "pending"
    BY <1>2, <1>4
  <2>2. \A s \in DOMAIN requests : ~(s > r)
    <3> SUFFICES ASSUME NEW s \in DOMAIN requests, s > r PROVE FALSE
      OBVIOUS
    <3>1. requests[s].covers \in Nat /\ requests[s].covers >= r /\ r \in Nat /\ s \in Nat
      BY <1>1, <1>4, <2>1 DEF CoveredIn, Request
    <3> QED BY <2>1, <3>1 DEF RowsInv, Uncovered
  <2>3. r = Len(requests)
    <3>1. r \in 1..Len(requests) /\ Len(requests) \in DOMAIN requests
      BY <1>1, <2>1
    <3> QED BY <1>1, <2>2, <3>1
  <2> QED BY <1>1, <1>4, <2>3 DEF RowsInv
<1> QED BY <1>2, <1>3, <1>4 DEF Awaits

LEMMA IdleFacts ==
  /\ Scale!Idle \in Tx /\ Scale!Idle.pc = "idle" /\ Scale!Idle.cancel = {} /\ Scale!Idle.delete = FALSE
  /\ Scale!None \in Scale!Asked /\ Scale!Partial \subseteq Scale!Asked
BY NoneType DEF Scale!Idle, Tx, Scale!Asked

LEMMA ScaleInit == ASSUME Scale!Init PROVE ScaleInv
<1>1. requests = <<>> /\ DOMAIN requests = {} /\ Len(requests) = 0 /\ requests \in Seq(Request)
  BY DEF Scale!Init
<1>2. row \in Row /\ row.procs \in Scale!ProcessMaps /\ ~row.deleted
  <2>1. row \in [procs : [Types -> Counts], at : {0}, deleted : {FALSE}]
    BY DEF Scale!Init
  <2>2. row.procs \in [Types -> Counts] /\ row.at = 0 /\ row.deleted = FALSE
    BY <2>1
  <2>3. row = [procs |-> row.procs, at |-> row.at, deleted |-> row.deleted]
    BY <2>1
  <2>4. row.procs \in Scale!ProcessMaps
    <3>1. row.procs = [t \in Types |-> row.procs[t]] /\ \A t \in Types : row.procs[t] \in Counts \cup {0}
      BY <2>2
    <3> QED BY <3>1 DEF Scale!ProcessMaps
  <2>5. row \in Row
    <3> DEFINE x == row.procs
    <3>1. row = [procs |-> x, at |-> 0, deleted |-> FALSE]
      BY <2>2, <2>3
    <3> HIDE DEF x
    <3>2. [procs |-> x, at |-> 0, deleted |-> FALSE] \in [procs : {x}, at : Nat, deleted : BOOLEAN]
      OBVIOUS
    <3>3. x \in Scale!ProcessMaps
      BY <2>4 DEF x
    <3> QED BY <3>1, <3>2, <3>3 DEF Row
  <2>6. ~row.deleted
    BY <2>2
  <2> QED BY <2>4, <2>5, <2>6
<1>3. known \in Formation /\ known.pending = 0
  BY <1>2, ScaleAssumption DEF Scale!Init, Formation
<1>4. ch = <<>> /\ ch \in Seq(Expansion) /\ DOMAIN ch = {}
  BY DEF Scale!Init
<1>5. tx \in [Clients -> Tx] /\ \A c \in Clients : tx[c] = Scale!Idle
  BY IdleFacts DEF Scale!Init
<1>6. running \in [Types -> Nat] /\ stopping \in [Types -> Nat]
  BY <1>2, NoneType, MapNumbers DEF Scale!Init
<1>7. ScaleTyped
  BY <1>1, <1>2, <1>3, <1>4, <1>5, <1>6 DEF ScaleTyped, Scale!Init
<1>8. RowsInv
  BY <1>1, <1>2 DEF RowsInv, Reflects, Uncovered
<1>9. \A c \in Clients : Open(requests, tx[c])
  BY <1>1, <1>5, IdleFacts DEF Open
<1> QED BY <1>3, <1>4, <1>7, <1>8, <1>9 DEF ScaleInv, Works

(* Steps of a transaction before its commit change nothing else. *)
LEMMA TxStep ==
  ASSUME ScaleInv, NEW c \in Clients, NEW t \in Tx, tx' = [tx EXCEPT ![c] = t], Open(requests, t),
         clock' \in Nat, UNCHANGED <<row, requests, ch, current, since, known, running, stopping, persist>>
  PROVE  ScaleInv'
<1>1. tx' \in [Clients -> Tx] /\ \A d \in Clients : tx'[d] = IF d = c THEN t ELSE tx[d]
  BY DEF ScaleInv, ScaleTyped
<1>2. \A d \in Clients : Open(requests, tx'[d])
  BY <1>1 DEF ScaleInv
<1> QED BY <1>1, <1>2 DEF ScaleInv, ScaleTyped, RowsInv

LEMMA ScaleBegin ==
  ASSUME ScaleInv, NEW c \in Clients, NEW t \in Tx, Scale!Begin(c, t),
         t.new \in Scale!Asked, t.delete => t.new = Scale!None, t.cancel = {}
  PROVE  ScaleInv'
<1>1. UNCHANGED <<row, requests, ch, current, since, known, running, stopping, persist>>
  BY DEF Scale!Begin, Scale!stream, Scale!sched, Scale!jobs
<1>2. clock' \in Nat
  BY DEF Scale!Begin, ScaleInv, ScaleTyped
<1> DEFINE u == [t EXCEPT !.pc = "begun", !.at = clock']
<1>3. u \in Tx
  BY <1>2 DEF Tx
<1>4. u.pc = "begun" /\ u.new = t.new /\ u.cancel = {}
  BY DEF Tx
<1>5. u.delete = t.delete
  BY DEF Tx
<1>6. tx' = [tx EXCEPT ![c] = u]
  BY DEF Scale!Begin
<1> HIDE DEF u
<1>7. Open(requests, u)
  BY <1>4, <1>5 DEF Open
<1> QED BY <1>1, <1>2, <1>3, <1>6, <1>7, TxStep

LEMMA ScalePut ==
  ASSUME ScaleInv, NEW c \in Clients, Scale!PutScaleRequest(c) \/ Scale!DeleteFormation(c)
  PROVE  ScaleInv'
<1>1. CASE Scale!PutScaleRequest(c)
  <2>1. PICK new \in Scale!Partial : Scale!Begin(c, [Scale!Idle EXCEPT !.new = new])
    BY <1>1 DEF Scale!PutScaleRequest
  <2> DEFINE t == [Scale!Idle EXCEPT !.new = new]
  <2>2. t \in Tx
    BY IdleFacts DEF Tx
  <2>3. t.new = new /\ t.cancel = {}
    BY IdleFacts DEF Tx
  <2>4. t.delete = FALSE
    BY IdleFacts DEF Tx
  <2> HIDE DEF t
  <2>5. Scale!Begin(c, t)
    BY <2>1 DEF t
  <2> QED BY <2>2, <2>3, <2>4, <2>5, IdleFacts, ScaleBegin
<1>2. CASE Scale!DeleteFormation(c)
  <2> DEFINE t == [Scale!Idle EXCEPT !.new = Scale!None, !.delete = TRUE]
  <2>1. Scale!Begin(c, t)
    BY <1>2 DEF Scale!DeleteFormation
  <2>2. t \in Tx
    BY IdleFacts DEF Tx
  <2>3. t.new = Scale!None /\ t.cancel = {}
    BY IdleFacts DEF Tx
  <2> HIDE DEF t
  <2> QED BY <2>1, <2>2, <2>3, IdleFacts, ScaleBegin
<1> QED BY <1>1, <1>2

LEMMA ScaleSelect ==
  ASSUME ScaleInv, NEW c \in Clients, Scale!Select(c)
  PROVE  ScaleInv'
<1>1. UNCHANGED <<row, requests, clock, ch, current, since, known, running, stopping, persist>>
  BY DEF Scale!Select, Scale!stream, Scale!sched, Scale!jobs
<1>2. tx[c] \in Tx /\ tx[c].pc = "begun" /\ Open(requests, tx[c])
  BY DEF Scale!Select, ScaleInv, ScaleTyped
<1>3. Len(requests) \in Nat /\ row.procs \in Scale!ProcessMaps /\ clock \in Nat
  BY RowFacts DEF ScaleInv, ScaleTyped, Row
<1>4. (IF row.deleted THEN Scale!None ELSE row.procs) = row.procs
  BY DEF ScaleInv, RowsInv
<1> DEFINE t == [tx[c] EXCEPT !.pc = "read", !.saw = Len(requests), !.read = row.procs]
<1>5. tx' = [tx EXCEPT ![c] = t]
  BY <1>4 DEF Scale!Select
<1>6. t \in Tx
  BY <1>2, <1>3 DEF Tx
<1>7. t.pc = "read" /\ t.saw = Len(requests) /\ t.read = row.procs
  BY <1>2 DEF Tx
<1>8. t.new = tx[c].new /\ t.cancel = tx[c].cancel
  BY <1>2 DEF Tx
<1>9. t.delete = tx[c].delete
  BY <1>2 DEF Tx
<1> HIDE DEF t
<1>10. Open(requests, t)
  BY <1>2, <1>3, <1>7, <1>8, <1>9 DEF Open, ScaleInv, RowsInv
<1> QED BY <1>1, <1>3, <1>5, <1>6, <1>10, TxStep

LEMMA ScaleCancel ==
  ASSUME ScaleInv, NEW c \in Clients, Scale!Cancel(c)
  PROVE  ScaleInv'
<1>1. UNCHANGED <<row, requests, clock, ch, current, since, known, running, stopping, persist>>
  BY DEF Scale!Cancel, Scale!stream, Scale!sched, Scale!jobs
<1>2. tx[c] \in Tx /\ tx[c].pc = "read" /\ Open(requests, tx[c])
  BY DEF Scale!Cancel, ScaleInv, ScaleTyped
<1>3. Len(requests) \in Nat /\ clock \in Nat
  BY RowFacts DEF ScaleInv, ScaleTyped
<1> DEFINE t == [tx[c] EXCEPT !.pc = "cancel", !.covers = Len(requests)]
<1>4. tx' = [tx EXCEPT ![c] = t]
  BY DEF Scale!Cancel
<1>5. t \in Tx
  BY <1>2, <1>3 DEF Tx
<1>6. t.pc = "cancel" /\ t.covers = Len(requests)
  BY <1>2 DEF Tx
<1>7. t.new = tx[c].new /\ t.cancel = tx[c].cancel /\ t.saw = tx[c].saw /\ t.read = tx[c].read
  BY <1>2 DEF Tx
<1>8. t.delete = tx[c].delete
  BY <1>2 DEF Tx
<1> HIDE DEF t
<1>9. Open(requests, t)
  BY <1>2, <1>3, <1>6, <1>7, <1>8 DEF Open
<1> QED BY <1>1, <1>3, <1>4, <1>5, <1>9, TxStep

LEMMA ScaleCancelRows ==
  ASSUME ScaleInv, NEW c \in Clients, Scale!CancelRows(c)
  PROVE  ScaleInv'
<1>1. UNCHANGED <<row, requests, clock, ch, current, since, known, running, stopping, persist>>
  BY DEF Scale!CancelRows, Scale!stream, Scale!sched, Scale!jobs
<1>2. tx[c] \in Tx /\ tx[c].pc = "cancel" /\ Open(requests, tx[c])
  BY DEF Scale!CancelRows, ScaleInv, ScaleTyped
<1>3. Len(requests) \in Nat /\ DOMAIN requests = 1..Len(requests) /\ clock \in Nat /\ tx[c].covers \in Nat
  BY <1>2, RowFacts DEF ScaleInv, ScaleTyped, Tx
<1> DEFINE rows == Scale!Cancelable(c)
           t == [tx[c] EXCEPT !.pc = "cancelled", !.cancel = rows]
<1>4. tx' = [tx EXCEPT ![c] = t]
  BY DEF Scale!CancelRows
<1>5. /\ rows \subseteq DOMAIN requests
      /\ \A r \in 1..tx[c].covers : requests[r].state = "pending" => r \in rows
  BY <1>2, <1>3 DEF Scale!Cancelable, Open
<1> HIDE DEF rows
<1>6. t \in Tx
  <2>1. rows \in SUBSET Nat
    BY <1>3, <1>5
  <2> QED BY <1>2, <2>1 DEF Tx
<1>7. t.pc = "cancelled" /\ t.cancel = rows
  BY <1>2 DEF Tx
<1>8. t.new = tx[c].new /\ t.covers = tx[c].covers /\ t.saw = tx[c].saw /\ t.read = tx[c].read
  BY <1>2 DEF Tx
<1>9. t.delete = tx[c].delete
  BY <1>2 DEF Tx
<1> HIDE DEF t
<1>10. Open(requests, t)
  BY <1>2, <1>5, <1>7, <1>8, <1>9 DEF Open
<1> QED BY <1>1, <1>3, <1>4, <1>6, <1>10, TxStep

LEMMA ScaleRollback ==
  ASSUME ScaleInv, NEW c \in Clients, Scale!Rollback(c)
  PROVE  ScaleInv'
<1>1. UNCHANGED <<row, requests, clock, ch, current, since, known, running, stopping, persist>>
      /\ tx' = [tx EXCEPT ![c] = Scale!Idle] /\ clock' \in Nat
  BY DEF Scale!Rollback, Scale!stream, Scale!sched, Scale!jobs, ScaleInv, ScaleTyped
<1>2. Open(requests, Scale!Idle)
  BY IdleFacts DEF Open
<1> QED BY <1>1, <1>2, IdleFacts, TxStep

(* The commit: the rows that were locked are cancelled, the new one is     *)
(* appended, and the formation is what it asks for.                        *)
LEMMA CommitRows ==
  ASSUME ScaleInv, NEW c \in Clients, Scale!Commit(c)
  PROVE  /\ Grows(requests, requests') /\ Len(requests') = Len(requests) + 1
         /\ requests'[Len(requests) + 1] = Scale!Row(tx[c])
         /\ \A r \in DOMAIN requests : r \in tx[c].cancel => requests'[r].state = "cancelled"
<1>1. /\ Len(requests) \in Nat /\ DOMAIN requests = 1..Len(requests)
      /\ \A r \in DOMAIN requests : requests[r] \in Request
  BY RowFacts DEF ScaleInv, ScaleTyped
<1> DEFINE t == tx[c]
           Row_(r) == IF r \in t.cancel THEN [requests[r] EXCEPT !.state = "cancelled"] ELSE requests[r]
           cancelled == [r \in DOMAIN requests |-> Row_(r)]
           new == Scale!Row(t)
<1>2. t \in Tx /\ t.pc = "cancelled" /\ t.new \in Scale!Asked
  BY DEF Scale!Commit, ScaleInv, ScaleTyped, Open
<1>3. ASSUME NEW r \in DOMAIN requests
      PROVE  /\ Row_(r) \in Request /\ Row_(r).new = requests[r].new /\ Row_(r).old = requests[r].old
             /\ Row_(r).saw = requests[r].saw /\ Row_(r).covers = requests[r].covers
             /\ Row_(r).state = "pending" => requests[r].state = "pending"
             /\ r \in t.cancel => Row_(r).state = "cancelled"
  <2> DEFINE x == [requests[r] EXCEPT !.state = "cancelled"]
  <2>1. x \in Request
    BY <1>1, <1>3 DEF Request, Scale!States
  <2>2. x.new = requests[r].new /\ x.old = requests[r].old /\ x.saw = requests[r].saw /\ x.covers = requests[r].covers
    BY <1>1, <1>3 DEF Request
  <2>3. x.state = "cancelled"
    BY <1>1, <1>3 DEF Request
  <2>4. Row_(r) = IF r \in t.cancel THEN x ELSE requests[r]
    OBVIOUS
  <2> HIDE DEF x, Row_
  <2> QED BY <1>1, <1>3, <2>1, <2>2, <2>3, <2>4
<1>4. new \in Request
  BY <1>2 DEF Scale!Row, Request, Scale!States, Tx
<1>5. cancelled \in Seq(Request) /\ Len(cancelled) = Len(requests) /\ DOMAIN cancelled = 1..Len(requests)
      /\ \A r \in DOMAIN requests : cancelled[r] = Row_(r)
  <2>1. cancelled \in [1..Len(requests) -> Request]
    BY <1>1, <1>3
  <2> QED BY <1>1, <2>1
<1>6. requests' = Append(cancelled, new)
  BY DEF Scale!Commit
<1> HIDE DEF cancelled, new, Row_
<1>7. /\ requests' \in Seq(Request) /\ Len(requests') = Len(requests) + 1
      /\ DOMAIN requests' = 1..(Len(requests) + 1)
      /\ \A r \in DOMAIN requests : requests'[r] = Row_(r)
      /\ requests'[Len(requests) + 1] = new
  BY <1>1, <1>4, <1>5, <1>6, AppendFacts
<1>8. Grows(requests, requests')
  BY <1>1, <1>3, <1>7 DEF Grows
<1> QED BY <1>3, <1>7, <1>8 DEF new

LEMMA ScaleCommit ==
  ASSUME ScaleInv, NEW c \in Clients, Scale!Commit(c)
  PROVE  ScaleInv'
<1> DEFINE t == tx[c]
           n == Len(requests)
           q == requests'
<1>1. /\ n \in Nat /\ DOMAIN requests = 1..n
      /\ \A r \in DOMAIN requests : requests[r] \in Request
  BY RowFacts DEF ScaleInv, ScaleTyped
<1>2. UNCHANGED <<clock, current, ch, since, known, running, stopping, persist>>
  BY DEF Scale!Commit, Scale!sched, Scale!jobs
<1>3. /\ t \in Tx /\ t.pc = "cancelled" /\ t.new \in Scale!Asked /\ t.read \in Scale!ProcessMaps
      /\ (t.delete => t.new = Scale!None) /\ t.saw \in Nat /\ t.covers \in Nat
      /\ t.saw <= n /\ Reflects(requests, t.read, t.saw) /\ t.covers <= n
      /\ \A r \in 1..t.covers : requests[r].state = "pending" => r \in t.cancel
  BY DEF Scale!Commit, ScaleInv, ScaleTyped, Open, Tx
<1>4. /\ Grows(requests, q) /\ Len(q) = n + 1 /\ q[n + 1] = Scale!Row(t)
      /\ \A r \in DOMAIN requests : r \in t.cancel => q[r].state = "cancelled"
  BY CommitRows
<1>5. /\ q[n + 1].new = t.new /\ q[n + 1].old = t.read /\ q[n + 1].saw = t.saw
      /\ q[n + 1].covers = t.covers
  BY <1>4 DEF Scale!Row
<1>6. q \in Seq(Request) /\ DOMAIN q = 1..(n + 1)
  BY <1>4, RowFacts DEF Grows
<1> HIDE DEF q, n, t
<1> DEFINE procs == Scale!Merge(t.read, t.new)
<1>7. row' \in Row /\ row'.procs = procs /\ (row'.deleted => row'.procs = Scale!None)
  <2>1. row' = Scale!Written(t) /\ row \in Row /\ t.at \in Nat /\ t.delete \in BOOLEAN
    BY <1>3 DEF Scale!Commit, t, ScaleInv, ScaleTyped, Tx
  <2>2. procs \in Scale!ProcessMaps
    BY <1>3, MergeType
  <2>3. CASE ~t.delete
    BY <2>1, <2>2, <2>3 DEF Scale!Written, Row
  <2>4. CASE t.delete
    <3>1. procs = Scale!None
      BY <1>3, <2>4, MergeNone
    <3>2. row.deleted => row.procs = Scale!None
      BY DEF ScaleInv, RowsInv
    <3> QED BY <2>1, <2>2, <2>4, <3>1, <3>2 DEF Scale!Written, Row
  <2> QED BY <2>1, <2>3, <2>4
<1>8. tx' = [tx EXCEPT ![c] = Scale!Idle]
  BY DEF Scale!Commit
<1>9. tx' \in [Clients -> Tx] /\ \A d \in Clients : tx'[d] = IF d = c THEN Scale!Idle ELSE tx[d]
  BY <1>8, IdleFacts DEF ScaleInv, ScaleTyped
<1>10. ScaleTyped'
  BY <1>2, <1>4, <1>6, <1>7, <1>9 DEF ScaleInv, ScaleTyped, Grows, q
<1>11. \A d \in Clients : Open(q, tx'[d])
  <2>1. Open(q, Scale!Idle)
    BY IdleFacts DEF Open
  <2>2. \A d \in Clients : Open(q, tx[d])
    BY <1>4, GrowsOpen DEF ScaleInv, ScaleTyped
  <2> QED BY <1>9, <2>1, <2>2
<1>12. \A i \in DOMAIN ch' : Awaits(q, ch'[i])
  BY <1>2, <1>4, GrowsAwaits DEF ScaleInv, ScaleTyped
<1>13. Works(q, known')
  BY <1>2, <1>4, GrowsAwaits DEF ScaleInv, ScaleTyped
<1>14. procs = ResultIn(q, n + 1)
  BY <1>5 DEF ResultIn
<1>15. Uncovered(q)
  <2> SUFFICES ASSUME NEW r \in 1..(n + 1), NEW s \in 1..(n + 1), r < s, r <= q[s].covers
               PROVE  q[r].state # "pending"
    BY <1>6 DEF Uncovered
  <2>1. r \in DOMAIN requests /\ (s \in DOMAIN requests \/ s = n + 1)
    BY <1>1
  <2>2. CASE s \in DOMAIN requests
    BY <1>4, <2>1, <2>2 DEF Grows, ScaleInv, RowsInv, Uncovered
  <2>3. CASE s = n + 1
    <3>1. r \in 1..t.covers
      BY <1>3, <1>5, <2>3
    <3>2. CASE r \in t.cancel
      BY <1>4, <2>1, <3>2
    <3>3. CASE r \notin t.cancel
      BY <1>3, <1>4, <2>1, <3>1, <3>3 DEF Grows
    <3> QED BY <3>2, <3>3
  <2> QED BY <2>1, <2>2, <2>3
<1>16. Reflects(q, procs, n + 1)
  <2> SUFFICES ASSUME NEW y \in Types, NEW r \in 1..(n + 1), y \in DOMAIN q[r].new,
                      \A s \in 1..(n + 1) : s > r => y \notin DOMAIN q[s].new /\ q[s].saw >= r
               PROVE  procs[y] = q[r].new[y]
    BY DEF Reflects
  <2>1. procs[y] = IF y \in DOMAIN t.new THEN t.new[y] ELSE t.read[y]
    BY <1>3, MergeType
  <2>2. CASE r = n + 1
    BY <1>5, <2>1, <2>2
  <2>3. CASE r # n + 1
    <3>1. r \in 1..n /\ n + 1 > r /\ n + 1 \in 1..(n + 1)
      BY <1>1, <2>3
    <3>2. y \notin DOMAIN t.new /\ t.saw >= r
      BY <1>5, <3>1
    <3>3. r \in 1..t.saw /\ \A s \in 1..t.saw : s \in 1..n
      BY <1>1, <1>3, <3>1, <3>2
    <3>4. \A s \in 1..n : q[s].new = requests[s].new /\ q[s].saw = requests[s].saw
      BY <1>1, <1>4 DEF Grows
    <3>5. \A s \in 1..t.saw : s > r => y \notin DOMAIN requests[s].new /\ requests[s].saw >= r
      BY <1>1, <3>3, <3>4
    <3>6. t.read[y] = requests[r].new[y]
      BY <1>3, <3>1, <3>3, <3>4, <3>5 DEF Reflects
    <3> QED BY <2>1, <3>1, <3>2, <3>4, <3>6
  <2> QED BY <2>2, <2>3
<1>17. RowsInv'
  BY <1>4, <1>7, <1>14, <1>15, <1>16 DEF RowsInv, q
<1> QED BY <1>10, <1>11, <1>12, <1>13, <1>17 DEF ScaleInv, q

(* An update of a request sets its state and nothing else. *)
LEMMA ScaleUpdate ==
  ASSUME ScaleInv, NEW r \in persist, Scale!UpdateScaleRequest(r)
  PROVE  ScaleInv' /\ persist' \subseteq persist
<1>1. /\ Len(requests) \in Nat /\ DOMAIN requests = 1..Len(requests) /\ r \in DOMAIN requests
      /\ \A s \in DOMAIN requests : requests[s] \in Request
  BY RowFacts DEF ScaleInv, ScaleTyped
<1>2. UNCHANGED <<row, clock, tx, current, ch, since, known, running, stopping>> /\ persist' \subseteq persist
  BY DEF Scale!UpdateScaleRequest, Scale!jobs
<1> DEFINE done == [requests[r] EXCEPT !.state = "complete"]
<1>3. done \in Request
  BY <1>1 DEF Request, Scale!States
<1>4. done.new = requests[r].new /\ done.old = requests[r].old /\ done.saw = requests[r].saw
      /\ done.covers = requests[r].covers
  BY <1>1 DEF Request
<1>5. done.state = "complete"
  BY <1>1 DEF Request
<1>6. requests' = [requests EXCEPT ![r] = done]
  BY DEF Scale!UpdateScaleRequest
<1> HIDE DEF done
<1>7. /\ requests' \in Seq(Request) /\ Len(requests') = Len(requests) /\ DOMAIN requests' = DOMAIN requests
      /\ requests'[r] = done /\ \A s \in DOMAIN requests \ {r} : requests'[s] = requests[s]
  BY <1>1, <1>3, <1>6 DEF ScaleInv, ScaleTyped
<1>8. Grows(requests, requests')
  BY <1>1, <1>4, <1>5, <1>7 DEF Grows
<1>9. ScaleTyped'
  BY <1>2, <1>7 DEF ScaleInv, ScaleTyped
<1>10. \A c \in Clients : Open(requests', tx[c])
  BY <1>8, GrowsOpen DEF ScaleInv, ScaleTyped
<1>11. (\A i \in DOMAIN ch : Awaits(requests', ch[i])) /\ Works(requests', known)
  BY <1>8, GrowsAwaits DEF ScaleInv, ScaleTyped
<1>12. Reflects(requests', row.procs, Len(requests))
  <2>1. Len(requests) <= Len(requests) /\ Reflects(requests, row.procs, Len(requests)) /\ requests \in Seq(Request)
    BY <1>1 DEF ScaleInv, ScaleTyped, RowsInv
  <2> QED BY <1>1, <1>8, <2>1, GrowsReflects
<1>13. Uncovered(requests')
  BY <1>7, <1>8 DEF Grows, Uncovered, ScaleInv, RowsInv
<1>14. Len(requests) # 0 => ResultIn(requests', Len(requests)) = ResultIn(requests, Len(requests))
  BY <1>1, <1>8 DEF Grows, ResultIn
<1>15. RowsInv'
  BY <1>2, <1>7, <1>12, <1>13, <1>14 DEF ScaleInv, RowsInv
<1> QED BY <1>2, <1>9, <1>10, <1>11, <1>15 DEF ScaleInv

LEMMA ScaleSend ==
  ASSUME ScaleInv, UNCHANGED <<row, requests, clock, tx, known, running, stopping, persist>>,
         \/ UNCHANGED <<ch, since>>
         \/ \E ef \in Scale!Expanded : ch' = Append(ch, ef) /\ since' = ef.at,
         current' \in {current, since, since'}
  PROVE  ScaleInv'
<1>1. /\ ch' \in Seq(Expansion) /\ since' \in Nat
      /\ \A i \in DOMAIN ch' : Awaits(requests, ch'[i])
  <2>1. CASE UNCHANGED <<ch, since>>
    BY <2>1 DEF ScaleInv, ScaleTyped
  <2>2. ASSUME NEW ef \in Scale!Expanded, ch' = Append(ch, ef), since' = ef.at
        PROVE  /\ ch' \in Seq(Expansion) /\ since' \in Nat
               /\ \A i \in DOMAIN ch' : Awaits(requests, ch'[i])
    <3>1. ef \in Expansion /\ Awaits(requests, ef) /\ ch \in Seq(Expansion)
      BY ExpandedAwaits DEF ScaleInv, ScaleTyped
    <3>2. /\ ch' \in Seq(Expansion) /\ DOMAIN ch' = 1..(Len(ch) + 1) /\ DOMAIN ch = 1..Len(ch)
          /\ \A i \in 1..Len(ch) : ch'[i] = ch[i]
          /\ ch'[Len(ch) + 1] = ef /\ Len(ch) \in Nat
      BY <2>2, <3>1, AppendFacts
    <3>3. \A i \in DOMAIN ch' : Awaits(requests, ch'[i])
      BY <3>1, <3>2 DEF ScaleInv
    <3> QED BY <2>2, <3>1, <3>2, <3>3 DEF Expansion
  <2> QED BY <2>1, <2>2
<1>2. current' \in Nat
  BY <1>1 DEF ScaleInv, ScaleTyped
<1> QED BY <1>1, <1>2 DEF ScaleInv, ScaleTyped, RowsInv

LEMMA ScaleStream ==
  ASSUME ScaleInv, Scale!StreamEvent \/ Scale!Reconnect
  PROVE  ScaleInv'
<1>1. UNCHANGED <<row, requests, clock, tx, known, running, stopping, persist>>
  BY DEF Scale!StreamEvent, Scale!Reconnect, Scale!db, Scale!sched, Scale!jobs
<1>2. Scale!ListSince(since) \subseteq Scale!Expanded
  BY DEF Scale!ListSince
<1>3. CASE Scale!StreamEvent
  BY <1>1, <1>3, ScaleSend DEF Scale!StreamEvent
<1>4. CASE Scale!Reconnect
  BY <1>1, <1>2, <1>4, ScaleSend DEF Scale!Reconnect
<1> QED BY <1>3, <1>4

(* What the scheduler makes of a formation. *)
LEMMA HandleFormation ==
  ASSUME ScaleInv, NEW ef \in Expansion, Awaits(requests, ef)
  PROVE  /\ Scale!handleFormation(known, ef) \in Formation
         /\ Works(requests, Scale!handleFormation(known, ef))
<1> DEFINE k == Scale!handleFormation(known, ef)
           u == [known EXCEPT !.at = ef.at, !.pending = ef.pending]
           v == [u EXCEPT !.procs = ef.procs, !.original = ef.procs]
<1>1. \/ k = known
      \/ k = u /\ (ef.procs = known.original \/ (known.critical /\ Scale!IsScaleDown(ef.procs)))
      \/ k = v
  BY DEF Scale!handleFormation
<1>2. known \in Formation /\ Works(requests, known)
  BY DEF ScaleInv, ScaleTyped
<1>3. u \in Formation
  BY <1>2 DEF Formation, Expansion
<1>4. u.original = known.original /\ u.pending = ef.pending
  BY <1>2 DEF Formation
<1>5. u.critical = known.critical
  BY <1>2 DEF Formation
<1> HIDE DEF u
<1>6. v \in Formation
  BY <1>3 DEF Formation, Expansion
<1>7. v.original = ef.procs /\ v.pending = u.pending
  BY <1>3 DEF Formation
<1> HIDE DEF k, v
<1>8. Works(requests, u) \/ ~(ef.procs = known.original \/ (known.critical /\ Scale!IsScaleDown(ef.procs)))
  BY <1>4, <1>5 DEF Works, Awaits
<1>9. Works(requests, v)
  BY <1>4, <1>7 DEF Works, Awaits
<1>10. k \in Formation /\ Works(requests, k)
  BY <1>1, <1>2, <1>3, <1>6, <1>8, <1>9
<1> QED BY <1>10 DEF k

(* Steps that change the scheduler's formation, and its jobs. *)
LEMMA SchedulerStep ==
  ASSUME ScaleInv, UNCHANGED <<row, requests, clock, tx, current, since>>,
         ch' \in Seq(Expansion), \A i \in DOMAIN ch' : Awaits(requests, ch'[i]),
         known' \in Formation, Works(requests, known'), persist' \subseteq DOMAIN requests,
         running' \in [Types -> Nat], stopping' \in [Types -> Nat]
  PROVE  ScaleInv'
BY DEF ScaleInv, ScaleTyped, RowsInv

LEMMA ScaleHandle ==
  ASSUME ScaleInv, Scale!HandleFormationChange
  PROVE  ScaleInv'
<1>1. /\ UNCHANGED <<row, requests, clock, tx, current, since, running, stopping, persist>>
      /\ ch # <<>> /\ ch' = Tail(ch) /\ known' = Scale!handleFormation(known, Head(ch))
  BY DEF Scale!HandleFormationChange, Scale!db, Scale!jobs
<1>2. /\ ch \in Seq(Expansion) /\ Head(ch) = ch[1] /\ ch[1] \in Expansion /\ ch' \in Seq(Expansion)
      /\ DOMAIN ch = 1..Len(ch) /\ DOMAIN ch' = 1..(Len(ch) - 1) /\ Len(ch) \in Nat \ {0}
      /\ \A i \in 1..(Len(ch) - 1) : ch'[i] = ch[i + 1]
  BY <1>1, TailFacts DEF ScaleInv, ScaleTyped
<1>3. \A i \in DOMAIN ch : Awaits(requests, ch[i])
  BY DEF ScaleInv
<1>4. known' \in Formation /\ Works(requests, known')
  BY <1>1, <1>2, <1>3, HandleFormation
<1>5. \A i \in DOMAIN ch' : Awaits(requests, ch'[i])
  BY <1>2, <1>3
<1> QED BY <1>1, <1>2, <1>4, <1>5, SchedulerStep DEF ScaleInv, ScaleTyped

LEMMA ScaleSync ==
  ASSUME ScaleInv, Scale!SyncFormations
  PROVE  ScaleInv'
<1>1. UNCHANGED <<row, requests, clock, tx, notify, current, ch, since, running, stopping, persist>>
  BY DEF Scale!SyncFormations, Scale!db, Scale!stream, Scale!jobs
<1>2. known' \in Formation /\ Works(requests, known')
  <2>1. CASE Scale!ListActive
    BY <2>1, ExpandedAwaits, HandleFormation DEF Scale!SyncFormations, ScaleInv
  <2>2. CASE ~Scale!ListActive
    <3>1. known' = [known EXCEPT !.procs = Scale!None] /\ known \in Formation
      BY <2>2 DEF Scale!SyncFormations, ScaleInv, ScaleTyped
    <3>2. known' \in Formation
      BY <3>1, NoneType DEF Formation
    <3>3. known'.pending = known.pending /\ known'.original = known.original
      BY <3>1 DEF Formation
    <3>4. known'.critical = known.critical
      BY <3>1 DEF Formation
    <3> QED BY <3>2, <3>3, <3>4 DEF ScaleInv, Works
  <2> QED BY <2>1, <2>2
<1> QED BY <1>1, <1>2, SchedulerStep DEF ScaleInv, ScaleTyped

LEMMA ScaleRectify ==
  ASSUME ScaleInv, Scale!RectifyFormation
  PROVE  /\ ScaleInv' /\ persist' \ persist \subseteq {known.pending}
         /\ known.pending # 0 /\ running = known.procs
<1>1. /\ UNCHANGED <<row, requests, clock, tx, notify, current, ch, since, running, stopping>>
      /\ known.pending # 0 /\ running = known.procs
      /\ persist' = persist \cup {known.pending} /\ known' = [known EXCEPT !.pending = 0]
  BY DEF Scale!RectifyFormation, Scale!db, Scale!stream, Scale!jobs
<1>2. known \in Formation /\ known.pending \in DOMAIN requests
  BY <1>1 DEF ScaleInv, ScaleTyped, Works
<1>3. known' \in Formation
  BY <1>1, <1>2 DEF Formation
<1>4. known'.pending = 0
  BY <1>1, <1>2 DEF Formation
<1>5. Works(requests, known')
  BY <1>4 DEF Works
<1>6. ScaleInv'
  BY <1>1, <1>2, <1>3, <1>5, SchedulerStep DEF ScaleInv, ScaleTyped
<1> QED BY <1>1, <1>6

LEMMA ScaleJobs ==
  ASSUME ScaleInv, Scale!JobsChange
  PROVE  ScaleInv' /\ UNCHANGED persist
<1>1. PICK t \in Types : Scale!StartJob(t) \/ Scale!StopJob(t) \/ Scale!JobStops(t)
  BY DEF Scale!JobsChange
<1>2. UNCHANGED <<row, requests, clock, tx, notify, current, ch, since, known, persist>>
  BY <1>1 DEF Scale!StartJob, Scale!StopJob, Scale!JobStops, Scale!db, Scale!stream
<1>3. /\ known.procs \in [Types -> Nat] /\ running \in [Types -> Nat] /\ stopping \in [Types -> Nat]
      /\ known.procs[t] \in Nat /\ running[t] \in Nat /\ stopping[t] \in Nat
  BY MapNumbers DEF ScaleInv, ScaleTyped, Formation
<1>4. running' \in [Types -> Nat] /\ stopping' \in [Types -> Nat]
  BY <1>1, <1>3 DEF Scale!StartJob, Scale!StopJob, Scale!JobStops
<1> QED BY <1>2, <1>4, SchedulerStep DEF ScaleInv, ScaleTyped

LEMMA ScaleStutter ==
  ASSUME ScaleInv, UNCHANGED Scale!vars
  PROVE  ScaleInv' /\ UNCHANGED persist
BY DEF Scale!vars, Scale!db, Scale!stream, Scale!sched, Scale!jobs, ScaleInv, ScaleTyped, RowsInv

LEMMA ScaleClient ==
  ASSUME ScaleInv, NEW c \in Clients,
         Scale!PutScaleRequest(c) \/ Scale!DeleteFormation(c) \/ Scale!Advance(c) \/ Scale!Rollback(c)
  PROVE  ScaleInv' /\ UNCHANGED persist
<1>1. ScaleInv'
  BY ScalePut, ScaleSelect, ScaleCancel, ScaleCancelRows, ScaleCommit, ScaleRollback DEF Scale!Advance
<1>2. UNCHANGED persist
  BY DEF Scale!PutScaleRequest, Scale!DeleteFormation, Scale!Begin, Scale!Advance, Scale!Select,
         Scale!Cancel, Scale!CancelRows, Scale!Commit, Scale!Rollback, Scale!sched
<1> QED BY <1>1, <1>2

(* A step keeps the invariant, and completes only the request that the     *)
(* scheduler works on, with its processes running.                         *)
LEMMA ScaleNext ==
  ASSUME ScaleInv, [Scale!Next]_Scale!vars
  PROVE  /\ ScaleInv'
         /\ \A r \in persist' \ persist :
              r = known.pending /\ known.pending # 0 /\ running = known.procs
<1>1. ASSUME NEW c \in Clients,
             Scale!PutScaleRequest(c) \/ Scale!DeleteFormation(c) \/ Scale!Advance(c) \/ Scale!Rollback(c)
      PROVE  ScaleInv' /\ UNCHANGED persist
  BY <1>1, ScaleClient
<1>2. CASE Scale!StreamEvent \/ Scale!Reconnect
  BY <1>2, ScaleStream DEF Scale!StreamEvent, Scale!Reconnect, Scale!sched
<1>3. CASE Scale!HandleFormationChange
  BY <1>3, ScaleHandle DEF Scale!HandleFormationChange
<1>4. CASE Scale!SyncFormations
  BY <1>4, ScaleSync DEF Scale!SyncFormations
<1>5. CASE Scale!RectifyFormation
  BY <1>5, ScaleRectify
<1>6. CASE Scale!JobsChange
  BY <1>6, ScaleJobs
<1>7. ASSUME NEW r \in persist, Scale!UpdateScaleRequest(r) PROVE ScaleInv' /\ persist' \subseteq persist
  BY <1>7, ScaleUpdate
<1>8. CASE UNCHANGED Scale!vars
  BY <1>8, ScaleStutter
<1> QED BY <1>1, <1>2, <1>3, <1>4, <1>5, <1>6, <1>7, <1>8 DEF Scale!Next

(* Types of the scale requests, of the stream and of the scheduler. *)
THEOREM ScaleTypes == Scale!Spec => []Scale!TypeOK
<1>1. Scale!Init => ScaleInv
  BY ScaleInit
<1>2. ScaleInv /\ [Scale!Next]_Scale!vars => ScaleInv'
  BY ScaleNext
<1>3. ScaleInv => Scale!TypeOK
  <2> SUFFICES ASSUME ScaleInv PROVE Scale!TypeOK
    OBVIOUS
  <2>1. \A r \in DOMAIN requests :
          requests[r] \in [state : Scale!States, old : Scale!ProcessMaps, new : Scale!Asked, saw : Nat, covers : Nat]
    BY RowFacts DEF Request, ScaleInv, ScaleTyped
  <2>2. {clock, current, since} \subseteq Nat
    BY DEF ScaleInv, ScaleTyped
  <2>3. \A c \in Clients : tx[c].pc \in {"idle", "begun", "read", "cancel", "cancelled"}
    BY DEF ScaleInv, ScaleTyped, Tx
  <2>4. \A c \in Clients : tx[c].cancel \subseteq DOMAIN requests
    BY DEF ScaleInv, Open
  <2>5. known.pending \in 0..Len(requests)
    BY RowFacts DEF ScaleInv, ScaleTyped, Works
  <2>6. known \in [procs : Scale!ProcessMaps, original : Scale!ProcessMaps, at : Nat,
                   pending : 0..Len(requests), critical : BOOLEAN]
    BY <2>5 DEF ScaleInv, ScaleTyped, Formation
  <2>7. row \in [procs : Scale!ProcessMaps, at : Nat, deleted : BOOLEAN]
        /\ {running, stopping} \subseteq [Types -> Nat] /\ persist \subseteq DOMAIN requests
    BY DEF ScaleInv, ScaleTyped, Row
  <2> QED BY <2>1, <2>2, <2>3, <2>4, <2>6, <2>7 DEF Scale!TypeOK
<1> QED BY <1>1, <1>2, <1>3, PTL DEF Scale!Spec

(* AddScaleRequest cancels "any current scale requests for the same        *)
(* formation": however transactions overlap, two are pending only when the *)
(* later one was cancelling before the earlier one was committed.          *)
THEOREM OneRequestPending == Scale!Spec => []Scale!OnePending
<1>1. Scale!Init => ScaleInv
  BY ScaleInit
<1>2. ScaleInv /\ [Scale!Next]_Scale!vars => ScaleInv'
  BY ScaleNext
<1>3. ScaleInv => Scale!OnePending
  <2> SUFFICES ASSUME ScaleInv, NEW r \in DOMAIN requests, NEW s \in DOMAIN requests, r < s,
                      requests[r].state = "pending"
               PROVE  requests[s].covers < r
    BY DEF Scale!OnePending
  <2>0. requests \in Seq(Request)
    BY DEF ScaleInv, ScaleTyped
  <2>1. r \in Nat
    BY <2>0, RowFacts
  <2>2. requests[s] \in Request
    BY <2>0, RowFacts
  <2>3. requests[s].covers \in Nat
    BY <2>2 DEF Request
  <2> QED BY <2>1, <2>3 DEF ScaleInv, RowsInv, Uncovered
<1> QED BY <1>1, <1>2, <1>3, PTL DEF Scale!Spec

(* AddScaleRequest: the formation has what the last request for each       *)
(* process type asked for unless a later one had read it before, however   *)
(* transactions overlap, fail and delete the formation.                    *)
THEOREM LastRequestWins == Scale!Spec => []LastWins
<1>1. Scale!Init => ScaleInv
  BY ScaleInit
<1>2. ScaleInv /\ [Scale!Next]_Scale!vars => ScaleInv'
  BY ScaleNext
<1>3. ScaleInv => Scale!LastWins
  <2> SUFFICES ASSUME ScaleInv, NEW y \in Types, NEW r \in DOMAIN requests, y \in DOMAIN requests[r].new,
                      \A s \in DOMAIN requests : y \in DOMAIN requests[s].new => s <= r, Scale!Seen(r)
               PROVE  row.procs[y] = requests[r].new[y]
    BY DEF Scale!LastWins
  <2>1. /\ DOMAIN requests = 1..Len(requests) /\ Len(requests) \in Nat
        /\ \A s \in 1..Len(requests) : s > r => y \notin DOMAIN requests[s].new /\ requests[s].saw >= r
    BY RowFacts DEF ScaleInv, ScaleTyped, Scale!Seen
  <2> QED BY <2>1 DEF ScaleInv, RowsInv, Reflects
<1>4. Scale!TypeOK /\ Scale!LastWins /\ Scale!OnePending => LastWins
  BY DEF LastWins
<1> QED BY <1>1, <1>2, <1>3, <1>4, ScaleTypes, OneRequestPending, PTL DEF Scale!Spec

(* RectifyFormation: the scheduler completes a request only while the jobs *)
(* it asked for run, and no others of the types it names but jobs that are *)
(* stopping, unless a later request has overtaken it, a critical app was   *)
(* refused it, or a sync has emptied the formation.                        *)
THEOREM CompletedWhenScaled == Scale!Spec => CompleteMeansScaled
<1>1. Scale!Init => ScaleInv
  BY ScaleInit
<1>2. ScaleInv /\ [Scale!Next]_Scale!vars =>
        /\ ScaleInv'
        /\ \A r \in persist' \ persist :
             Scale!Covered(r) /\ ~Scale!Refused(r) /\ known.procs = known.original => Scale!Satisfies(running, r)
  <2> SUFFICES ASSUME ScaleInv, [Scale!Next]_Scale!vars, NEW r \in persist' \ persist,
                      Scale!Covered(r), ~Scale!Refused(r), known.procs = known.original
               PROVE  Scale!Satisfies(running, r)
    BY ScaleNext
  <2>1. r = known.pending /\ known.pending # 0 /\ running = known.procs
    BY ScaleNext
  <2>2. r \in DOMAIN requests /\ requests[r] \in Request
    BY <2>1, RowFacts DEF ScaleInv, ScaleTyped, Works
  <2>3. CoveredIn(requests, r) /\ ~(known.critical /\ Scale!IsScaleDown(ResultIn(requests, r)))
    BY DEF Scale!Covered, CoveredIn, Scale!Refused, Scale!Result, ResultIn
  <2>4. running = Scale!Merge(requests[r].old, requests[r].new)
    BY <2>1, <2>2, <2>3 DEF ScaleInv, Works, ResultIn
  <2> QED BY <2>2, <2>4, MergeTwice DEF Scale!Satisfies, Request
<1> QED BY <1>1, <1>2, PTL DEF Scale!Spec, CompleteMeansScaled, Scale!CompleteMeansScaled

-----------------------------------------------------------------------------
(* The event stream while one transaction at a time inserts events. *)
OneOpen ==
  /\ MaxEvents \in Nat /\ MaxConns \in Nat /\ MaxDrops \in Nat /\ QueueSize \in Nat
  /\ MaxOpen = 1

Conn ==
  [handler : {"none", "subscribed", "listing", "live", "sending", "done"}, alive : BOOLEAN,
   sub : {"none", "open", "closing", "left", "closed"}, loop : {"none", "running", "done"},
   queue : Seq(Events!Ids), held : {0} \cup Events!Ids, last : {0} \cup Events!Ids,
   list : SUBSET Events!Ids, curr : {0} \cup Events!Ids, hand : {0} \cup Events!Ids]

StreamTyped ==
  /\ events \in [Events!Ids -> {"none", "open", "committed"}]
  /\ notices \in Seq(Events!Ids) /\ received \in Seq(Events!Ids) /\ before \subseteq Events!Ids
  /\ conns \in [Events!Conns -> Conn] /\ conn \in {0} \cup Events!Conns
  /\ start \in 0..Len(received) /\ drops \in 0..MaxDrops
  /\ listening \in BOOLEAN /\ missed \subseteq Events!Ids

(* Identifiers are committed in their order. *)
OneByOne ==
  \A i, j \in Events!Ids : i < j /\ events[j] # "none" => events[i] = "committed"

(* Sequences of events, and events against a sequence of later ones. *)
Ascends(s) == \A p, q \in 1..Len(s) : p < q => s[p] < s[q]
Ahead(x, s) == \A p \in 1..Len(s) : x < s[p]
Within(s, S) == \A p \in 1..Len(s) : s[p] \in S

(* What is on its way to a connection comes in order: the event in the     *)
(* handler's hand, the one the loop holds, the queue and the notices ns.   *)
Flow(c, ns) ==
  /\ Ascends(c.queue) /\ \A p \in 1..Len(c.queue) : Ahead(c.queue[p], ns)
  /\ c.held # 0 => Ahead(c.held, c.queue) /\ Ahead(c.held, ns)
  /\ c.hand # 0 => /\ c.held # 0 => c.hand < c.held
                   /\ Ahead(c.hand, c.queue) /\ Ahead(c.hand, ns)

(* Everything a connection knows is committed. *)
Known(c, S) ==
  /\ Within(c.queue, S) /\ c.list \subseteq S
  /\ {c.held, c.last, c.curr, c.hand} \subseteq {0} \cup S

ConnOK(c, ns, S) == c \in Conn /\ Len(c.queue) <= QueueSize /\ Flow(c, ns) /\ Known(c, S)

(* An event that was received before whatever is on its way. *)
Passed(x, c, ns) ==
  /\ c.hand # 0 => x < c.hand
  /\ c.held # 0 => x < c.held
  /\ Ahead(x, c.queue) /\ Ahead(x, ns)

(* What the client received over its connection, from b on, was listed or  *)
(* comes before what is on its way.                                        *)
Sends(c, r, b, ns) ==
  /\ c.handler \in {"none", "subscribed"} => b = Len(r) /\ c.curr = 0
  /\ c.handler = "listing" => /\ \A n \in b+1..Len(r) : r[n] <= c.curr
                              /\ \A i \in c.list : c.curr < i
  /\ c.handler = "sending" => c.hand # 0 /\ c.curr < c.hand
  /\ c.handler \in {"live", "sending"} =>
       \A n \in b+1..Len(r) : r[n] <= c.curr \/ Passed(r[n], c, ns)

StreamInv ==
  /\ StreamTyped /\ OneByOne
  /\ Ascends(notices) /\ Within(notices, Events!Committed)
  /\ Within(received, Events!Committed) /\ before \cup missed \subseteq Events!Committed
  /\ \A k \in Events!Conns : /\ ConnOK(conns[k], notices, Events!Committed)
                             /\ conns[k].alive => conn = k
  /\ conn # 0 => Sends(conns[conn], received, start, notices)
  /\ Events!InOrder

-----------------------------------------------------------------------------
LEMMA StreamTypes ==
  ASSUME OneOpen, StreamInv
  PROVE  /\ Events!Ids \subseteq Nat /\ 0 \notin Events!Ids
         /\ Events!Conns \subseteq Nat /\ 0 \notin Events!Conns
         /\ Events!Committed \subseteq Events!Ids
         /\ start \in Nat /\ Len(received) \in Nat /\ start <= Len(received)
BY DEF OneOpen, StreamInv, StreamTyped, Events!Ids, Events!Conns, Events!Committed

LEMMA NoConnOK ==
  ASSUME OneOpen, NEW ns, NEW S
  PROVE  ConnOK(Events!NoConn, ns, S)
<1> DEFINE c == Events!NoConn
<1>1. c \in Conn /\ c.queue = <<>> /\ c.held = 0 /\ c.hand = 0 /\ c.last = 0 /\ c.curr = 0 /\ c.list = {}
  BY DEF Events!NoConn, Conn
<1>2. Len(c.queue) = 0 /\ 0 <= QueueSize
  BY <1>1 DEF OneOpen
<1> HIDE DEF c
<1>3. Flow(c, ns)
  BY <1>1, <1>2 DEF Flow, Ascends, Ahead
<1>4. Known(c, S)
  BY <1>1, <1>2 DEF Known, Within
<1> QED BY <1>1, <1>2, <1>3, <1>4 DEF ConnOK, c

LEMMA StreamInit == ASSUME OneOpen, Events!Init PROVE StreamInv
<1> USE DEF Events!Init
<1>1. \A k \in Events!Conns : conns[k] = Events!NoConn
  OBVIOUS
<1>2. \A k \in Events!Conns : ConnOK(conns[k], notices, Events!Committed)
  BY <1>1, NoConnOK
<1>3. StreamTyped
  <2>1. conns \in [Events!Conns -> Conn]
    BY <1>2 DEF ConnOK
  <2>2. <<>> \in Seq(Events!Ids) /\ Len(<<>>) = 0
    OBVIOUS
  <2>3. listening \in BOOLEAN
    OBVIOUS
  <2>4. /\ events \in [Events!Ids -> {"none", "open", "committed"}] /\ start \in 0..Len(received)
        /\ drops \in 0..MaxDrops
    BY <2>2 DEF OneOpen
  <2> QED BY <2>1, <2>2, <2>3, <2>4 DEF StreamTyped
<1>4. OneByOne
  BY DEF OneByOne
<1>5. \A k \in Events!Conns : ~conns[k].alive
  BY <1>1 DEF Events!NoConn
<1> QED
  BY <1>2, <1>3, <1>4, <1>5 DEF StreamInv, Ascends, Within, Events!InOrder

(* A step of connection k, which sends nothing. *)
Turn(k) ==
  /\ conns' = [conns EXCEPT ![k] = conns'[k]]
  /\ events' = events /\ notices' = notices /\ received' = received /\ before' = before
  /\ start' = start /\ conn' \in {conn, 0} /\ drops' \in 0..MaxDrops
  /\ listening' = listening /\ missed' = missed

LEMMA TurnKeeps ==
  ASSUME OneOpen, StreamInv, NEW k \in Events!Conns, Turn(k),
         ConnOK(conns'[k], notices, Events!Committed),
         conns'[k].alive => conns[k].alive /\ conn' = conn,
         conn' = conn \/ conn = k,
         conn' = k => Sends(conns'[k], received, start, notices)
  PROVE  StreamInv'
<1>1. /\ conns' \in [Events!Conns -> Conn]
      /\ \A j \in Events!Conns \ {k} : conns'[j] = conns[j]
  BY DEF StreamInv, StreamTyped, ConnOK, Turn
<1>2. Events!Committed' = Events!Committed
  BY DEF Turn, Events!Committed
<1>3. StreamTyped'
  BY <1>1 DEF StreamInv, StreamTyped, Turn
<1>4. OneByOne' /\ Events!InOrder'
  BY DEF StreamInv, OneByOne, Events!InOrder, Turn
<1>5. ASSUME NEW j \in Events!Conns
      PROVE  /\ ConnOK(conns'[j], notices', Events!Committed')
             /\ conns'[j].alive => conn' = j
  <2>1. CASE j = k
    BY <1>2, <2>1 DEF Turn, StreamInv
  <2>2. CASE j # k
    <3>1. conns'[j] = conns[j] BY <1>1, <2>2
    <3>2. conns[j].alive => conn = j BY DEF StreamInv
    <3>3. ConnOK(conns'[j], notices', Events!Committed')
      BY <1>2, <3>1 DEF Turn, StreamInv
    <3> QED BY <3>1, <3>2, <3>3, <2>2 DEF Turn
  <2> QED BY <2>1, <2>2
<1>6. conn' # 0 => Sends(conns'[conn'], received', start', notices')
  <2>1. CASE conn' = k
    BY <2>1 DEF Turn
  <2>2. CASE conn' # k /\ conn' # 0
    <3>1. conn' = conn /\ conn \in Events!Conns \ {k}
      BY <2>2 DEF Turn, StreamInv, StreamTyped
    <3>2. conns'[conn'] = conns[conn]
      BY <1>1, <3>1
    <3> QED BY <3>1, <3>2, <2>2 DEF Turn, StreamInv
  <2> QED BY <2>1, <2>2
<1>7. /\ Ascends(notices') /\ Within(notices', Events!Committed')
      /\ Within(received', Events!Committed') /\ before' \cup missed' \subseteq Events!Committed'
  BY <1>2 DEF StreamInv, Turn
<1> QED BY <1>3, <1>4, <1>5, <1>6, <1>7 DEF StreamInv

(* The facts about a connection that its steps use. *)
LEMMA ConnFacts ==
  ASSUME OneOpen, StreamInv, NEW k \in Events!Conns
  PROVE  /\ conns[k] \in Conn /\ Len(conns[k].queue) <= QueueSize
         /\ Flow(conns[k], notices) /\ Known(conns[k], Events!Committed)
         /\ conns[k].alive => conn = k
         /\ conn = k => Sends(conns[k], received, start, notices)
         /\ conn \in {0} \cup Events!Conns /\ drops \in 0..MaxDrops
<1>1. 0 \notin Events!Conns BY StreamTypes
<1> QED BY <1>1 DEF StreamInv, ConnOK, StreamTyped

LEMMA CloseWithErrorKeeps ==
  ASSUME OneOpen, StreamInv, NEW k \in Events!Conns, Events!CloseWithError(k)
  PROVE  StreamInv'
<1> DEFINE c == conns[k]  d == conns'[k]
<1>1. d = [c EXCEPT !.sub = "closed"] /\ c \in Conn /\ Turn(k)
  BY ConnFacts DEF StreamInv, StreamTyped, Events!CloseWithError, Turn, Events!server, Events!client
<1>2. /\ d \in Conn /\ d.queue = c.queue /\ d.held = c.held /\ d.hand = c.hand /\ d.list = c.list
      /\ d.last = c.last /\ d.curr = c.curr /\ d.handler = c.handler /\ d.alive = c.alive
  BY <1>1 DEF Conn
<1> HIDE DEF c, d
<1>3. ConnOK(d, notices, Events!Committed)
  BY <1>2, ConnFacts DEF ConnOK, Flow, Known, c
<1>4. conn = k => Sends(d, received, start, notices)
  BY <1>2, ConnFacts DEF Sends, Passed, c
<1>5. conn' = conn
  BY DEF Events!CloseWithError, Events!client
<1>6. d.alive => c.alive /\ conn' = conn
  BY <1>2, <1>5
<1> QED BY <1>1, <1>3, <1>4, <1>5, <1>6, TurnKeeps DEF c, d

LEMMA LoopStopKeeps ==
  ASSUME OneOpen, StreamInv, NEW k \in Events!Conns, Events!LoopStop(k)
  PROVE  StreamInv'
<1> DEFINE c == conns[k]  d == conns'[k]
<1>1. d = [c EXCEPT !.loop = "done"] /\ c \in Conn /\ Turn(k)
  BY ConnFacts DEF StreamInv, StreamTyped, Events!LoopStop, Turn, Events!server, Events!client
<1>2. /\ d \in Conn /\ d.queue = c.queue /\ d.held = c.held /\ d.hand = c.hand /\ d.list = c.list
      /\ d.last = c.last /\ d.curr = c.curr /\ d.handler = c.handler /\ d.alive = c.alive
  BY <1>1 DEF Conn
<1> HIDE DEF c, d
<1>3. ConnOK(d, notices, Events!Committed)
  BY <1>2, ConnFacts DEF ConnOK, Flow, Known, c
<1>4. conn = k => Sends(d, received, start, notices)
  BY <1>2, ConnFacts DEF Sends, Passed, c
<1>5. conn' = conn
  BY DEF Events!LoopStop, Events!client
<1>6. d.alive => c.alive /\ conn' = conn
  BY <1>2, <1>5
<1> QED BY <1>1, <1>3, <1>4, <1>5, <1>6, TurnKeeps DEF c, d

LEMMA LoopTakeKeeps ==
  ASSUME OneOpen, StreamInv, NEW k \in Events!Conns, Events!LoopTake(k)
  PROVE  StreamInv'
<1> DEFINE c == conns[k]  d == conns'[k]  q == c.queue
<1>1. d = [c EXCEPT !.held = Head(q), !.queue = Tail(q)] /\ c \in Conn /\ Turn(k)
  BY ConnFacts DEF StreamInv, StreamTyped, Events!LoopTake, Turn, Events!server, Events!client
<1>2. q \in Seq(Events!Ids) /\ q # <<>> /\ c.held = 0
  BY <1>1 DEF Events!LoopTake, Conn
<1>3. /\ Len(q) \in Nat /\ Len(q) >= 1 /\ Head(q) = q[1] /\ q[1] \in Events!Ids
      /\ Tail(q) \in Seq(Events!Ids) /\ Len(Tail(q)) = Len(q) - 1
      /\ \A p \in 1..Len(q) - 1 : p + 1 \in 1..Len(q) /\ Tail(q)[p] = q[p + 1]
  BY <1>2
<1>4. /\ d \in Conn /\ d.queue = Tail(q) /\ d.held = q[1] /\ d.hand = c.hand /\ d.list = c.list
      /\ d.last = c.last /\ d.curr = c.curr /\ d.handler = c.handler /\ d.alive = c.alive
  BY <1>1, <1>3 DEF Conn
<1>5. /\ Events!Ids \subseteq Nat /\ 0 \notin Events!Ids /\ Events!Committed \subseteq Events!Ids
      /\ QueueSize \in Nat
  BY StreamTypes DEF OneOpen
<1>6. Flow(c, notices) /\ Known(c, Events!Committed) /\ Len(q) <= QueueSize
  BY ConnFacts
<1> HIDE DEF c, d, q
<1>7. Flow(d, notices)
  <2>1. Ascends(d.queue) /\ Ahead(d.held, d.queue)
    <3>1. \A m, n \in 1..Len(q) : m < n => q[m] < q[n]
      BY <1>6 DEF Flow, Ascends, q
    <3>2. d.queue = Tail(q) /\ d.held = q[1] /\ Len(d.queue) = Len(q) - 1 /\ Len(q) \in Nat
      BY <1>3, <1>4
    <3>3. \A m \in 1..Len(d.queue) :
            m + 1 \in 1..Len(q) /\ 1 \in 1..Len(q) /\ d.queue[m] = q[m + 1] /\ 1 < m + 1
      BY <1>3, <3>2
    <3>4. Ahead(d.held, d.queue)
      BY <3>1, <3>2, <3>3 DEF Ahead
    <3>5. \A m, n \in 1..Len(d.queue) : m < n => m + 1 < n + 1
      BY <3>2
    <3>6. Ascends(d.queue)
      BY <3>1, <3>3, <3>5 DEF Ascends
    <3> QED BY <3>4, <3>6
  <2>2. /\ \A p \in 1..Len(d.queue) : Ahead(d.queue[p], notices)
        /\ Ahead(d.held, notices)
    BY <1>3, <1>4, <1>6 DEF Flow, q
  <2>3. d.hand # 0 => d.hand < d.held /\ Ahead(d.hand, d.queue) /\ Ahead(d.hand, notices)
    BY <1>3, <1>4, <1>6 DEF Flow, Ahead, q
  <2> QED BY <2>1, <2>2, <2>3 DEF Flow
<1>8. Known(d, Events!Committed)
  BY <1>3, <1>4, <1>6 DEF Known, Within, q
<1>9. conn = k => Sends(d, received, start, notices)
  <2> SUFFICES ASSUME conn = k PROVE Sends(d, received, start, notices)
    OBVIOUS
  <2>1. Sends(c, received, start, notices)
    BY ConnFacts DEF c
  <2>2. ASSUME NEW n \in start+1..Len(received), Passed(received[n], c, notices)
        PROVE  Passed(received[n], d, notices)
    BY <2>2, <1>3, <1>4 DEF Passed, Ahead, q
  <2> QED BY <2>1, <2>2, <1>4 DEF Sends
<1>10. conn' = conn /\ Len(d.queue) <= QueueSize
  BY <1>3, <1>4, <1>5, <1>6 DEF Events!LoopTake, Events!client
<1>11. ConnOK(d, notices, Events!Committed) /\ (d.alive => c.alive /\ conn' = conn)
  BY <1>4, <1>7, <1>8, <1>10 DEF ConnOK
<1> QED BY <1>1, <1>9, <1>10, <1>11, TurnKeeps DEF c, d

LEMMA ListEventsKeeps ==
  ASSUME OneOpen, StreamInv, NEW k \in Events!Conns, Events!ListEvents(k)
  PROVE  StreamInv'
<1> DEFINE c == conns[k]  d == conns'[k]
<1>1. PICK list \in SUBSET Events!Committed :
        /\ d = [c EXCEPT !.handler = IF list = {} THEN "live" ELSE "listing", !.list = list]
        /\ c \in Conn /\ Turn(k) /\ c.handler = "subscribed"
  <2> DEFINE l == IF Past \/ c.last > 0 THEN {i \in Events!Committed : i > c.last} ELSE {}
  <2>1. l \in SUBSET Events!Committed OBVIOUS
  <2>2. /\ d = [c EXCEPT !.handler = IF l = {} THEN "live" ELSE "listing", !.list = l]
        /\ c \in Conn /\ Turn(k) /\ c.handler = "subscribed"
    BY ConnFacts DEF StreamInv, StreamTyped, Events!ListEvents, Turn, Events!server, Events!client
  <2> QED BY <2>1, <2>2
<1>2. Events!Committed \subseteq Events!Ids /\ Events!Ids \subseteq Nat /\ 0 \notin Events!Ids
  BY StreamTypes
<1>3. /\ d \in Conn /\ d.queue = c.queue /\ d.held = c.held /\ d.hand = c.hand /\ d.list = list
      /\ d.last = c.last /\ d.curr = c.curr /\ d.alive = c.alive
      /\ d.handler \in {"live", "listing"}
  BY <1>1, <1>2 DEF Conn
<1> HIDE DEF c, d
<1>4. ConnOK(d, notices, Events!Committed)
  BY <1>1, <1>3, ConnFacts DEF ConnOK, Flow, Known, c
<1>5. conn = k => Sends(d, received, start, notices)
  <2> SUFFICES ASSUME conn = k PROVE Sends(d, received, start, notices)
    OBVIOUS
  <2>1. start = Len(received) /\ d.curr = 0
    BY <1>1, <1>3, ConnFacts DEF Sends, c
  <2>2. start+1..Len(received) = {}
    BY <2>1, StreamTypes
  <2>3. \A i \in d.list : d.curr < i
    BY <1>1, <1>2, <1>3, <2>1
  <2> QED BY <2>2, <2>3, <1>3 DEF Sends
<1>6. conn' = conn /\ (d.alive => c.alive)
  BY <1>3 DEF Events!ListEvents, Events!client
<1> QED BY <1>1, <1>4, <1>5, <1>6, TurnKeeps DEF c, d

LEMMA HandlerTakeKeeps ==
  ASSUME OneOpen, StreamInv, NEW k \in Events!Conns, Events!HandlerTake(k)
  PROVE  StreamInv'
<1> DEFINE c == conns[k]  d == conns'[k]
<1>1. /\ d = [c EXCEPT !.held = 0, !.hand = IF c.held <= c.curr THEN 0 ELSE c.held,
                !.handler = IF c.held <= c.curr THEN "live" ELSE "sending"]
      /\ c \in Conn /\ Turn(k) /\ c.handler = "live" /\ c.held # 0
  BY ConnFacts DEF StreamInv, StreamTyped, Events!HandlerTake, Turn, Events!server, Events!client
<1>2. Events!Ids \subseteq Nat /\ c.curr \in Nat /\ c.held \in Nat
  BY <1>1, StreamTypes DEF Conn
<1>3. /\ d \in Conn /\ d.queue = c.queue /\ d.held = 0 /\ d.list = c.list
      /\ d.last = c.last /\ d.curr = c.curr /\ d.alive = c.alive
      /\ c.held <= c.curr => d.hand = 0 /\ d.handler = "live"
      /\ ~(c.held <= c.curr) => d.hand = c.held /\ d.handler = "sending"
  BY <1>1 DEF Conn
<1> HIDE DEF c, d
<1>4. Flow(c, notices) /\ Known(c, Events!Committed) /\ Len(c.queue) <= QueueSize
  BY ConnFacts DEF c
<1>5. Flow(d, notices) /\ Known(d, Events!Committed)
  BY <1>1, <1>3, <1>4 DEF Flow, Known
<1>6. conn = k => Sends(d, received, start, notices)
  <2> SUFFICES ASSUME conn = k PROVE Sends(d, received, start, notices)
    OBVIOUS
  <2>1. Sends(c, received, start, notices)
    BY ConnFacts DEF c
  <2>2. ASSUME NEW n \in start+1..Len(received)
        PROVE  received[n] <= d.curr \/ Passed(received[n], d, notices)
    BY <2>1, <1>1, <1>3 DEF Sends, Passed
  <2>3. d.handler = "sending" => d.hand # 0 /\ d.curr < d.hand
    BY <1>1, <1>2, <1>3
  <2> QED BY <2>2, <2>3, <1>3 DEF Sends
<1>7. conn' = conn /\ (d.alive => c.alive) /\ ConnOK(d, notices, Events!Committed)
  BY <1>3, <1>4, <1>5 DEF Events!HandlerTake, Events!client, ConnOK
<1> QED BY <1>1, <1>6, <1>7, TurnKeeps DEF c, d

LEMMA HandlerReturnKeeps ==
  ASSUME OneOpen, StreamInv, NEW k \in Events!Conns, Events!HandlerReturn(k)
  PROVE  StreamInv'
<1> DEFINE c == conns[k]  d == conns'[k]
<1>1. d = [c EXCEPT !.handler = "done", !.alive = FALSE, !.sub = "closed"] /\ c \in Conn
  BY ConnFacts DEF StreamInv, StreamTyped, Events!HandlerReturn
<1>2. Turn(k) /\ (conn' = conn \/ conn = k) /\ conn' # k
  <2>1. 0 \notin Events!Conns BY StreamTypes
  <2> QED BY <2>1 DEF StreamInv, StreamTyped, Turn, Events!HandlerReturn, Events!server
<1>3. /\ d \in Conn /\ d.queue = c.queue /\ d.held = c.held /\ d.hand = c.hand /\ d.list = c.list
      /\ d.last = c.last /\ d.curr = c.curr /\ ~d.alive
  BY <1>1 DEF Conn
<1> HIDE DEF c, d
<1>4. ConnOK(d, notices, Events!Committed)
  BY <1>3, ConnFacts DEF ConnOK, Flow, Known, c
<1> QED BY <1>2, <1>3, <1>4, TurnKeeps DEF c, d

LEMMA DropKeeps == ASSUME OneOpen, StreamInv, Events!Drop PROVE StreamInv'
<1>1. conn \in Events!Conns /\ 0 \notin Events!Conns /\ MaxDrops \in Nat
  BY StreamTypes DEF Events!Drop, StreamInv, StreamTyped, OneOpen
<1>2. PICK k \in Events!Conns : k = conn
  BY <1>1
<1> DEFINE c == conns[k]  d == conns'[k]
<1>3. d = [c EXCEPT !.alive = FALSE] /\ c \in Conn
  BY <1>2, ConnFacts DEF StreamInv, StreamTyped, Events!Drop
<1>4. Turn(k) /\ conn' # k
  BY <1>1, <1>2 DEF StreamInv, StreamTyped, Turn, Events!Drop, Events!server
<1>5. /\ d \in Conn /\ d.queue = c.queue /\ d.held = c.held /\ d.hand = c.hand /\ d.list = c.list
      /\ d.last = c.last /\ d.curr = c.curr /\ ~d.alive
  BY <1>3 DEF Conn
<1> HIDE DEF c, d
<1>6. ConnOK(d, notices, Events!Committed)
  BY <1>5, ConnFacts DEF ConnOK, Flow, Known, c
<1> QED BY <1>2, <1>4, <1>5, <1>6, TurnKeeps DEF c, d

(* A step of connection k that sends the event x to the client. *)
Sent(k, x) ==
  /\ conns' = [conns EXCEPT ![k] = conns'[k]]
  /\ events' = events /\ notices' = notices /\ received' = Append(received, x)
  /\ before' = before /\ start' = start /\ conn' = conn /\ drops' = drops
  /\ listening' = listening /\ missed' = missed

LEMMA SentKeeps ==
  ASSUME OneOpen, StreamInv, NEW k \in Events!Conns, NEW x \in Events!Committed, Sent(k, x),
         conns[k].alive, ConnOK(conns'[k], notices, Events!Committed),
         \A n \in start+1..Len(received) : received[n] < x,
         Sends(conns'[k], received', start, notices)
  PROVE  StreamInv'
<1>1. /\ conns' \in [Events!Conns -> Conn] /\ conn = k
      /\ \A j \in Events!Conns \ {k} : conns'[j] = conns[j]
  BY DEF StreamInv, StreamTyped, ConnOK, Sent
<1>2. Events!Committed' = Events!Committed
  BY DEF Sent, Events!Committed
<1>3. /\ received' \in Seq(Events!Ids) /\ Len(received') = Len(received) + 1
      /\ received'[Len(received) + 1] = x
      /\ \A n \in 1..Len(received) : received'[n] = received[n]
  BY StreamTypes DEF StreamInv, StreamTyped, Sent
<1>4. StreamTyped'
  BY <1>1, <1>3, StreamTypes DEF StreamInv, StreamTyped, Sent
<1>5. OneByOne'
  BY DEF StreamInv, OneByOne, Sent
<1>6. Events!InOrder'
  BY <1>3, StreamTypes DEF StreamInv, Events!InOrder, Sent
<1>7. Within(received', Events!Committed')
  BY <1>2, <1>3, StreamTypes DEF StreamInv, Within
<1>8. \A j \in Events!Conns : /\ ConnOK(conns'[j], notices', Events!Committed')
                              /\ conns'[j].alive => conn' = j
  BY <1>1, <1>2 DEF StreamInv, Sent
<1>9. Sends(conns'[conn'], received', start', notices')
  BY <1>1 DEF Sent
<1>10. Ascends(notices') /\ Within(notices', Events!Committed') /\ before' \cup missed' \subseteq Events!Committed'
  BY <1>2 DEF StreamInv, Sent
<1> QED BY <1>4, <1>5, <1>6, <1>7, <1>8, <1>9, <1>10 DEF StreamInv

LEMMA SendListedKeeps ==
  ASSUME OneOpen, StreamInv, NEW k \in Events!Conns, Events!SendListed(k)
  PROVE  StreamInv'
<1> DEFINE c == conns[k]  d == conns'[k]
<1>1. PICK i \in c.list :
        /\ \A j \in c.list : i <= j
        /\ d = [c EXCEPT !.list = @ \ {i}, !.curr = i,
                  !.handler = IF c.list = {i} THEN "live" ELSE "listing"]
        /\ Sent(k, i) /\ c.handler = "listing" /\ c.alive
  BY ConnFacts DEF StreamInv, StreamTyped, Events!SendListed, Sent, Events!server
<1>2. c \in Conn /\ Flow(c, notices) /\ Known(c, Events!Committed) /\ Len(c.queue) <= QueueSize
  BY ConnFacts
<1>3. /\ Events!Ids \subseteq Nat /\ i \in Events!Ids /\ i \in Events!Committed
      /\ c.list \subseteq Nat /\ c.curr \in Nat
  BY <1>2, StreamTypes DEF Known, Conn
<1>4. /\ d \in Conn /\ d.queue = c.queue /\ d.held = c.held /\ d.hand = c.hand
      /\ d.list = c.list \ {i} /\ d.last = c.last /\ d.curr = i /\ d.alive = c.alive
      /\ d.handler \in {"live", "listing"}
  BY <1>1, <1>2, <1>3 DEF Conn
<1> HIDE DEF c, d
<1>5. ConnOK(d, notices, Events!Committed)
  BY <1>2, <1>3, <1>4 DEF ConnOK, Flow, Known
<1>6. Sends(c, received, start, notices)
  BY <1>1, ConnFacts DEF c
<1>7. /\ received \in Seq(Events!Ids) /\ start \in Nat /\ Len(received) \in Nat
      /\ \A n \in start+1..Len(received) : n \in 1..Len(received) /\ received[n] \in Nat
  <2>1. received \in Seq(Events!Ids) BY DEF StreamInv, StreamTyped
  <2>2. \A n \in 1..Len(received) : received[n] \in Events!Ids BY <2>1
  <2>3. start \in Nat /\ Len(received) \in Nat BY StreamTypes
  <2>4. \A n \in start+1..Len(received) : n \in 1..Len(received) BY <2>3
  <2>5. \A n \in start+1..Len(received) : received[n] \in Nat BY <1>3, <2>2, <2>4
  <2> QED BY <2>1, <2>3, <2>4, <2>5
<1>8. \A n \in start+1..Len(received) : received[n] < i
  BY <1>1, <1>3, <1>6, <1>7 DEF Sends
<1>9. Sends(d, received', start, notices)
  <2>1. \A n \in start+1..Len(received') : received'[n] <= d.curr
    BY <1>1, <1>3, <1>4, <1>7, <1>8 DEF Sent
  <2>2. \A j \in d.list : d.curr < j
    BY <1>1, <1>3, <1>4
  <2> QED BY <2>1, <2>2, <1>4 DEF Sends
<1> QED BY <1>1, <1>3, <1>5, <1>8, <1>9, SentKeeps DEF c, d

LEMMA HandlerSendKeeps ==
  ASSUME OneOpen, StreamInv, NEW k \in Events!Conns, Events!HandlerSend(k)
  PROVE  StreamInv'
<1> DEFINE c == conns[k]  d == conns'[k]
<1>1. /\ d = [c EXCEPT !.handler = "live", !.hand = 0]
      /\ Sent(k, c.hand) /\ c.handler = "sending" /\ c.alive
  BY ConnFacts DEF StreamInv, StreamTyped, Events!HandlerSend, Sent, Events!server
<1>2. /\ c \in Conn /\ Flow(c, notices) /\ Known(c, Events!Committed) /\ Len(c.queue) <= QueueSize
      /\ Sends(c, received, start, notices)
  BY <1>1, ConnFacts
<1>3. /\ c.hand # 0 /\ c.curr < c.hand
      /\ \A n \in start+1..Len(received) :
           received[n] <= c.curr \/ Passed(received[n], c, notices)
  BY <1>1, <1>2 DEF Sends
<1>4. /\ Events!Ids \subseteq Nat /\ c.hand \in Events!Committed /\ c.hand \in Nat /\ c.curr \in Nat
  BY <1>2, <1>3, StreamTypes DEF Known, Conn
<1>5. /\ d \in Conn /\ d.queue = c.queue /\ d.held = c.held /\ d.hand = 0 /\ d.list = c.list
      /\ d.last = c.last /\ d.curr = c.curr /\ d.alive = c.alive /\ d.handler = "live"
  <2> DEFINE e == [c EXCEPT !.handler = "live"]
  <2>1. /\ e \in Conn /\ e.queue = c.queue /\ e.held = c.held /\ e.list = c.list
        /\ e.last = c.last /\ e.curr = c.curr /\ e.alive = c.alive /\ e.handler = "live"
    BY <1>2 DEF Conn
  <2>2. d = [e EXCEPT !.hand = 0]
    BY <1>1, <1>2 DEF Conn
  <2> HIDE DEF c, d, e
  <2> QED BY <2>1, <2>2 DEF Conn
<1> HIDE DEF c, d
<1>6. ConnOK(d, notices, Events!Committed)
  BY <1>2, <1>5 DEF ConnOK, Flow, Known
<1>7. /\ received \in Seq(Events!Ids) /\ start \in Nat /\ Len(received) \in Nat
      /\ \A n \in start+1..Len(received) : n \in 1..Len(received) /\ received[n] \in Nat
  <2>1. received \in Seq(Events!Ids) BY DEF StreamInv, StreamTyped
  <2>2. \A n \in 1..Len(received) : received[n] \in Events!Ids BY <2>1
  <2>3. start \in Nat /\ Len(received) \in Nat BY StreamTypes
  <2>4. \A n \in start+1..Len(received) : n \in 1..Len(received) BY <2>3
  <2>5. \A n \in start+1..Len(received) : received[n] \in Nat BY <1>4, <2>2, <2>4
  <2> QED BY <2>1, <2>3, <2>4, <2>5
<1>8. \A n \in start+1..Len(received) : received[n] < c.hand
  BY <1>3, <1>4, <1>7 DEF Passed
<1>9. Sends(d, received', start, notices)
  <2>1. \A n \in start+1..Len(received) : received[n] <= d.curr \/ Passed(received[n], d, notices)
    BY <1>3, <1>5 DEF Passed
  <2>2. Passed(c.hand, d, notices)
    BY <1>2, <1>3, <1>5 DEF Flow, Passed
  <2>3. \A n \in start+1..Len(received') : received'[n] <= d.curr \/ Passed(received'[n], d, notices)
    BY <2>1, <2>2, <1>1, <1>4, <1>7 DEF Sent
  <2> QED BY <2>3, <1>5 DEF Sends
<1> QED BY <1>1, <1>4, <1>6, <1>8, <1>9, SentKeeps DEF c, d

LEMMA ConnectKeeps ==
  ASSUME OneOpen, StreamInv, NEW k \in Events!Conns, Events!Connect(k)
  PROVE  StreamInv'
<1> DEFINE d == conns'[k]  l == Events!lastID
<1>1. /\ d = [Events!NoConn EXCEPT !.handler = "subscribed", !.alive = TRUE,
                !.sub = "open", !.loop = "running", !.last = l]
      /\ conns' = [conns EXCEPT ![k] = d]
  BY DEF StreamInv, StreamTyped, Events!Connect
<1>2. /\ conn = 0 /\ conn' = k /\ start' = Len(received)
      /\ before' \in {before, Events!Committed} /\ received' = received /\ drops' = drops
      /\ events' = events /\ notices' = notices /\ listening' = TRUE /\ missed' = missed
  BY DEF Events!Connect
<1>3. l \in {0} \cup Events!Committed /\ Events!Committed \subseteq Events!Ids
  <2>1. received \in Seq(Events!Ids) /\ Within(received, Events!Committed)
    BY DEF StreamInv, StreamTyped
  <2>2. received # <<>> => Len(received) \in 1..Len(received) /\ Events!Last(received) = received[Len(received)]
    BY <2>1 DEF Events!Last
  <2> QED BY <2>1, <2>2, StreamTypes DEF Events!lastID, Within
<1> HIDE DEF l
<1>4. /\ d \in Conn /\ d.queue = <<>> /\ d.held = 0 /\ d.hand = 0 /\ d.last = l /\ d.curr = 0
      /\ d.list = {} /\ d.handler = "subscribed"
  <2>1. d = [handler |-> "subscribed", alive |-> TRUE, sub |-> "open", loop |-> "running",
             queue |-> <<>>, held |-> 0, last |-> l, list |-> {}, curr |-> 0, hand |-> 0]
    BY <1>1 DEF Events!NoConn
  <2>2. l \in {0} \cup Events!Ids /\ <<>> \in Seq(Events!Ids)
    BY <1>3
  <2> HIDE DEF d
  <2> QED BY <2>1, <2>2 DEF Conn
<1> HIDE DEF d
<1>5. Events!Committed' = Events!Committed
  BY <1>2 DEF Events!Committed
<1>6. Len(<<>>) = 0 /\ 0 <= QueueSize
  BY DEF OneOpen
<1>7. ConnOK(d, notices, Events!Committed)
  BY <1>3, <1>4, <1>6 DEF ConnOK, Flow, Known, Ascends, Ahead, Within
<1>8. \A j \in Events!Conns : /\ ConnOK(conns'[j], notices', Events!Committed')
                              /\ conns'[j].alive => conn' = j
  <2>1. 0 \notin Events!Conns BY StreamTypes
  <2>2. \A j \in Events!Conns \ {k} : conns'[j] = conns[j]
    BY <1>1 DEF StreamInv, StreamTyped
  <2> QED BY <2>1, <2>2, <1>2, <1>5, <1>7 DEF StreamInv, d
<1>9. StreamTyped'
  BY <1>1, <1>2, <1>3, <1>4, StreamTypes DEF StreamInv, StreamTyped
<1>10. OneByOne' /\ Events!InOrder'
  BY <1>2, StreamTypes DEF StreamInv, OneByOne, Events!InOrder
<1>11. Sends(conns'[conn'], received', start', notices')
  BY <1>2, <1>4 DEF Sends, d
<1>12. /\ Ascends(notices') /\ Within(notices', Events!Committed')
       /\ Within(received', Events!Committed') /\ before' \cup missed' \subseteq Events!Committed'
  BY <1>2, <1>5 DEF StreamInv
<1> QED BY <1>8, <1>9, <1>10, <1>11, <1>12 DEF StreamInv

-----------------------------------------------------------------------------
(* The database. *)

LEMMA InsertKeeps == ASSUME OneOpen, StreamInv, Events!Insert PROVE StreamInv'
<1>1. \A i \in Events!Ids : events[i] # "open"
  <2> DEFINE O == {i \in Events!Ids : events[i] = "open"}
  <2>1. IsFiniteSet(Events!Ids)
    BY FS_Interval DEF OneOpen, Events!Ids
  <2>2. IsFiniteSet(O)
    BY <2>1, FS_Subset
  <2>3. Cardinality(O) < 1
    <3>1. Events!Cardinality(O) = Cardinality(O)
      BY DEF Events!Cardinality, Cardinality
    <3> QED BY <3>1 DEF Events!Insert, OneOpen
  <2>4. O = {}
    BY <2>2, <2>3, FS_EmptySet, FS_CardinalityType
  <2> QED BY <2>4
<1>2. PICK i \in Events!Ids : /\ events[i] = "none" /\ \A j \in 1..(i - 1) : events[j] # "none"
                              /\ events' = [events EXCEPT ![i] = "open"]
  BY DEF Events!Insert
<1>3. notices' = notices /\ conns' = conns /\ conn' = conn /\ received' = received
      /\ start' = start /\ before' = before /\ drops' = drops
      /\ listening' = listening /\ missed' = missed
  BY DEF Events!Insert, Events!client
<1>4. /\ events' \in [Events!Ids -> {"none", "open", "committed"}]
      /\ Events!Committed' = Events!Committed
  BY <1>2 DEF StreamInv, StreamTyped, Events!Committed
<1>5. OneByOne'
  <2> SUFFICES ASSUME NEW a \in Events!Ids, NEW b \in Events!Ids, a < b, events'[b] # "none"
               PROVE  events'[a] = "committed"
    BY DEF OneByOne
  <2>1. events \in [Events!Ids -> {"none", "open", "committed"}] /\ Events!Ids = 1..MaxEvents /\ MaxEvents \in Nat
    BY DEF StreamInv, StreamTyped, Events!Ids, OneOpen
  <2>2. CASE b = i
    <3>1. events[a] # "none" /\ events[a] # "open" BY <1>1, <1>2, <2>1, <2>2
    <3> QED BY <1>2, <2>1, <2>2, <3>1
  <2>3. CASE b # i
    <3>1. events[b] # "none" BY <1>2, <2>1, <2>3
    <3>2. events[a] = "committed" BY <3>1 DEF StreamInv, OneByOne
    <3> QED BY <1>2, <2>1, <3>2
  <2> QED BY <2>2, <2>3
<1>6. StreamTyped'
  BY <1>3, <1>4 DEF StreamInv, StreamTyped
<1> QED BY <1>3, <1>4, <1>5, <1>6 DEF StreamInv, Events!InOrder

LEMMA CommitKeeps ==
  ASSUME OneOpen, StreamInv, NEW i \in Events!Ids, Events!Commit(i)
  PROVE  StreamInv'
<1> DEFINE S == Events!Committed
<1>1. events \in [Events!Ids -> {"none", "open", "committed"}]
  BY DEF StreamInv, StreamTyped
<1>2. /\ events[i] = "open" /\ events' = [events EXCEPT ![i] = "committed"]
      /\ notices' = IF listening THEN Append(notices, i) ELSE notices
      /\ listening' = listening /\ missed' = missed
      /\ conns' = conns /\ conn' = conn /\ received' = received
      /\ start' = start /\ before' = before /\ drops' = drops
  BY DEF Events!Commit, Events!client
<1>3. /\ events' \in [Events!Ids -> {"none", "open", "committed"}]
      /\ Events!Committed' = S \cup {i}
  BY <1>1, <1>2 DEF Events!Committed
<1>4. Events!Ids \subseteq Nat /\ 0 \notin Events!Ids /\ S \subseteq Events!Ids
  BY StreamTypes
<1>5. \A x \in S : x < i
  <2> SUFFICES ASSUME NEW x \in S PROVE x < i
    OBVIOUS
  <2>1. x \in Events!Ids /\ events[x] = "committed" BY DEF Events!Committed
  <2>2. ~(i < x) BY <2>1, <1>2 DEF StreamInv, OneByOne
  <2> QED BY <2>1, <2>2, <1>2, <1>4
<1>6. OneByOne'
  BY <1>1, <1>2 DEF StreamInv, OneByOne
<1>7. notices \in Seq(Events!Ids) /\ Within(notices, S) /\ Ascends(notices)
  BY DEF StreamInv, StreamTyped
<1>8. /\ notices' \in Seq(Events!Ids) /\ Len(notices) \in Nat
      /\ \/ Len(notices') = Len(notices) + 1 /\ notices'[Len(notices) + 1] = i
         \/ Len(notices') = Len(notices)
      /\ \A p \in 1..Len(notices) : notices'[p] = notices[p]
  BY <1>2, <1>7
<1> HIDE DEF S
<1>9. Ascends(notices') /\ Within(notices', S \cup {i})
  <2>1. Within(notices', S \cup {i})
    BY <1>7, <1>8 DEF Within
  <2>2. \A p \in 1..Len(notices) : notices[p] < i
    BY <1>5, <1>7 DEF Within
  <2>3. \A p, q \in 1..Len(notices) : p < q => notices'[p] < notices'[q]
    BY <1>7, <1>8 DEF Ascends
  <2>4. \A p \in 1..Len(notices') : p \in 1..Len(notices) \/ p = Len(notices) + 1
    BY <1>8
  <2>5. ASSUME NEW p \in 1..Len(notices'), NEW q \in 1..Len(notices'), p < q
        PROVE  notices'[p] < notices'[q]
    <3>1. p \in 1..Len(notices) BY <2>5, <1>8
    <3> QED BY <2>5, <3>1, <2>2, <2>3, <2>4, <1>8
  <2> QED BY <2>1, <2>5 DEF Ascends
<1>10. \A x \in S : Ahead(x, notices) => Ahead(x, notices')
  BY <1>5, <1>8 DEF Ahead
<1>11. StreamTyped'
  BY <1>2, <1>3, <1>8 DEF StreamInv, StreamTyped
<1>12. \A k \in Events!Conns : /\ ConnOK(conns'[k], notices', S \cup {i})
                               /\ conns'[k].alive => conn' = k
  <2> SUFFICES ASSUME NEW k \in Events!Conns PROVE ConnOK(conns[k], notices', S \cup {i})
    BY <1>2 DEF StreamInv
  <2> DEFINE c == conns[k]
  <2>1. c \in Conn /\ Flow(c, notices) /\ Known(c, S) /\ Len(c.queue) <= QueueSize
    BY ConnFacts DEF S
  <2> HIDE DEF c
  <2>2. Known(c, S \cup {i})
    BY <2>1 DEF Known, Within
  <2>3. Flow(c, notices')
    BY <2>1, <1>10 DEF Flow, Known, Within
  <2> QED BY <2>1, <2>2, <2>3 DEF ConnOK, c
<1>13. conn' # 0 => Sends(conns'[conn'], received', start', notices')
  <2> SUFFICES ASSUME conn # 0 PROVE Sends(conns[conn], received, start, notices')
    BY <1>2
  <2> DEFINE c == conns[conn]
  <2>1. Sends(c, received, start, notices)
    BY DEF StreamInv
  <2>2. start \in Nat /\ Len(received) \in Nat /\ Within(received, S)
    BY StreamTypes DEF StreamInv, S
  <2> HIDE DEF c
  <2>3. ASSUME NEW n \in start+1..Len(received), Passed(received[n], c, notices)
        PROVE  Passed(received[n], c, notices')
    <3>1. received[n] \in S BY <2>2 DEF Within
    <3> QED BY <3>1, <2>3, <1>10 DEF Passed
  <2> QED BY <2>1, <2>3 DEF Sends, c
<1>14. Within(received', S \cup {i}) /\ before' \cup missed' \subseteq S \cup {i}
  BY <1>2 DEF StreamInv, Within, S
<1>15. Events!InOrder'
  BY <1>2 DEF StreamInv, Events!InOrder
<1> QED BY <1>3, <1>6, <1>9, <1>11, <1>12, <1>13, <1>14, <1>15 DEF StreamInv, S

(* A subscriber is notified of the first notice. *)
LEMMA QueuedOK ==
  ASSUME OneOpen, NEW ns \in Seq(Events!Ids), ns # <<>>, Ascends(ns), NEW S, Within(ns, S),
         NEW c, ConnOK(c, ns, S), Events!Ids \subseteq Nat
  PROVE  LET d == Events!Queued(c, Head(ns)) IN
         /\ ConnOK(d, Tail(ns), S) /\ d.alive = c.alive
         /\ \A r \in Seq(Events!Ids), b \in Nat :
              Sends(c, r, b, ns) => Sends(d, r, b, Tail(ns))
<1> DEFINE d == Events!Queued(c, Head(ns))  q == c.queue
<1>1. /\ Len(ns) \in Nat /\ Len(ns) >= 1 /\ Head(ns) = ns[1] /\ ns[1] \in Events!Ids /\ ns[1] \in S
      /\ Tail(ns) \in Seq(Events!Ids) /\ Len(Tail(ns)) = Len(ns) - 1
      /\ \A p \in 1..Len(Tail(ns)) : p + 1 \in 1..Len(ns) /\ Tail(ns)[p] = ns[p + 1]
  BY DEF Within
<1>2. c \in Conn /\ Flow(c, ns) /\ Known(c, S) /\ Len(q) <= QueueSize
  BY DEF ConnOK
<1>3. \A x : Ahead(x, ns) => Ahead(x, Tail(ns)) /\ x < ns[1]
  BY <1>1 DEF Ahead
<1>4. Ahead(ns[1], Tail(ns))
  <2> SUFFICES ASSUME NEW p \in 1..Len(Tail(ns)) PROVE ns[1] < Tail(ns)[p]
    BY DEF Ahead
  <2>1. p \in Nat /\ p >= 1 /\ p + 1 \in 1..Len(ns) /\ 1 \in 1..Len(ns) /\ Tail(ns)[p] = ns[p + 1]
    BY <1>1
  <2> QED BY <2>1 DEF Ascends
<1>5. q \in Seq(Events!Ids) /\ Len(q) \in Nat /\ QueueSize \in Nat
  BY <1>2 DEF Conn, OneOpen
<1>6. \/ d.queue = q
      \/ d.queue = Append(q, ns[1]) /\ Len(q) < QueueSize
  BY <1>1, <1>2 DEF Events!Queued, Conn
<1>7. /\ d \in Conn /\ d.held = c.held /\ d.hand = c.hand /\ d.list = c.list /\ d.last = c.last
      /\ d.curr = c.curr /\ d.handler = c.handler /\ d.alive = c.alive
  <2>1. Append(q, Head(ns)) \in Seq(Events!Ids)
    BY <1>1, <1>5
  <2> QED BY <1>1, <1>2, <2>1 DEF Events!Queued, Conn
<1> HIDE DEF d, q
<1>8. /\ d.queue \in Seq(Events!Ids) /\ Len(d.queue) \in Nat /\ Len(d.queue) <= QueueSize
      /\ \A p \in 1..Len(d.queue) :
           \/ p \in 1..Len(q) /\ d.queue[p] = q[p]
           \/ p = Len(q) + 1 /\ d.queue[p] = ns[1]
  <2>1. CASE d.queue = q
    BY <2>1, <1>5, <1>2 DEF q
  <2>2. CASE d.queue = Append(q, ns[1]) /\ Len(q) < QueueSize
    BY <2>2, <1>1, <1>5
  <2> QED BY <2>1, <2>2, <1>6
<1>9. \A x : Ahead(x, q) /\ Ahead(x, ns) => Ahead(x, d.queue) /\ Ahead(x, Tail(ns))
  BY <1>3, <1>8 DEF Ahead
<1>10. Flow(d, Tail(ns))
  <2>1. \A p \in 1..Len(q) : q[p] < ns[1] /\ Ahead(q[p], Tail(ns))
    BY <1>2, <1>3 DEF Flow, q
  <2>2. ASSUME NEW p \in 1..Len(d.queue), NEW r \in 1..Len(d.queue), p < r
        PROVE  d.queue[p] < d.queue[r]
    <3>1. p \in 1..Len(q) /\ d.queue[p] = q[p]
      BY <2>2, <1>5, <1>8
    <3>2. CASE r \in 1..Len(q) /\ d.queue[r] = q[r]
      BY <2>2, <3>1, <3>2, <1>2 DEF Flow, Ascends, q
    <3>3. CASE r = Len(q) + 1 /\ d.queue[r] = ns[1]
      BY <3>1, <3>3, <2>1
    <3> QED BY <3>2, <3>3, <1>8
  <2>3. \A p \in 1..Len(d.queue) : Ahead(d.queue[p], Tail(ns))
    BY <1>4, <1>8, <2>1
  <2>4. d.held # 0 => Ahead(d.held, d.queue) /\ Ahead(d.held, Tail(ns))
    BY <1>2, <1>7, <1>9 DEF Flow, q
  <2>5. d.hand # 0 => /\ d.held # 0 => d.hand < d.held
                      /\ Ahead(d.hand, d.queue) /\ Ahead(d.hand, Tail(ns))
    BY <1>2, <1>7, <1>9 DEF Flow, q
  <2>6. Ascends(d.queue)
    BY <2>2 DEF Ascends
  <2> QED BY <2>3, <2>4, <2>5, <2>6 DEF Flow
<1>11. Known(d, S)
  BY <1>1, <1>2, <1>7, <1>8 DEF Known, Within, q
<1>12. ASSUME NEW r \in Seq(Events!Ids), NEW b \in Nat, Sends(c, r, b, ns)
       PROVE  Sends(d, r, b, Tail(ns))
  <2>1. ASSUME NEW n \in b+1..Len(r), Passed(r[n], c, ns)
        PROVE  Passed(r[n], d, Tail(ns))
    BY <2>1, <1>7, <1>9 DEF Passed, q
  <2> QED BY <2>1, <1>7, <1>12 DEF Sends
<1>13. ConnOK(d, Tail(ns), S)
  BY <1>7, <1>8, <1>10, <1>11 DEF ConnOK
<1> QED BY <1>7, <1>12, <1>13 DEF d

LEMMA ListenKeeps == ASSUME OneOpen, StreamInv, Events!Listen PROVE StreamInv'
<1> DEFINE S == Events!Committed  d(k) == Events!Queued(conns[k], Head(notices))
<1>1. /\ notices # <<>> /\ notices' = Tail(notices) /\ conns' = [k \in Events!Conns |-> d(k)]
      /\ events' = events /\ conn' = conn /\ received' = received
      /\ start' = start /\ before' = before /\ drops' = drops
      /\ listening' = listening /\ missed' = missed
  BY DEF Events!Listen, Events!client
<1>2. /\ notices \in Seq(Events!Ids) /\ Ascends(notices) /\ Within(notices, S)
      /\ Events!Ids \subseteq Nat /\ received \in Seq(Events!Ids) /\ start \in Nat
      /\ conn \in {0} \cup Events!Conns
  BY StreamTypes DEF StreamInv, StreamTyped
<1>3. /\ Tail(notices) \in Seq(Events!Ids) /\ Len(notices) \in Nat /\ Len(notices) >= 1
      /\ Len(Tail(notices)) = Len(notices) - 1
      /\ \A p \in 1..Len(Tail(notices)) : p + 1 \in 1..Len(notices) /\ Tail(notices)[p] = notices[p + 1]
  BY <1>1, <1>2
<1>4. Ascends(notices') /\ Within(notices', S)
  BY <1>1, <1>2, <1>3 DEF Ascends, Within
<1>5. Events!Committed' = S
  BY <1>1 DEF Events!Committed
<1> HIDE DEF S, d
<1>6. ASSUME NEW k \in Events!Conns
      PROVE  /\ ConnOK(d(k), Tail(notices), S) /\ d(k).alive = conns[k].alive
             /\ Sends(conns[k], received, start, notices) =>
                  Sends(d(k), received, start, Tail(notices))
  <2>1. ConnOK(conns[k], notices, S) BY DEF StreamInv, S
  <2> QED BY <2>1, <1>1, <1>2, QueuedOK DEF d
<1>7. StreamTyped'
  <2>1. \A k \in Events!Conns : d(k) \in Conn
    BY <1>6 DEF ConnOK
  <2> QED BY <2>1, <1>1, <1>3 DEF StreamInv, StreamTyped
<1>8. \A k \in Events!Conns : /\ ConnOK(conns'[k], notices', S)
                              /\ conns'[k].alive => conn' = k
  BY <1>1, <1>6 DEF StreamInv
<1>9. conn' # 0 => Sends(conns'[conn'], received', start', notices')
  BY <1>1, <1>2, <1>6 DEF StreamInv
<1>10. OneByOne' /\ Events!InOrder'
  BY <1>1 DEF StreamInv, OneByOne, Events!InOrder
<1>11. Within(received', S) /\ before' \cup missed' \subseteq S
  BY <1>1 DEF StreamInv, S
<1> QED BY <1>4, <1>5, <1>7, <1>8, <1>9, <1>10, <1>11 DEF StreamInv

(* A notice is gone, and nobody has the event. *)
LEMMA FlowTail ==
  ASSUME NEW ns \in Seq(Events!Ids), ns # <<>>, NEW c, Flow(c, ns)
  PROVE  /\ Flow(c, Tail(ns)) /\ \A x : Ahead(x, ns) => Ahead(x, Tail(ns))
         /\ \A r, b : Sends(c, r, b, ns) => Sends(c, r, b, Tail(ns))
<1>1. \A p \in 1..Len(Tail(ns)) : p + 1 \in 1..Len(ns) /\ Tail(ns)[p] = ns[p + 1]
  OBVIOUS
<1>2. \A x : Ahead(x, ns) => Ahead(x, Tail(ns))
  BY <1>1 DEF Ahead
<1>3. Flow(c, Tail(ns))
  BY <1>2 DEF Flow
<1> QED BY <1>2, <1>3 DEF Sends, Passed

LEMMA GetEventFailsKeeps == ASSUME OneOpen, StreamInv, Events!GetEventFails PROVE StreamInv'
<1> DEFINE S == Events!Committed
<1>1. /\ notices # <<>> /\ notices' = Tail(notices) /\ missed' = missed \cup {Head(notices)}
      /\ conns' = conns /\ events' = events /\ conn' = conn /\ received' = received
      /\ start' = start /\ before' = before /\ drops' = drops /\ listening' = listening
  BY DEF Events!GetEventFails, Events!client
<1>2. notices \in Seq(Events!Ids) /\ Ascends(notices) /\ Within(notices, S) /\ S \subseteq Events!Ids
  BY StreamTypes DEF StreamInv, StreamTyped
<1>3. /\ Tail(notices) \in Seq(Events!Ids) /\ Len(notices) \in Nat /\ Len(notices) >= 1
      /\ Len(Tail(notices)) = Len(notices) - 1 /\ Head(notices) = notices[1]
      /\ \A p \in 1..Len(Tail(notices)) : p + 1 \in 1..Len(notices) /\ Tail(notices)[p] = notices[p + 1]
  BY <1>1, <1>2
<1>4. Ascends(notices') /\ Within(notices', S) /\ Head(notices) \in S
  BY <1>1, <1>2, <1>3 DEF Ascends, Within
<1>5. Events!Committed' = S
  BY <1>1 DEF Events!Committed
<1>6. ASSUME NEW k \in Events!Conns
      PROVE  /\ ConnOK(conns[k], Tail(notices), S)
             /\ Sends(conns[k], received, start, notices) =>
                  Sends(conns[k], received, start, Tail(notices))
  <2>1. ConnOK(conns[k], notices, S) BY DEF StreamInv
  <2> QED BY <2>1, <1>1, <1>2, FlowTail DEF ConnOK
<1> HIDE DEF S
<1>7. StreamTyped'
  BY <1>1, <1>2, <1>3, <1>4 DEF StreamInv, StreamTyped
<1>8. /\ \A k \in Events!Conns : ConnOK(conns'[k], notices', S) /\ (conns'[k].alive => conn' = k)
      /\ conn' # 0 => Sends(conns'[conn'], received', start', notices')
  BY <1>1, <1>6 DEF StreamInv, StreamTyped
<1>9. OneByOne' /\ Events!InOrder' /\ Within(received', S) /\ before' \cup missed' \subseteq S
  BY <1>1, <1>4 DEF StreamInv, OneByOne, Events!InOrder, S
<1> QED BY <1>4, <1>5, <1>7, <1>8, <1>9 DEF StreamInv

(* The listener is closed, and its notices are gone. *)
LEMMA ListenerClosesKeeps == ASSUME OneOpen, StreamInv, Events!ListenerCloses PROVE StreamInv'
<1> DEFINE S == Events!Committed
<1>1. /\ notices' = <<>> /\ missed' = missed /\ events' = events /\ conn' = conn
      /\ received' = received /\ start' = start /\ before' = before /\ listening' = FALSE
      /\ drops' \in 0..MaxDrops
  BY DEF Events!ListenerCloses, StreamInv, StreamTyped, OneOpen
<1>2. Events!Committed' = S
  BY <1>1 DEF Events!Committed
<1>3. Len(<<>>) = 0 /\ <<>> \in Seq(Events!Ids)
  OBVIOUS
<1>4. Ascends(notices') /\ Within(notices', S) /\ \A x : Ahead(x, notices')
  BY <1>1, <1>3 DEF Ascends, Within, Ahead
<1>5. ASSUME NEW k \in Events!Conns
      PROVE  /\ conns'[k] \in Conn /\ ConnOK(conns'[k], notices', S)
             /\ conns'[k].alive = conns[k].alive
             /\ Sends(conns[k], received, start, notices) =>
                  Sends(conns'[k], received, start, notices')
  <2> DEFINE c == conns[k]  d == conns'[k]
  <2>1. c \in Conn /\ Flow(c, notices) /\ Known(c, S) /\ Len(c.queue) <= QueueSize
    BY ConnFacts
  <2>2. d = c \/ d = [c EXCEPT !.sub = "left"]
    BY DEF Events!ListenerCloses
  <2>3. /\ d \in Conn /\ d.queue = c.queue /\ d.held = c.held /\ d.hand = c.hand /\ d.list = c.list
        /\ d.last = c.last /\ d.curr = c.curr /\ d.handler = c.handler /\ d.alive = c.alive
    BY <2>1, <2>2 DEF Conn
  <2> HIDE DEF c, d
  <2>4. Flow(d, notices') /\ Known(d, S)
    BY <1>4, <2>1, <2>3 DEF Flow, Known
  <2>5. Sends(c, received, start, notices) => Sends(d, received, start, notices')
    BY <1>4, <2>3 DEF Sends, Passed
  <2> QED BY <2>1, <2>3, <2>4, <2>5 DEF ConnOK, c, d
<1> HIDE DEF S
<1>6. StreamTyped'
  <2>1. conns' \in [Events!Conns -> Conn]
    BY <1>5 DEF Events!ListenerCloses
  <2> QED BY <1>1, <1>3, <2>1 DEF StreamInv, StreamTyped
<1>7. /\ \A k \in Events!Conns : ConnOK(conns'[k], notices', S) /\ (conns'[k].alive => conn' = k)
      /\ conn' # 0 => Sends(conns'[conn'], received', start', notices')
  BY <1>1, <1>5 DEF StreamInv, StreamTyped
<1>8. OneByOne' /\ Events!InOrder' /\ Within(received', S) /\ before' \cup missed' \subseteq S
  BY <1>1 DEF StreamInv, OneByOne, Events!InOrder, S
<1> QED BY <1>2, <1>4, <1>6, <1>7, <1>8 DEF StreamInv

-----------------------------------------------------------------------------
LEMMA StreamNext == ASSUME OneOpen, StreamInv, [Events!Next]_(Events!vars) PROVE StreamInv'
<1>1. CASE Events!Insert BY <1>1, InsertKeeps
<1>2. CASE Events!Listen BY <1>2, ListenKeeps
<1>3. CASE Events!Drop BY <1>3, DropKeeps
<1>4. CASE \E i \in Events!Ids : Events!Commit(i) BY <1>4, CommitKeeps
<1>5. ASSUME NEW k \in Events!Conns, Events!Step(k) PROVE StreamInv'
  BY <1>5, CloseWithErrorKeeps, LoopTakeKeeps, LoopStopKeeps, ConnectKeeps, ListEventsKeeps,
     SendListedKeeps, HandlerTakeKeeps, HandlerSendKeeps, HandlerReturnKeeps DEF Events!Step
<1>6. CASE Events!GetEventFails BY <1>6, GetEventFailsKeeps
<1>7. CASE Events!ListenerCloses BY <1>7, ListenerClosesKeeps
<1>8. CASE UNCHANGED Events!vars
  <2>1. /\ events' = events /\ notices' = notices /\ conns' = conns /\ conn' = conn
        /\ received' = received /\ start' = start /\ before' = before /\ drops' = drops
        /\ listening' = listening /\ missed' = missed
    BY <1>8 DEF Events!vars, Events!server, Events!client
  <2>2. Events!Committed' = Events!Committed
    BY <2>1 DEF Events!Committed
  <2> QED BY <2>1, <2>2 DEF StreamInv, StreamTyped, OneByOne, Events!InOrder
<1> QED BY <1>1, <1>2, <1>3, <1>4, <1>5, <1>6, <1>7, <1>8 DEF Events!Next

LEMMA StreamTypeOK == ASSUME OneOpen, StreamInv PROVE Events!TypeOK
<1>1. ASSUME NEW s \in Seq(Events!Ids), Within(s, Events!Committed)
      PROVE  Events!ToSet(s) \subseteq Events!Committed
  BY <1>1 DEF Events!ToSet, Within
<1>2. \A k \in Events!Conns : LET c == conns[k] IN
       /\ c.handler \in {"none", "subscribed", "listing", "live", "sending", "done"}
       /\ c.alive \in BOOLEAN
       /\ c.sub \in {"none", "open", "closing", "left", "closed"} /\ c.loop \in {"none", "running", "done"}
       /\ Events!ToSet(c.queue) \cup c.list \subseteq Events!Committed /\ Len(c.queue) <= QueueSize
       /\ {c.held, c.last, c.curr, c.hand} \subseteq {0} \cup Events!Committed
  BY <1>1, ConnFacts DEF Known, Conn
<1>3. Events!ToSet(notices) \cup Events!ToSet(received) \cup before \cup missed \subseteq Events!Committed
  BY <1>1 DEF StreamInv, StreamTyped
<1> QED BY <1>2, <1>3 DEF Events!TypeOK, StreamInv, StreamTyped

(* The events a client receives over a connection ascend, each once,       *)
(* although streamEvents lists events that are also notified: any number   *)
(* of events and connections, any capacity of a subscriber's queue, full   *)
(* queues, broken connections, a listener that is closed and started again *)
(* and events it cannot read, while transactions do not overlap.           *)
THEOREM EventsInOrder == ASSUME OneOpen PROVE Events!Spec => []InOrder
<1>1. Events!Init => StreamInv
  BY StreamInit
<1>2. StreamInv /\ [Events!Next]_(Events!vars) => StreamInv'
  BY StreamNext
<1>3. StreamInv => InOrder
  BY StreamTypeOK DEF InOrder, StreamInv
<1> QED BY <1>1, <1>2, <1>3, PTL DEF Events!Spec

-----------------------------------------------------------------------------
(* SchedulerJobs. *)
JobState == {"none", "pending", "blocked", "starting", "running", "stopping", "stopped"}
JobRecord == [state : JobState, host : Hosts \cup {NoHost}, starter : {"none", "placing", "adding"}]
JobStatus == {"none", "starting", "running", "done"}
Fresh == [state |-> "pending", host |-> NoHost, starter |-> "placing"]
Kinds == {"scales", "exits", "errors", "left", "lost", "late", "leaders", "tags", "downs"}

JobsTyped ==
  /\ jFormation \in Sizes /\ jIsLeader \in BOOLEAN /\ jPromoting \in BOOLEAN /\ jRectify \in BOOLEAN
  /\ jJobs \in [SJobs!Ids -> JobRecord]
  /\ jFollowed \subseteq Hosts /\ jTags \subseteq Hosts /\ jReachable \subseteq Hosts
  /\ jStopping \subseteq SJobs!Ids \X Hosts
  /\ jContainers \in [Hosts -> [SJobs!Ids -> JobStatus]]
  /\ jEvents \subseteq SJobs!Event /\ jCounts \in [Kinds -> Nat]

(* What is known of a job, its containers C and the events E on their way. *)
(* A goroutine that is about to add a job to a host that has never had it  *)
(* adds one that is wanted or being stopped there.                         *)
Adding(j, job, C) ==
  job.starter = "adding" =>
    job.host \in Hosts /\ (C[job.host][j] = "none" => job.state \in {"pending", "stopping"})

(* An event is about a container that exists, or existed and is done. *)
Reported(j, C, E) ==
  \A e \in E : e.job = j =>
    /\ C[e.host][j] # "none"
    /\ e.status = "done" => C[e.host][j] = "done"

(* A container is where the scheduler believes it, and it is wanted or     *)
(* being stopped there, or an event will tell; before the first event the  *)
(* job is pending and may still be placed elsewhere.                       *)
Tracked(j, job, C, E) ==
  \A h \in Hosts : SJobs!Active(C[h][j]) =>
    /\ (\E e \in E : e.job = j /\ e.host = h) \/ (job.host = h /\ job.state # "pending")
    /\ job.host = h => job.state \in {"pending", "starting", "running", "stopping"}

JobOK(j, job, C, E) ==
  /\ Adding(j, job, C) /\ Reported(j, C, E) /\ Tracked(j, job, C, E)
  /\ job.state \in {"none", "blocked"} => job.host = NoHost

JobsInv ==
  SJobs!Undisturbed =>
    /\ jFollowed = Hosts /\ jReachable = Hosts
    /\ \A j \in SJobs!Ids : JobOK(j, jJobs[j], jContainers, jEvents)

LEMMA JobsTypes == ASSUME JobsTyped PROVE SJobs!TypeOK
BY DEF JobsTyped, SJobs!TypeOK, JobRecord, JobState, JobStatus

LEMMA JobKinds == DOMAIN SJobs!Bounds = Kinds
BY DEF SJobs!Bounds, Kinds

LEMMA JobsInit == ASSUME SJobs!Init PROVE JobsTyped /\ JobsInv
<1>1. JobsTyped
  <2>1. SJobs!NoJob \in JobRecord
    BY DEF SJobs!NoJob, JobRecord, JobState
  <2> QED BY <2>1, JobKinds DEF SJobs!Init, JobsTyped, JobStatus, SJobs!Event
<1>2. JobsInv
  BY DEF SJobs!Init, JobsInv, JobOK, Adding, Reported, Tracked, SJobs!Active, SJobs!NoJob
<1> QED BY <1>1, <1>2

(* Nothing that has happened is forgotten. *)
LEMMA CountKeeps ==
  ASSUME JobsTyped, NEW k \in Kinds, SJobs!Count(k)
  PROVE  jCounts' \in [Kinds -> Nat] /\ (SJobs!Undisturbed' => SJobs!Undisturbed)
BY DEF JobsTyped, SJobs!Count, SJobs!Undisturbed, Kinds

LEMMA CountsStay ==
  ASSUME JobsTyped, UNCHANGED jCounts
  PROVE  jCounts' \in [Kinds -> Nat] /\ (SJobs!Undisturbed' <=> SJobs!Undisturbed)
BY DEF JobsTyped, SJobs!Undisturbed

(* Only what concerns a job matters for it. *)
LEMMA JobStays ==
  ASSUME NEW j \in SJobs!Ids, NEW job, NEW C, NEW E, NEW D, NEW F,
         E \subseteq SJobs!Event, F \subseteq SJobs!Event, JobOK(j, job, C, E),
         \A h \in Hosts : D[h][j] = C[h][j],
         \A e \in SJobs!Event : e.job = j => (e \in E <=> e \in F)
  PROVE  JobOK(j, job, D, F)
<1>1. Adding(j, job, D)
  BY DEF JobOK, Adding
<1>2. Reported(j, D, F)
  BY DEF JobOK, Reported, SJobs!Event
<1>3. Tracked(j, job, D, F)
  BY DEF JobOK, Tracked
<1> QED BY <1>1, <1>2, <1>3 DEF JobOK

LEMMA FreshOK ==
  ASSUME NEW j \in SJobs!Ids, NEW D, NEW F,
         \A h \in Hosts : D[h][j] = "none",
         \A e \in F : e.job # j
  PROVE  JobOK(j, Fresh, D, F)
BY DEF JobOK, Adding, Reported, Tracked, SJobs!Active, Fresh

(* Only identifiers of which nothing is left are used again. *)
LEMMA PendingFacts ==
  ASSUME NEW js \in [SJobs!Ids -> JobRecord], NEW n
  PROVE  /\ SJobs!Pending(js, n) \in [SJobs!Ids -> JobRecord]
         /\ \A j \in SJobs!Ids : \/ SJobs!Pending(js, n)[j] = js[j]
                                 \/ SJobs!Forgotten(j) /\ SJobs!Pending(js, n)[j] = Fresh
<1>1. Fresh \in JobRecord
  BY DEF Fresh, JobRecord, JobState
<1> QED BY <1>1 DEF SJobs!Pending, SJobs!Unused, Fresh

LEMMA StatusFacts ==
  ASSUME JobsTyped, NEW js \in [SJobs!Ids -> JobRecord], NEW S, SJobs!handleJobStatus(js, S)
  PROVE  /\ jJobs' \in [SJobs!Ids -> JobRecord] /\ jRectify' \in BOOLEAN
         /\ \A j \in SJobs!Ids : jJobs'[j] = js[j] \/ (SJobs!Forgotten(j) /\ jJobs'[j] = Fresh)
<1>1. PICK n : jJobs' = SJobs!Pending(js, n)
  BY DEF SJobs!handleJobStatus
<1>2. jRectify' \in BOOLEAN
  BY DEF SJobs!handleJobStatus, JobsTyped
<1> QED BY <1>1, <1>2, PendingFacts

LEMMA ClearedFacts ==
  ASSUME JobsTyped, NEW js
  PROVE  /\ SJobs!Cleared(js) \in [Hosts -> [SJobs!Ids -> JobStatus]]
         /\ \A h \in Hosts, j \in SJobs!Ids : SJobs!Cleared(js)[h][j] =
              IF jJobs[j].state \in {"none", "stopped"} /\ js[j].state = "pending"
              THEN "none" ELSE jContainers[h][j]
BY DEF JobsTyped, SJobs!Cleared, JobStatus

LEMMA ForgottenFacts ==
  ASSUME NEW j \in SJobs!Ids, SJobs!Forgotten(j)
  PROVE  /\ jJobs[j].state \in {"none", "stopped"} /\ jJobs[j].starter = "none"
         /\ \A h \in Hosts : ~SJobs!Active(jContainers[h][j]) /\ <<j, h>> \notin jStopping
         /\ \A e \in jEvents : e.job # j
BY DEF SJobs!Forgotten, SJobs!Active

(* Jobs are replaced after the ones of js, with the containers D, are as  *)
(* they should be.                                                         *)
LEMMA ReplacedOK ==
  ASSUME JobsTyped, NEW js \in [SJobs!Ids -> JobRecord], NEW D,
         jEvents \subseteq SJobs!Event, jEvents' \subseteq SJobs!Event,
         \A j \in SJobs!Ids : jJobs'[j] = js[j] \/ (SJobs!Forgotten(j) /\ jJobs'[j] = Fresh),
         \A j \in SJobs!Ids : js[j].state = "pending" => jJobs[j].state \notin {"none", "stopped"},
         \A j \in SJobs!Ids : JobOK(j, js[j], D, jEvents'),
         \A e \in jEvents' : e \in jEvents \/ ~SJobs!Forgotten(e.job),
         \A h \in Hosts, j \in SJobs!Ids : jContainers'[h][j] =
           IF jJobs[j].state \in {"none", "stopped"} /\ jJobs'[j].state = "pending"
           THEN "none" ELSE D[h][j]
  PROVE  \A j \in SJobs!Ids : JobOK(j, jJobs'[j], jContainers', jEvents')
<1> TAKE j \in SJobs!Ids
<1>1. CASE jJobs'[j] = js[j]
  <2>1. \A h \in Hosts : jContainers'[h][j] = D[h][j]
    BY <1>1
  <2>2. JobOK(j, js[j], D, jEvents')
    OBVIOUS
  <2>3. JobOK(j, js[j], jContainers', jEvents')
    BY <2>1, <2>2, JobStays
  <2> QED BY <2>3, <1>1
<1>2. CASE SJobs!Forgotten(j) /\ jJobs'[j] = Fresh
  <2>1. \A h \in Hosts : jContainers'[h][j] = "none"
    BY <1>2, ForgottenFacts DEF Fresh
  <2>2. \A e \in jEvents' : e.job # j
    BY <1>2, ForgottenFacts
  <2>3. JobOK(j, Fresh, jContainers', jEvents')
    BY <2>1, <2>2, FreshOK
  <2> QED BY <2>3, <1>2
<1> QED BY <1>1, <1>2

-----------------------------------------------------------------------------
LEMMA FormationKeeps ==
  ASSUME JobsTyped, JobsInv, SJobs!HandleFormationChange PROVE JobsTyped' /\ JobsInv'
<1>1. "scales" \in Kinds /\ SJobs!Count("scales")
  BY DEF SJobs!HandleFormationChange, Kinds
<1>2. JobsTyped'
  BY <1>1, CountKeeps DEF SJobs!HandleFormationChange, SJobs!cluster, JobsTyped
<1>3. JobsInv'
  BY <1>1, CountKeeps DEF SJobs!HandleFormationChange, SJobs!cluster, JobsInv
<1> QED BY <1>2, <1>3

LEMMA LeaderKeeps ==
  ASSUME JobsTyped, JobsInv, SJobs!HandleLeaderChange PROVE JobsTyped' /\ JobsInv'
<1>1. "leaders" \in Kinds /\ SJobs!Count("leaders")
  BY DEF SJobs!HandleLeaderChange, Kinds
<1>2. jIsLeader' \in BOOLEAN /\ jPromoting' \in BOOLEAN /\ jRectify' \in BOOLEAN
  BY DEF SJobs!HandleLeaderChange, JobsTyped
<1>3. JobsTyped'
  BY <1>1, <1>2, CountKeeps DEF SJobs!HandleLeaderChange, SJobs!cluster, JobsTyped
<1>4. JobsInv'
  BY <1>1, CountKeeps DEF SJobs!HandleLeaderChange, SJobs!cluster, JobsInv
<1> QED BY <1>3, <1>4

LEMMA StopJobFacts ==
  ASSUME NEW job \in JobRecord, jFollowed \subseteq Hosts
  PROVE  /\ SJobs!stopJob(job) \in JobRecord
         /\ SJobs!stopJob(job).state = "stopping" => job.state = "stopping" \/ job.host \in Hosts
         /\ SJobs!stopJob(job).state = "pending" => job.state = "pending"
         /\ SJobs!stopJob(job).host = job.host
BY DEF SJobs!stopJob, JobRecord, JobState

LEMMA StopJobOK ==
  ASSUME NEW job \in JobRecord, jFollowed \subseteq Hosts, NEW j \in SJobs!Ids, NEW C, NEW E,
         JobOK(j, job, C, E)
  PROVE  JobOK(j, SJobs!stopJob(job), C, E)
<1>1. CASE job.state = "pending" /\ job.host = NoHost
  <2>1. SJobs!stopJob(job) = [job EXCEPT !.state = "stopped"]
    BY <1>1 DEF SJobs!stopJob
  <2> QED BY <2>1, <1>1, NoHostAssumption DEF JobOK, Adding, Tracked, JobRecord, JobState
<1>2. CASE ~(job.state = "pending" /\ job.host = NoHost) /\ job.host \in jFollowed
           /\ job.state \notin {"none", "stopped"}
  <2>1. SJobs!stopJob(job) = [job EXCEPT !.state = "stopping"]
    BY <1>2 DEF SJobs!stopJob
  <2> QED BY <2>1, <1>2, NoHostAssumption DEF JobOK, Adding, Tracked, JobRecord, JobState
<1>3. CASE SJobs!stopJob(job) = job
  BY <1>3
<1> QED BY <1>1, <1>2, <1>3 DEF SJobs!stopJob

LEMMA RectifyKeeps ==
  ASSUME JobsTyped, JobsInv, SJobs!HandleRectify PROVE JobsTyped' /\ JobsInv'
<1>1. /\ jFormation' = jFormation /\ jIsLeader' = jIsLeader /\ jPromoting' = jPromoting
      /\ jFollowed' = jFollowed /\ jTags' = jTags /\ jEvents' = jEvents
      /\ jReachable' = jReachable /\ jCounts' = jCounts /\ jRectify' = FALSE
  BY DEF SJobs!HandleRectify
<1>2. CASE ~jIsLeader /\ UNCHANGED <<jJobs, jStopping, jContainers>>
  BY <1>1, <1>2 DEF JobsTyped, JobsInv, SJobs!Undisturbed
<1>3. ASSUME jIsLeader, NEW n, NEW S \in SUBSET SJobs!Ids,
             S \subseteq {j \in SJobs!Ids : SJobs!Stop(jJobs, SJobs!Mismatched)[j].state \in
                            {"pending", "starting", "running"}},
             jJobs' = SJobs!Stop(SJobs!Pending(SJobs!Stop(jJobs, SJobs!Mismatched), n), S),
             jStopping' = jStopping \cup SJobs!StopRequests(jJobs'),
             jContainers' = SJobs!Cleared(jJobs')
      PROVE  JobsTyped' /\ JobsInv'
  <2> DEFINE ks == SJobs!Stop(jJobs, SJobs!Mismatched)
             js == [j \in SJobs!Ids |-> IF j \in S THEN SJobs!stopJob(ks[j]) ELSE ks[j]]
  <2>1. jJobs \in [SJobs!Ids -> JobRecord] /\ jFollowed \subseteq Hosts
    BY DEF JobsTyped
  <2>2. ks \in [SJobs!Ids -> JobRecord] /\
          \A j \in SJobs!Ids : ks[j] = jJobs[j] \/ ks[j] = SJobs!stopJob(jJobs[j])
    BY <2>1, StopJobFacts DEF SJobs!Stop
  <2>3. \A j \in SJobs!Ids : jJobs[j].state \in {"none", "stopped"} => ks[j] = jJobs[j] /\ j \notin S
    BY <1>3, <2>1 DEF SJobs!Stop, SJobs!Mismatched, SJobs!IsRunning
  <2>4. \A j \in SJobs!Ids : SJobs!Forgotten(j) => js[j] = jJobs[j] /\ j \notin S
    BY <2>3, ForgottenFacts
  <2>5. js \in [SJobs!Ids -> JobRecord]
    BY <2>2, <2>1, StopJobFacts
  <2> HIDE DEF ks
  <2>6. /\ SJobs!Pending(ks, n) \in [SJobs!Ids -> JobRecord]
        /\ \A j \in SJobs!Ids : SJobs!Pending(ks, n)[j] = ks[j]
                                \/ (SJobs!Forgotten(j) /\ SJobs!Pending(ks, n)[j] = Fresh)
    BY <2>2, PendingFacts
  <2>7. jJobs' \in [SJobs!Ids -> JobRecord]
    BY <1>3, <2>6, <2>1, StopJobFacts DEF SJobs!Stop, ks
  <2>8. \A j \in SJobs!Ids : jJobs'[j] = js[j] \/ (SJobs!Forgotten(j) /\ jJobs'[j] = Fresh)
    BY <1>3, <2>4, <2>6 DEF SJobs!Stop, ks
  <2>9. \A j \in SJobs!Ids : jJobs'[j].state = "stopping" =>
          jJobs[j].state = "stopping" \/ jJobs'[j].host \in Hosts
    <3>1. \A j \in SJobs!Ids : js[j].state = "stopping" =>
            jJobs[j].state = "stopping" \/ js[j].host \in Hosts
      BY <2>1, <2>2, StopJobFacts
    <3> QED BY <3>1, <2>8 DEF Fresh
  <2>10. jStopping' \subseteq SJobs!Ids \X Hosts
    BY <1>3, <2>9 DEF SJobs!StopRequests, JobsTyped
  <2>11. JobsTyped'
    BY <1>1, <1>3, <2>7, <2>10, ClearedFacts DEF JobsTyped
  <2>12. ASSUME SJobs!Undisturbed'
         PROVE  \A j \in SJobs!Ids : JobOK(j, jJobs'[j], jContainers', jEvents')
    <3>1. \A j \in SJobs!Ids : JobOK(j, jJobs[j], jContainers, jEvents)
      BY <2>12, <1>1 DEF JobsInv, SJobs!Undisturbed
    <3>2. \A j \in SJobs!Ids : JobOK(j, ks[j], jContainers, jEvents)
      BY <3>1, <2>1, <2>2, StopJobOK
    <3>3. \A j \in SJobs!Ids : JobOK(j, js[j], jContainers, jEvents)
      BY <3>2, <2>1, <2>2, StopJobOK
    <3>4. \A j \in SJobs!Ids : js[j].state = "pending" => jJobs[j].state \notin {"none", "stopped"}
      BY <2>3
    <3>5. jEvents \subseteq SJobs!Event
      BY DEF JobsTyped
    <3> HIDE DEF js
    <3>6. \A j \in SJobs!Ids : JobOK(j, jJobs'[j], jContainers', jEvents')
      <4>1. \A h \in Hosts, j \in SJobs!Ids : jContainers'[h][j] =
              IF jJobs[j].state \in {"none", "stopped"} /\ jJobs'[j].state = "pending"
              THEN "none" ELSE jContainers[h][j]
        BY <1>3, ClearedFacts
      <4>2. \A j \in SJobs!Ids : JobOK(j, js[j], jContainers, jEvents')
        BY <1>1, <3>3
      <4>3. jEvents' \subseteq SJobs!Event /\
              \A e \in jEvents' : e \in jEvents \/ ~SJobs!Forgotten(e.job)
        BY <1>1, <3>5
      <4> QED BY <2>5, <2>8, <3>4, <3>5, <4>1, <4>2, <4>3, ReplacedOK
    <3> QED BY <3>6
  <2>13. JobsInv'
    BY <2>12, <1>1 DEF JobsInv, SJobs!Undisturbed
  <2> QED BY <2>11, <2>13
<1>4. CASE jIsLeader
  <2>1. PICK S \in SJobs!ToStop(SJobs!Stop(jJobs, SJobs!Mismatched),
                 -(jFormation - SJobs!Cardinality(SJobs!Members(SJobs!Stop(jJobs, SJobs!Mismatched))))) :
          /\ jJobs' = SJobs!Stop(SJobs!Pending(SJobs!Stop(jJobs, SJobs!Mismatched),
               jFormation - SJobs!Cardinality(SJobs!Members(SJobs!Stop(jJobs, SJobs!Mismatched)))), S)
          /\ jStopping' = jStopping \cup SJobs!StopRequests(jJobs')
          /\ jContainers' = SJobs!Cleared(jJobs')
    BY <1>4 DEF SJobs!HandleRectify
  <2>2. S \in SUBSET SJobs!Ids /\ S \subseteq {j \in SJobs!Ids :
          SJobs!Stop(jJobs, SJobs!Mismatched)[j].state \in {"pending", "starting", "running"}}
    BY <2>1 DEF SJobs!ToStop
  <2> QED BY <1>3, <1>4, <2>1, <2>2
<1> QED BY <1>2, <1>4 DEF SJobs!HandleRectify

LEMMA PlacementKeeps ==
  ASSUME JobsTyped, JobsInv, NEW j \in SJobs!Ids, SJobs!HandlePlacementRequest(j)
  PROVE  JobsTyped' /\ JobsInv'
<1>1. /\ jFormation' = jFormation /\ jIsLeader' = jIsLeader /\ jPromoting' = jPromoting
      /\ jFollowed' = jFollowed /\ jTags' = jTags /\ jEvents' = jEvents /\ jStopping' = jStopping
      /\ jReachable' = jReachable /\ jCounts' = jCounts /\ jRectify' = jRectify
      /\ jContainers' = jContainers /\ jJobs[j].starter = "placing"
  BY DEF SJobs!HandlePlacementRequest, SJobs!cluster
<1>2. jJobs \in [SJobs!Ids -> JobRecord] /\ jFollowed \subseteq Hosts
  BY DEF JobsTyped
<1>3. PICK job \in JobRecord : jJobs' = [jJobs EXCEPT ![j] = job] /\
        \/ job = [jJobs[j] EXCEPT !.starter = "none"]
        \/ job = [state |-> "blocked", host |-> NoHost, starter |-> "none"] /\ jJobs[j].state = "pending"
        \/ \E h \in Hosts : /\ job = [jJobs[j] EXCEPT !.host = h, !.starter = "adding"]
                            /\ jJobs[j].state = "pending"
  <2>1. CASE jJobs' = [jJobs EXCEPT ![j].starter = "none"]
    BY <2>1, <1>2 DEF JobRecord
  <2>2. CASE /\ jJobs' = [jJobs EXCEPT ![j] = [state |-> "blocked", host |-> NoHost, starter |-> "none"]]
             /\ jJobs[j].state = "pending"
    BY <2>2, <1>2 DEF JobRecord, JobState
  <2>3. ASSUME NEW h \in jFollowed, jJobs' = [jJobs EXCEPT ![j].host = h, ![j].starter = "adding"],
               jJobs[j].state = "pending"
        PROVE  \E h1 \in Hosts : /\ [jJobs[j] EXCEPT !.host = h1, !.starter = "adding"] \in JobRecord
                 /\ jJobs' = [jJobs EXCEPT ![j] = [jJobs[j] EXCEPT !.host = h1, !.starter = "adding"]]
    BY <2>3, <1>2 DEF JobRecord
  <2> QED BY <2>1, <2>2, <2>3 DEF SJobs!HandlePlacementRequest
<1>4. JobsTyped'
  BY <1>1, <1>2, <1>3 DEF JobsTyped
<1>5. ASSUME SJobs!Undisturbed', JobOK(j, jJobs[j], jContainers, jEvents)
      PROVE  JobOK(j, job, jContainers, jEvents)
  <2>1. CASE job = [jJobs[j] EXCEPT !.starter = "none"]
    BY <2>1, <1>2, <1>5 DEF JobOK, Adding, Tracked, JobRecord
  <2>2. CASE job = [state |-> "blocked", host |-> NoHost, starter |-> "none"] /\ jJobs[j].state = "pending"
    BY <2>2, <1>2, <1>5, NoHostAssumption DEF JobOK, Adding, Tracked, JobRecord
  <2>3. ASSUME NEW h \in Hosts, job = [jJobs[j] EXCEPT !.host = h, !.starter = "adding"],
               jJobs[j].state = "pending"
        PROVE  JobOK(j, job, jContainers, jEvents)
    BY <2>3, <1>2, <1>5, NoHostAssumption DEF JobOK, Adding, Tracked, JobRecord
  <2> QED BY <2>1, <2>2, <2>3, <1>3
<1>6. JobsInv'
  BY <1>1, <1>2, <1>3, <1>5 DEF JobsInv, SJobs!Undisturbed
<1> QED BY <1>4, <1>6

-----------------------------------------------------------------------------
LEMMA ReportFacts ==
  ASSUME NEW cs, NEW H
  PROVE  /\ SJobs!Report(cs, H) \subseteq SJobs!Event
         /\ \A e \in SJobs!Event : e \in SJobs!Report(cs, H) <=>
              e.host \in H /\ e.status = cs[e.host][e.job] /\ e.status # jContainers[e.host][e.job]
BY DEF SJobs!Report

LEMMA StopContainersFacts ==
  ASSUME JobsTyped, NEW S
  PROVE  /\ SJobs!StopContainers(S) \in [Hosts -> [SJobs!Ids -> JobStatus]]
         /\ \A h \in Hosts, j \in SJobs!Ids : SJobs!StopContainers(S)[h][j] =
              IF <<j, h>> \in S /\ h \in jReachable /\ SJobs!Active(jContainers[h][j]) THEN "done"
              ELSE jContainers[h][j]
BY DEF JobsTyped, SJobs!StopContainers, JobStatus

(* Containers move on and hosts report it. *)
Moves(D) ==
  \A h \in Hosts, j \in SJobs!Ids :
    \/ D[h][j] = jContainers[h][j]
    \/ jContainers[h][j] = "starting" /\ D[h][j] \in {"running", "done"}
    \/ jContainers[h][j] = "running" /\ D[h][j] = "done"

LEMMA MovesOK ==
  ASSUME JobsTyped, NEW D \in [Hosts -> [SJobs!Ids -> JobStatus]], Moves(D),
         NEW j \in SJobs!Ids, NEW job, JobOK(j, job, jContainers, jEvents)
  PROVE  JobOK(j, job, D, jEvents \cup SJobs!Report(D, Hosts))
<1>1. Adding(j, job, D)
  BY DEF JobOK, Adding, Moves
<1>2. Reported(j, D, jEvents \cup SJobs!Report(D, Hosts))
  <2>1. jEvents \subseteq SJobs!Event
    BY DEF JobsTyped
  <2>2. ASSUME NEW e \in jEvents, e.job = j
        PROVE  D[e.host][j] # "none" /\ (e.status = "done" => D[e.host][j] = "done")
    <3>1. e.host \in Hosts
      BY <2>1, <2>2 DEF SJobs!Event
    <3> QED BY <3>1, <2>2 DEF JobOK, Reported, Moves
  <2>3. ASSUME NEW e \in SJobs!Report(D, Hosts), e.job = j
        PROVE  D[e.host][j] # "none" /\ (e.status = "done" => D[e.host][j] = "done")
    <3>1. e \in SJobs!Event /\ e.status = D[e.host][j]
      BY <2>3, ReportFacts
    <3> QED BY <3>1 DEF SJobs!Event
  <2> QED BY <2>2, <2>3 DEF Reported
<1>3. Tracked(j, job, D, jEvents \cup SJobs!Report(D, Hosts))
  <2> SUFFICES ASSUME NEW h \in Hosts, SJobs!Active(D[h][j])
               PROVE  /\ \/ \E e \in jEvents \cup SJobs!Report(D, Hosts) : e.job = j /\ e.host = h
                         \/ job.host = h /\ job.state # "pending"
                      /\ job.host = h => job.state \in {"pending", "starting", "running", "stopping"}
    BY DEF Tracked
  <2>1. SJobs!Active(jContainers[h][j])
    BY DEF Moves, SJobs!Active
  <2> QED BY <2>1 DEF JobOK, Tracked
<1> QED BY <1>1, <1>2, <1>3 DEF JobOK

(* The steps of hosts and of stopJob's goroutine. *)
LEMMA MoveKeeps ==
  ASSUME JobsTyped, JobsInv, jContainers' \in [Hosts -> [SJobs!Ids -> JobStatus]],
         SJobs!Undisturbed => Moves(jContainers'),
         jEvents' = jEvents \cup SJobs!Report(jContainers', jFollowed),
         jCounts' \in [Kinds -> Nat], SJobs!Undisturbed' => SJobs!Undisturbed,
         jStopping' \subseteq jStopping,
         UNCHANGED <<jFormation, jJobs, jIsLeader, jPromoting, jRectify, jFollowed, jTags, jReachable>>
  PROVE  JobsTyped' /\ JobsInv'
<1>1. JobsTyped'
  BY ReportFacts DEF JobsTyped
<1>2. JobsInv'
  <2> SUFFICES ASSUME SJobs!Undisturbed'
               PROVE  /\ jFollowed = Hosts /\ jReachable = Hosts
                      /\ \A j \in SJobs!Ids : JobOK(j, jJobs[j], jContainers', jEvents')
    BY DEF JobsInv
  <2>1. jFollowed = Hosts /\ jReachable = Hosts /\
          \A j \in SJobs!Ids : JobOK(j, jJobs[j], jContainers, jEvents)
    BY DEF JobsInv
  <2> QED BY <2>1, MovesOK
<1> QED BY <1>1, <1>2

LEMMA RunningKeeps ==
  ASSUME JobsTyped, JobsInv, NEW h \in Hosts, NEW j \in SJobs!Ids, SJobs!SetStatusRunning(h, j)
  PROVE  JobsTyped' /\ JobsInv'
<1>1. jContainers' \in [Hosts -> [SJobs!Ids -> JobStatus]] /\ Moves(jContainers')
  BY DEF JobsTyped, SJobs!SetStatusRunning, Moves, JobStatus
<1> QED BY <1>1, CountsStay, MoveKeeps DEF SJobs!SetStatusRunning, SJobs!sched

LEMMA DoneKeeps ==
  ASSUME JobsTyped, JobsInv, NEW h \in Hosts, NEW j \in SJobs!Ids, SJobs!SetStatusDone(h, j)
  PROVE  JobsTyped' /\ JobsInv'
<1>1. jContainers' \in [Hosts -> [SJobs!Ids -> JobStatus]] /\ Moves(jContainers')
  BY DEF JobsTyped, SJobs!SetStatusDone, Moves, JobStatus, SJobs!Active
<1>2. SJobs!Count("exits") /\ "exits" \in Kinds
  BY DEF SJobs!SetStatusDone, Kinds
<1> QED BY <1>1, <1>2, CountKeeps, MoveKeeps DEF SJobs!SetStatusDone, SJobs!sched

LEMMA StopContainersMoves == ASSUME JobsTyped, NEW S PROVE Moves(SJobs!StopContainers(S))
<1> SUFFICES ASSUME NEW h \in Hosts, NEW j \in SJobs!Ids
             PROVE  LET D == SJobs!StopContainers(S)[h][j]  c == jContainers[h][j] IN
                    D = c \/ (c = "starting" /\ D \in {"running", "done"}) \/ (c = "running" /\ D = "done")
  BY DEF Moves
<1>1. \/ SJobs!StopContainers(S)[h][j] = jContainers[h][j]
      \/ SJobs!StopContainers(S)[h][j] = "done" /\ SJobs!Active(jContainers[h][j])
  <2>1. SJobs!StopContainers(S)[h][j] =
          IF <<j, h>> \in S /\ h \in jReachable /\ SJobs!Active(jContainers[h][j]) THEN "done"
          ELSE jContainers[h][j]
    BY DEF SJobs!StopContainers
  <2> QED BY <2>1
<1> QED BY <1>1 DEF SJobs!Active

LEMMA StopKeeps ==
  ASSUME JobsTyped, JobsInv, NEW r, SJobs!StopJob(r) PROVE JobsTyped' /\ JobsInv'
<1>1. jContainers' \in [Hosts -> [SJobs!Ids -> JobStatus]] /\ Moves(jContainers')
  <2>1. CASE jContainers' = SJobs!StopContainers({r})
    BY <2>1, StopContainersFacts, StopContainersMoves
  <2>2. CASE jContainers' = jContainers
    BY <2>2 DEF JobsTyped, Moves
  <2> QED BY <2>1, <2>2 DEF SJobs!StopJob
<1>2. jCounts' \in [Kinds -> Nat] /\ (SJobs!Undisturbed' => SJobs!Undisturbed)
  BY CountKeeps, CountsStay DEF SJobs!StopJob, Kinds
<1> QED BY <1>1, <1>2, MoveKeeps DEF SJobs!StopJob

LEMMA StartKeeps ==
  ASSUME JobsTyped, JobsInv, NEW j \in SJobs!Ids, SJobs!StartJob(j) PROVE JobsTyped' /\ JobsInv'
<1> DEFINE h == jJobs[j].host
           D == [jContainers EXCEPT ![h][j] = "starting"]
<1>1. /\ jJobs[j].starter = "adding" /\ jEvents' = jEvents \cup SJobs!Report(jContainers', jFollowed)
      /\ jFormation' = jFormation /\ jIsLeader' = jIsLeader /\ jPromoting' = jPromoting
      /\ jFollowed' = jFollowed /\ jTags' = jTags /\ jStopping' = jStopping
      /\ jReachable' = jReachable /\ jRectify' = jRectify
  BY DEF SJobs!StartJob
<1>2. /\ jJobs \in [SJobs!Ids -> JobRecord] /\ jFollowed \subseteq Hosts /\ jReachable \subseteq Hosts
      /\ jContainers \in [Hosts -> [SJobs!Ids -> JobStatus]] /\ jEvents \subseteq SJobs!Event
  BY DEF JobsTyped
<1>3. PICK s \in {"none", "placing"} : jJobs' = [jJobs EXCEPT ![j].starter = s]
  BY DEF SJobs!StartJob
<1>4. jContainers' = jContainers \/ (jContainers' = D /\ h \in jReachable /\ jContainers[h][j] = "none")
  BY DEF SJobs!StartJob
<1>5. jCounts' \in [Kinds -> Nat] /\ (SJobs!Undisturbed' => SJobs!Undisturbed)
  BY CountKeeps, CountsStay DEF SJobs!StartJob, Kinds
<1>6. jContainers' \in [Hosts -> [SJobs!Ids -> JobStatus]]
  BY <1>2, <1>4 DEF JobStatus
<1>7. jJobs' \in [SJobs!Ids -> JobRecord]
  BY <1>2, <1>3 DEF JobRecord
<1>8. JobsTyped'
  BY <1>1, <1>5, <1>6, <1>7, ReportFacts DEF JobsTyped
<1>9. ASSUME SJobs!Undisturbed'
      PROVE  /\ jFollowed' = Hosts /\ jReachable' = Hosts
             /\ \A i \in SJobs!Ids : JobOK(i, jJobs'[i], jContainers', jEvents')
  <2>1. jFollowed = Hosts /\ jReachable = Hosts /\
          \A i \in SJobs!Ids : JobOK(i, jJobs[i], jContainers, jEvents)
    BY <1>5, <1>9 DEF JobsInv
  <2>2. \A i \in SJobs!Ids : JobOK(i, jJobs'[i], jContainers, jEvents)
    BY <2>1, <1>2, <1>3 DEF JobOK, Adding, Tracked, JobRecord
  <2>3. CASE jContainers' = jContainers
    <3>1. jEvents' = jEvents
      BY <1>1, <1>2, <2>3, ReportFacts
    <3> QED BY <3>1, <2>1, <2>2, <2>3, <1>1
  <2>4. CASE jContainers' = D /\ h \in jReachable /\ jContainers[h][j] = "none"
    <3>1. \A i \in SJobs!Ids \ {j}, g \in Hosts : jContainers'[g][i] = jContainers[g][i]
      BY <2>4, <1>2
    <3>2. \A g \in Hosts \ {h} : jContainers'[g][j] = jContainers[g][j]
      BY <2>4, <1>2
    <3>3. h \in Hosts /\ jContainers'[h][j] = "starting"
      BY <2>1, <2>4, <1>2
    <3>4. \A e \in SJobs!Event : e \in jEvents' <=>
            e \in jEvents \/ e = [job |-> j, host |-> h, status |-> "starting"]
      <4>1. \A e \in SJobs!Event : e \in SJobs!Report(jContainers', Hosts) <=>
              e = [job |-> j, host |-> h, status |-> "starting"]
        <5> SUFFICES ASSUME NEW e \in SJobs!Event
                     PROVE e \in SJobs!Report(jContainers', Hosts) <=>
                             e = [job |-> j, host |-> h, status |-> "starting"]
          OBVIOUS
        <5>1. e.host \in Hosts /\ e.job \in SJobs!Ids /\ e = [job |-> e.job, host |-> e.host, status |-> e.status]
          BY DEF SJobs!Event
        <5>2. e \in SJobs!Report(jContainers', Hosts) <=>
                e.status = jContainers'[e.host][e.job] /\ e.status # jContainers[e.host][e.job]
          BY <5>1, ReportFacts
        <5>3. CASE e.job = j /\ e.host = h
          BY <5>1, <5>2, <5>3, <3>3, <2>4
        <5>4. CASE ~(e.job = j /\ e.host = h)
          BY <5>1, <5>2, <5>4, <3>1, <3>2
        <5> QED BY <5>3, <5>4
      <4> QED BY <4>1, <1>1, <2>1
    <3>5. jEvents' \subseteq SJobs!Event
      BY <1>8 DEF JobsTyped
    <3>6. [job |-> j, host |-> h, status |-> "starting"] \in SJobs!Event
      BY <3>3 DEF SJobs!Event
    <3> HIDE DEF D, h
    <3>7. \A i \in SJobs!Ids \ {j} : JobOK(i, jJobs'[i], jContainers', jEvents')
      <4> TAKE i \in SJobs!Ids \ {j}
      <4>1. \A e \in SJobs!Event : e.job = i => (e \in jEvents <=> e \in jEvents')
        BY <3>4
      <4>2. JobOK(i, jJobs'[i], jContainers, jEvents)
        BY <2>2
      <4> QED BY <4>1, <4>2, <3>1, <3>5, <1>2, JobStays
    <3>8. jJobs'[j].starter # "adding" /\ jJobs'[j].host = h /\ jJobs'[j].state = jJobs[j].state
      BY <1>2, <1>3 DEF JobRecord, h
    <3>9. jJobs[j].state \in {"pending", "stopping"}
      BY <2>1, <2>4, <1>1 DEF JobOK, Adding, h
    <3>10. JobOK(j, jJobs'[j], jContainers', jEvents')
      <4>1. Adding(j, jJobs'[j], jContainers')
        BY <3>8 DEF Adding
      <4>2. Reported(j, jContainers', jEvents')
        <5> SUFFICES ASSUME NEW e \in jEvents', e.job = j
                     PROVE jContainers'[e.host][j] # "none" /\ (e.status = "done" =>
                             jContainers'[e.host][j] = "done")
          BY DEF Reported
        <5>1. CASE e = [job |-> j, host |-> h, status |-> "starting"]
          BY <5>1, <3>3
        <5>2. CASE e \in jEvents
          <6>1. jContainers[e.host][j] # "none" /\ (e.status = "done" =>
                  jContainers[e.host][j] = "done")
            BY <5>2, <2>1 DEF JobOK, Reported
          <6>2. e.host \in Hosts \ {h}
            BY <6>1, <2>4, <5>2, <1>2 DEF SJobs!Event
          <6> QED BY <6>1, <6>2, <3>2
        <5> QED BY <5>1, <5>2, <3>4, <3>5
      <4>3. Tracked(j, jJobs'[j], jContainers', jEvents')
        <5> SUFFICES ASSUME NEW g \in Hosts, SJobs!Active(jContainers'[g][j])
                     PROVE  /\ \/ \E e \in jEvents' : e.job = j /\ e.host = g
                               \/ jJobs'[j].host = g /\ jJobs'[j].state # "pending"
                            /\ jJobs'[j].host = g =>
                                 jJobs'[j].state \in {"pending", "starting", "running", "stopping"}
          BY DEF Tracked
        <5>1. CASE g = h
          BY <5>1, <3>4, <3>6, <3>8, <3>9
        <5>2. CASE g # h
          <6>1. SJobs!Active(jContainers[g][j])
            BY <5>2, <3>2
          <6>2. PICK e \in jEvents : e.job = j /\ e.host = g
            BY <5>2, <6>1, <2>1 DEF JobOK, Tracked, h
          <6> QED BY <6>2, <5>2, <3>4, <3>8, <1>2
        <5> QED BY <5>1, <5>2
      <4> QED BY <4>1, <4>2, <4>3, <3>8, <3>9 DEF JobOK
    <3> QED BY <3>7, <3>10, <2>1, <1>1
  <2> QED BY <2>3, <2>4, <1>4
<1>10. JobsInv'
  BY <1>9 DEF JobsInv
<1> QED BY <1>8, <1>10

LEMMA NextStateType ==
  ASSUME NEW s \in JobState, NEW t \in {"starting", "running", "done"}
  PROVE  /\ SJobs!NextState(s, t) \in JobState
         /\ SJobs!NextState(s, t) \notin {"pending", "none"}
         /\ t \in {"starting", "running"} =>
              SJobs!NextState(s, t) \in {s, "starting", "running"}
         /\ t # "done" /\ s \in {"pending", "starting", "running", "stopping"} =>
              SJobs!NextState(s, t) \in {"starting", "running", "stopping"}
<1>1. CASE t = "starting"
  BY <1>1 DEF SJobs!NextState, JobState
<1>2. CASE t = "running"
  BY <1>2 DEF SJobs!NextState, JobState
<1>3. CASE t = "done"
  BY <1>3 DEF SJobs!NextState, JobState
<1> QED BY <1>1, <1>2, <1>3

(* A status of the host a job was placed on counts.  It is heard from an   *)
(* event, which leaves E, or from a list of containers.                    *)
LEMMA HeardOK ==
  ASSUME NEW job \in JobRecord, NEW j \in SJobs!Ids, NEW C, NEW E, NEW F,
         NEW t \in {"starting", "running", "done"},
         JobOK(j, job, C, E), NEW k, k = [job EXCEPT !.state = SJobs!NextState(@, t)],
         F \subseteq E, job.host \in Hosts, C[job.host][j] # "none",
         t = "done" => C[job.host][j] = "done",
         \A e \in E : e \in F \/ (e.job = j /\ e.host = job.host)
  PROVE  JobOK(j, k, C, F)
<1>1. /\ k.host = job.host /\ k.starter = job.starter /\ k.state = SJobs!NextState(job.state, t)
      /\ job.state \in JobState
  BY DEF JobRecord
<1>2. k.state \in JobState /\ k.state \notin {"pending", "none"}
  BY <1>1, NextStateType
<1>3. job.state \notin {"none", "blocked"}
  BY NoHostAssumption DEF JobOK
<1>4. k.state # "blocked"
  <2>1. CASE t = "done"
    BY <1>1, <2>1 DEF SJobs!NextState
  <2>2. CASE t # "done"
    BY <1>1, <1>3, <2>2, NextStateType
  <2> QED BY <2>1, <2>2
<1>5. Adding(j, k, C)
  BY <1>1 DEF JobOK, Adding
<1>6. Reported(j, C, F)
  BY DEF JobOK, Reported
<1>7. Tracked(j, k, C, F)
  <2> SUFFICES ASSUME NEW h \in Hosts, SJobs!Active(C[h][j])
               PROVE  /\ (\E e \in F : e.job = j /\ e.host = h) \/ (k.host = h /\ k.state # "pending")
                      /\ k.host = h => k.state \in {"pending", "starting", "running", "stopping"}
    BY DEF Tracked
  <2>1. CASE h = job.host
    <3>1. t # "done" /\ job.state \in {"pending", "starting", "running", "stopping"}
      BY <2>1 DEF JobOK, Tracked, SJobs!Active
    <3> QED BY <3>1, <2>1, <1>1, <1>2, NextStateType
  <2>2. CASE h # job.host
    <3>1. PICK e \in E : e.job = j /\ e.host = h
      BY <2>2 DEF JobOK, Tracked
    <3> QED BY <3>1, <2>2, <1>1
  <2> QED BY <2>1, <2>2
<1> QED BY <1>2, <1>4, <1>5, <1>6, <1>7 DEF JobOK

LEMMA JobEventKeeps ==
  ASSUME JobsTyped, JobsInv, NEW e, SJobs!HandleJobEvent(e) PROVE JobsTyped' /\ JobsInv'
<1>1. /\ e \in jEvents /\ jFormation' = jFormation /\ jIsLeader' = jIsLeader /\ jPromoting' = jPromoting
      /\ jFollowed' = jFollowed /\ jTags' = jTags /\ jStopping' = jStopping /\ jReachable' = jReachable
  BY DEF SJobs!HandleJobEvent
<1>2. /\ jJobs \in [SJobs!Ids -> JobRecord] /\ jFollowed \subseteq Hosts
      /\ jContainers \in [Hosts -> [SJobs!Ids -> JobStatus]] /\ jEvents \subseteq SJobs!Event
  BY DEF JobsTyped
<1>3. e \in SJobs!Event /\ e.job \in SJobs!Ids /\ e.host \in Hosts /\
        e.status \in {"starting", "running", "done"}
  BY <1>1, <1>2 DEF SJobs!Event
<1>4. CASE jJobs[e.job].host # e.host
  <2>1. jEvents' = (jEvents \ {e}) \cup SJobs!Report(jContainers', jFollowed) /\
          jJobs' = jJobs /\ jRectify' = jRectify
    BY <1>4 DEF SJobs!HandleJobEvent
  <2>2. \/ /\ jContainers' = SJobs!StopContainers({<<e.job, e.host>>} \cap (SJobs!Ids \X jFollowed))
           /\ jCounts' = jCounts
        \/ jContainers' = jContainers /\ SJobs!Count("left")
    BY <1>4 DEF SJobs!HandleJobEvent
  <2>3. jContainers' \in [Hosts -> [SJobs!Ids -> JobStatus]]
    BY <2>2, <1>2, StopContainersFacts
  <2>4. /\ jCounts' \in [Kinds -> Nat]
        /\ SJobs!Undisturbed' => SJobs!Undisturbed /\ jCounts' = jCounts
    <3>1. jCounts \in [Kinds -> Nat]
      BY DEF JobsTyped
    <3>2. "left" \in Kinds
      BY DEF Kinds
    <3>3. CASE SJobs!Count("left")
      <4>1. jCounts' \in [Kinds -> Nat] /\ jCounts'["left"] = jCounts["left"] + 1
        BY <3>1, <3>2, <3>3 DEF SJobs!Count
      <4>2. jCounts'["left"] # 0
        BY <4>1, <3>1, <3>2
      <4> QED BY <4>1, <4>2 DEF SJobs!Undisturbed
    <3>4. CASE jCounts' = jCounts
      BY <3>1, <3>4 DEF SJobs!Undisturbed
    <3> QED BY <2>2, <3>3, <3>4
  <2>5. JobsTyped'
    BY <1>1, <1>2, <2>1, <2>3, <2>4, ReportFacts DEF JobsTyped
  <2>6. ASSUME SJobs!Undisturbed'
        PROVE  jFollowed = Hosts /\ jReachable = Hosts /\
                 \A j \in SJobs!Ids : JobOK(j, jJobs[j], jContainers', jEvents')
    <3>1. jFollowed = Hosts /\ jReachable = Hosts /\
            \A j \in SJobs!Ids : JobOK(j, jJobs[j], jContainers, jEvents)
      BY <2>4, <2>6 DEF JobsInv
    <3>2. jContainers' = SJobs!StopContainers({<<e.job, e.host>>})
      <4>1. "left" \in Kinds /\ jCounts \in [Kinds -> Nat]
        BY DEF Kinds, JobsTyped
      <4>2. ~SJobs!Count("left")
        <5>1. jCounts["left"] # jCounts["left"] + 1
          BY <4>1
        <5> QED BY <4>1, <5>1, <2>4, <2>6 DEF SJobs!Count
      <4>3. {<<e.job, e.host>>} \cap (SJobs!Ids \X jFollowed) = {<<e.job, e.host>>}
        BY <3>1, <1>3
      <4> QED BY <2>2, <4>2, <4>3
    <3>3. Moves(jContainers')
      BY <3>2, StopContainersMoves
    <3>4. \A j \in SJobs!Ids : JobOK(j, jJobs[j], jContainers', jEvents \cup SJobs!Report(jContainers', Hosts))
      BY <3>1, <3>3, <2>3, MovesOK
    <3>5. ~SJobs!Active(jContainers'[e.host][e.job])
      <4>1. jContainers'[e.host][e.job] =
              IF SJobs!Active(jContainers[e.host][e.job]) THEN "done" ELSE jContainers[e.host][e.job]
        BY <3>2, <3>1, <1>3 DEF SJobs!StopContainers
      <4> QED BY <4>1 DEF SJobs!Active
    <3>6. jEvents' = (jEvents \ {e}) \cup SJobs!Report(jContainers', Hosts)
      BY <2>1, <3>1
    <3>7. ASSUME NEW j \in SJobs!Ids PROVE JobOK(j, jJobs[j], jContainers', jEvents')
      <4>1. JobOK(j, jJobs[j], jContainers', jEvents \cup SJobs!Report(jContainers', Hosts))
        BY <3>4
      <4>2. Reported(j, jContainers', jEvents')
        BY <4>1, <3>6 DEF JobOK, Reported
      <4>3. Tracked(j, jJobs[j], jContainers', jEvents')
        <5> SUFFICES ASSUME NEW h \in Hosts, SJobs!Active(jContainers'[h][j])
                     PROVE  /\ \/ \E f \in jEvents' : f.job = j /\ f.host = h
                               \/ jJobs[j].host = h /\ jJobs[j].state # "pending"
                            /\ jJobs[j].host = h =>
                                 jJobs[j].state \in {"pending", "starting", "running", "stopping"}
          BY DEF Tracked
        <5>1. ~(j = e.job /\ h = e.host)
          BY <3>5
        <5> QED BY <5>1, <4>1, <3>6 DEF JobOK, Tracked
      <4> QED BY <4>1, <4>2, <4>3 DEF JobOK
    <3> QED BY <3>1, <3>7
  <2>7. JobsInv'
    BY <2>6, <2>1, <1>1 DEF JobsInv
  <2> QED BY <2>5, <2>7
<1>5. CASE jJobs[e.job].host = e.host
  <2> DEFINE js == [jJobs EXCEPT ![e.job].state = SJobs!NextState(@, e.status)]
  <2>1. /\ SJobs!handleJobStatus(js, {e.job}) /\ jEvents' = jEvents \ {e}
        /\ jContainers' = SJobs!Cleared(jJobs')
    BY <1>5 DEF SJobs!HandleJobEvent
  <2>2. jCounts' \in [Kinds -> Nat] /\ (SJobs!Undisturbed' => SJobs!Undisturbed)
    <3>1. "late" \in Kinds
      BY DEF Kinds
    <3>2. jCounts' = jCounts \/ SJobs!Count("late")
      BY <1>5 DEF SJobs!HandleJobEvent
    <3> QED BY <3>1, <3>2, CountKeeps, CountsStay
  <2>3. js \in [SJobs!Ids -> JobRecord]
    BY <1>2, <1>3, NextStateType DEF JobRecord
  <2>4. /\ js[e.job] = [jJobs[e.job] EXCEPT !.state = SJobs!NextState(@, e.status)]
        /\ \A j \in SJobs!Ids \ {e.job} : js[j] = jJobs[j]
        /\ js[e.job].state = SJobs!NextState(jJobs[e.job].state, e.status)
        /\ jJobs[e.job].state \in JobState /\ jJobs[e.job] \in JobRecord
    BY <1>2, <1>3 DEF JobRecord
  <2> HIDE DEF js
  <2>5. /\ jJobs' \in [SJobs!Ids -> JobRecord] /\ jRectify' \in BOOLEAN
        /\ \A j \in SJobs!Ids : jJobs'[j] = js[j] \/ (SJobs!Forgotten(j) /\ jJobs'[j] = Fresh)
    BY <2>1, <2>3, StatusFacts
  <2>6. JobsTyped'
    BY <1>1, <2>1, <2>2, <2>5, ClearedFacts DEF JobsTyped
  <2>7. ASSUME SJobs!Undisturbed'
        PROVE  jFollowed = Hosts /\ jReachable = Hosts /\
                 \A j \in SJobs!Ids : JobOK(j, jJobs'[j], jContainers', jEvents')
    <3>1. jFollowed = Hosts /\ jReachable = Hosts /\
            \A j \in SJobs!Ids : JobOK(j, jJobs[j], jContainers, jEvents)
      BY <2>2, <2>7 DEF JobsInv
    <3>2. \A j \in SJobs!Ids \ {e.job} : JobOK(j, jJobs[j], jContainers, jEvents \ {e})
      <4> TAKE j \in SJobs!Ids \ {e.job}
      <4>1. \A f \in SJobs!Event : f.job = j => (f \in jEvents <=> f \in jEvents \ {e})
        OBVIOUS
      <4> QED BY <4>1, <3>1, <1>2, JobStays
    <3>3. JobOK(e.job, js[e.job], jContainers, jEvents \ {e})
      <4>1. /\ JobOK(e.job, jJobs[e.job], jContainers, jEvents)
            /\ jContainers[e.host][e.job] # "none"
            /\ e.status = "done" => jContainers[e.host][e.job] = "done"
        BY <3>1, <1>1, <1>3 DEF JobOK, Reported
      <4>2. jEvents \ {e} \subseteq jEvents /\
            \A f \in jEvents : f \in jEvents \ {e} \/ (f.job = e.job /\ f.host = jJobs[e.job].host)
        BY <1>5
      <4> QED BY <4>1, <4>2, <2>4, <1>3, <1>5, HeardOK
    <3>4. \A j \in SJobs!Ids : JobOK(j, js[j], jContainers, jEvents')
      BY <3>2, <3>3, <2>1, <2>4
    <3>5. \A j \in SJobs!Ids : js[j].state = "pending" => jJobs[j].state \notin {"none", "stopped"}
      BY <2>4, <1>3, NextStateType
    <3>6. \A h \in Hosts, j \in SJobs!Ids : jContainers'[h][j] =
            IF jJobs[j].state \in {"none", "stopped"} /\ jJobs'[j].state = "pending"
            THEN "none" ELSE jContainers[h][j]
      BY <2>1, ClearedFacts
    <3>7. jEvents' \subseteq SJobs!Event /\ \A f \in jEvents' : f \in jEvents \/ ~SJobs!Forgotten(f.job)
      BY <1>2, <2>1
    <3>8. \A j \in SJobs!Ids : JobOK(j, jJobs'[j], jContainers', jEvents')
      BY <2>3, <2>5, <3>4, <3>5, <3>6, <3>7, <1>2, ReplacedOK
    <3> QED BY <3>1, <3>8
  <2>8. JobsInv'
    BY <2>7, <1>1 DEF JobsInv
  <2> QED BY <2>6, <2>8
<1> QED BY <1>4, <1>5

LEMMA SyncedType ==
  ASSUME JobsTyped, NEW H
  PROVE  /\ SJobs!Synced(H) \in [SJobs!Ids -> JobRecord]
         /\ \A j \in SJobs!Ids : SJobs!Synced(H)[j] =
              IF j \in SJobs!Listed(H)
              THEN [jJobs[j] EXCEPT !.state = SJobs!NextState(@, jContainers[jJobs[j].host][j])]
              ELSE IF j \in SJobs!Inactive(H) THEN [jJobs[j] EXCEPT !.state = "stopped"] ELSE jJobs[j]
         /\ \A j \in SJobs!Listed(H) :
              jContainers[jJobs[j].host][j] \in {"starting", "running"} /\ jJobs[j].host \in H
<1>1. jJobs \in [SJobs!Ids -> JobRecord]
  BY DEF JobsTyped
<1>2. \A j \in SJobs!Listed(H) :
        jContainers[jJobs[j].host][j] \in {"starting", "running"} /\ jJobs[j].host \in H /\ j \in SJobs!Ids
  BY DEF SJobs!Listed, SJobs!Active
<1>3. \A j \in SJobs!Listed(H) :
        [jJobs[j] EXCEPT !.state = SJobs!NextState(@, jContainers[jJobs[j].host][j])] \in JobRecord
  <2> TAKE j \in SJobs!Listed(H)
  <2>1. SJobs!NextState(jJobs[j].state, jContainers[jJobs[j].host][j]) \in JobState
    <3>1. jJobs[j].state \in JobState
      BY <1>1, <1>2 DEF JobRecord
    <3> QED BY <3>1, <1>2, NextStateType
  <2> QED BY <2>1, <1>1, <1>2 DEF JobRecord
<1>4. \A j \in SJobs!Ids : [jJobs[j] EXCEPT !.state = "stopped"] \in JobRecord
  BY <1>1 DEF JobRecord, JobState
<1> QED BY <1>1, <1>2, <1>3, <1>4 DEF SJobs!Synced

LEMMA SyncedOK ==
  ASSUME JobsTyped, NEW j \in SJobs!Ids, JobOK(j, jJobs[j], jContainers, jEvents), jFollowed = Hosts
  PROVE  JobOK(j, SJobs!Synced(Hosts)[j], jContainers, jEvents)
<1>1. jJobs[j] \in JobRecord
  BY DEF JobsTyped
<1>2. CASE j \in SJobs!Listed(Hosts)
  <2>1. SJobs!Synced(Hosts)[j] =
          [jJobs[j] EXCEPT !.state = SJobs!NextState(@, jContainers[jJobs[j].host][j])]
    BY <1>2, SyncedType
  <2>2. jContainers[jJobs[j].host][j] \in {"starting", "running", "done"} \ {"done"} /\ jJobs[j].host \in Hosts
    BY <1>2, SyncedType
  <2>3. jContainers[jJobs[j].host][j] # "none" /\ jContainers[jJobs[j].host][j] # "done"
    BY <2>2
  <2> QED BY <1>1, <2>1, <2>2, <2>3, HeardOK
<1>3. CASE j \in SJobs!Inactive(Hosts) /\ j \notin SJobs!Listed(Hosts)
  <2>1. SJobs!Synced(Hosts)[j] = [jJobs[j] EXCEPT !.state = "stopped"]
    BY <1>3, SyncedType
  <2>2. SJobs!IsRunning(jJobs[j]) /\ ~(jJobs[j].host \in Hosts /\ SJobs!Active(jContainers[jJobs[j].host][j]))
    BY <1>3 DEF SJobs!Inactive, SJobs!Listed
  <2> QED BY <2>1, <2>2, <1>1 DEF JobOK, Adding, Tracked, JobRecord, JobState, SJobs!IsRunning
<1>4. CASE j \notin SJobs!Inactive(Hosts) /\ j \notin SJobs!Listed(Hosts)
  BY <1>4, SyncedType
<1> QED BY <1>2, <1>3, <1>4

LEMMA SyncKeeps ==
  ASSUME JobsTyped, JobsInv, SJobs!SyncJobs PROVE JobsTyped' /\ JobsInv'
<1>1. /\ jFormation' = jFormation /\ jIsLeader' = jIsLeader /\ jPromoting' = FALSE
      /\ jFollowed' = jFollowed /\ jTags' = jTags /\ jReachable' = jReachable /\ jCounts' = jCounts
  BY DEF SJobs!SyncJobs
<1>2. PICK H \in SUBSET (jFollowed \cap jReachable) :
        /\ jFollowed \subseteq jReachable => H = jFollowed
        /\ SJobs!handleJobStatus(SJobs!Synced(H), SJobs!Listed(H) \cup SJobs!Inactive(H))
        /\ jStopping' = IF jFollowed = H THEN jStopping \cup SJobs!Again ELSE jStopping
        /\ jContainers' = [h \in Hosts |-> [j \in SJobs!Ids |->
             IF SJobs!Cleared(jJobs')[h][j] # jContainers[h][j] THEN "none"
             ELSE SJobs!StopContainers(SJobs!Misplaced(H))[h][j]]]
        /\ jEvents' = jEvents \cup SJobs!Report(SJobs!StopContainers(SJobs!Misplaced(H)), jFollowed)
  BY DEF SJobs!SyncJobs
<1> DEFINE cs == SJobs!StopContainers(SJobs!Misplaced(H))
<1>3. /\ SJobs!Synced(H) \in [SJobs!Ids -> JobRecord] /\ jFollowed \subseteq Hosts
      /\ jEvents \subseteq SJobs!Event /\ jJobs \in [SJobs!Ids -> JobRecord]
  BY SyncedType DEF JobsTyped
<1>4. /\ jJobs' \in [SJobs!Ids -> JobRecord] /\ jRectify' \in BOOLEAN
      /\ \A j \in SJobs!Ids : jJobs'[j] = SJobs!Synced(H)[j] \/ (SJobs!Forgotten(j) /\
           jJobs'[j] = Fresh)
  BY <1>2, <1>3, StatusFacts
<1>5. cs \in [Hosts -> [SJobs!Ids -> JobStatus]] /\ Moves(cs)
  BY StopContainersFacts, StopContainersMoves
<1> HIDE DEF cs
<1>6. jStopping' \subseteq SJobs!Ids \X Hosts
  <2>1. SJobs!Again \subseteq SJobs!Ids \X Hosts
    BY <1>3 DEF SJobs!Again
  <2> QED BY <2>1, <1>2 DEF JobsTyped
<1>7. jContainers' \in [Hosts -> [SJobs!Ids -> JobStatus]]
  BY <1>2, <1>5 DEF cs, JobStatus
<1>8. jEvents' \subseteq SJobs!Event
  BY <1>2, <1>3, ReportFacts
<1>9. JobsTyped'
  BY <1>1, <1>4, <1>6, <1>7, <1>8 DEF JobsTyped
<1>10. ASSUME SJobs!Undisturbed'
       PROVE  jFollowed = Hosts /\ jReachable = Hosts /\
                \A j \in SJobs!Ids : JobOK(j, jJobs'[j], jContainers', jEvents')
  <2>1. /\ jFollowed = Hosts /\ jReachable = Hosts /\ H = Hosts
        /\ \A j \in SJobs!Ids : JobOK(j, jJobs[j], jContainers, jEvents)
    BY <1>10, <1>1, <1>2 DEF JobsInv, SJobs!Undisturbed
  <2>2. \A j \in SJobs!Ids : JobOK(j, SJobs!Synced(H)[j], jContainers, jEvents)
    BY <2>1, SyncedOK
  <2>3. \A j \in SJobs!Ids : JobOK(j, SJobs!Synced(H)[j], cs, jEvents')
    BY <2>1, <2>2, <1>2, <1>5, MovesOK DEF cs
  <2>4. \A j \in SJobs!Ids : SJobs!Synced(H)[j].state = "pending" =>
          jJobs[j].state \notin {"none", "stopped"}
    <3> SUFFICES ASSUME NEW j \in SJobs!Ids, SJobs!Synced(H)[j].state = "pending"
                 PROVE  jJobs[j].state = "pending"
      OBVIOUS
    <3>1. jJobs[j] \in JobRecord /\ jJobs[j].state \in JobState
      BY <1>3 DEF JobRecord
    <3>2. j \notin SJobs!Listed(H)
      <4> SUFFICES ASSUME j \in SJobs!Listed(H) PROVE FALSE
        OBVIOUS
      <4>1. jContainers[jJobs[j].host][j] \in {"starting", "running", "done"}
        BY SyncedType
      <4>2. SJobs!Synced(H)[j].state = SJobs!NextState(jJobs[j].state, jContainers[jJobs[j].host][j])
        <5>1. SJobs!Synced(H)[j] =
                [jJobs[j] EXCEPT !.state = SJobs!NextState(@, jContainers[jJobs[j].host][j])]
          BY SyncedType
        <5> QED BY <5>1, <3>1 DEF JobRecord
      <4> QED BY <4>1, <4>2, <3>1, NextStateType
    <3>3. SJobs!Synced(H)[j] = jJobs[j] \/ SJobs!Synced(H)[j] = [jJobs[j] EXCEPT !.state = "stopped"]
      BY <3>2, SyncedType
    <3> QED BY <3>1, <3>3 DEF JobRecord
  <2>5. \A h \in Hosts, j \in SJobs!Ids : jContainers'[h][j] =
          IF jJobs[j].state \in {"none", "stopped"} /\ jJobs'[j].state = "pending"
          THEN "none" ELSE cs[h][j]
    <3> TAKE h \in Hosts, j \in SJobs!Ids
    <3>1. jContainers[h][j] = "none" => cs[h][j] = "none"
      BY <1>5 DEF Moves
    <3>2. jContainers'[h][j] = IF SJobs!Cleared(jJobs')[h][j] # jContainers[h][j] THEN "none"
                          ELSE cs[h][j]
      BY <1>2 DEF cs
    <3>3. SJobs!Cleared(jJobs')[h][j] =
            IF jJobs[j].state \in {"none", "stopped"} /\ jJobs'[j].state = "pending"
            THEN "none" ELSE jContainers[h][j]
      BY ClearedFacts
    <3> QED BY <3>1, <3>2, <3>3
  <2>6. \A e \in jEvents' : e \in jEvents \/ ~SJobs!Forgotten(e.job)
    <3> SUFFICES ASSUME NEW e \in SJobs!Report(cs, jFollowed), SJobs!Forgotten(e.job) PROVE FALSE
      BY <1>2 DEF cs
    <3>1. /\ e.host \in Hosts /\ e.job \in SJobs!Ids
          /\ e.status = cs[e.host][e.job] /\ e.status # jContainers[e.host][e.job]
      <4>1. e \in SJobs!Event
        BY ReportFacts
      <4> QED BY <4>1, ReportFacts DEF SJobs!Event
    <3>2. ~SJobs!Active(jContainers[e.host][e.job])
      BY <3>1, ForgottenFacts
    <3> QED BY <3>1, <3>2, <1>5 DEF Moves, SJobs!Active
  <2>7. \A j \in SJobs!Ids : JobOK(j, jJobs'[j], jContainers', jEvents')
    BY <1>3, <1>4, <1>8, <2>3, <2>4, <2>5, <2>6, ReplacedOK
  <2> QED BY <2>1, <2>7
<1>11. JobsInv'
  BY <1>10, <1>1 DEF JobsInv
<1> QED BY <1>9, <1>11

-----------------------------------------------------------------------------
Unblock(job) == [job EXCEPT !.state = "pending", !.starter = "placing"]

LEMMA UnblockFacts ==
  ASSUME NEW job \in JobRecord
  PROVE  /\ Unblock(job) \in JobRecord
         /\ \A j \in SJobs!Ids : \A C, E :
              JobOK(j, job, C, E) /\ job.state = "blocked" => JobOK(j, Unblock(job), C, E)
<1>1. /\ Unblock(job) \in JobRecord /\ Unblock(job).state = "pending"
      /\ Unblock(job).starter = "placing" /\ Unblock(job).host = job.host
  BY DEF Unblock, JobRecord, JobState
<1> SUFFICES ASSUME NEW j \in SJobs!Ids, NEW C, NEW E, JobOK(j, job, C, E), job.state = "blocked"
             PROVE  JobOK(j, Unblock(job), C, E)
  BY <1>1
<1>2. job.host = NoHost
  BY DEF JobOK
<1> QED BY <1>1, <1>2, NoHostAssumption DEF JobOK, Adding, Tracked

LEMMA HostUpdateKeeps ==
  ASSUME JobsTyped, JobsInv, NEW h \in Hosts, SJobs!HandleHostUpdate(h) PROVE JobsTyped' /\ JobsInv'
<1>1. /\ SJobs!Count("tags") /\ "tags" \in Kinds /\ jRectify' = TRUE
      /\ jFormation' = jFormation /\ jIsLeader' = jIsLeader /\ jPromoting' = jPromoting
      /\ jFollowed' = jFollowed /\ jStopping' = jStopping
      /\ jContainers' = jContainers /\ jEvents' = jEvents /\ jReachable' = jReachable
      /\ jTags' \in {jTags \ {h}, jTags \cup {h}} /\ jJobs' \in {SJobs!Unblocked, jJobs}
  BY DEF SJobs!HandleHostUpdate, SJobs!cluster, Kinds
<1>2. jJobs \in [SJobs!Ids -> JobRecord]
  BY DEF JobsTyped
<1>3. /\ jJobs' \in [SJobs!Ids -> JobRecord]
      /\ \A j \in SJobs!Ids :
           \/ jJobs'[j] = jJobs[j]
           \/ jJobs[j].state = "blocked" /\ jJobs'[j] = Unblock(jJobs[j])
  <2>1. \A j \in SJobs!Ids : Unblock(jJobs[j]) \in JobRecord
    BY <1>2, UnblockFacts
  <2>2. CASE jJobs' = SJobs!Unblocked
    <3>1. jJobs' = [j \in SJobs!Ids |-> IF jJobs[j].state = "blocked"
                      THEN Unblock(jJobs[j]) ELSE jJobs[j]]
      BY <2>2 DEF SJobs!Unblocked, Unblock
    <3>2. \A j \in SJobs!Ids : jJobs'[j] = IF jJobs[j].state = "blocked"
             THEN Unblock(jJobs[j]) ELSE jJobs[j]
      BY <3>1
    <3>3. jJobs' \in [SJobs!Ids -> JobRecord]
      BY <1>2, <2>1, <3>1
    <3> QED BY <3>2, <3>3, Zenon
  <2>3. CASE jJobs' = jJobs
    BY <1>2, <2>3, Zenon
  <2>4. jJobs' = SJobs!Unblocked \/ jJobs' = jJobs
    BY <1>1
  <2> QED BY <2>2, <2>3, <2>4, Zenon
<1>4. JobsTyped'
  BY <1>1, <1>3, CountKeeps DEF JobsTyped
<1>5. JobsInv'
  <2> SUFFICES ASSUME SJobs!Undisturbed'
               PROVE  jFollowed = Hosts /\ jReachable = Hosts /\
                      \A j \in SJobs!Ids : JobOK(j, jJobs'[j], jContainers, jEvents)
    BY <1>1 DEF JobsInv
  <2>1. jFollowed = Hosts /\ jReachable = Hosts /\
          \A j \in SJobs!Ids : JobOK(j, jJobs[j], jContainers, jEvents)
    BY <1>1, CountKeeps DEF JobsInv
  <2>2. ASSUME NEW j \in SJobs!Ids PROVE JobOK(j, jJobs'[j], jContainers, jEvents)
    <3>1. jJobs[j] \in JobRecord /\ JobOK(j, jJobs[j], jContainers, jEvents)
      BY <1>2, <2>1
    <3>2. CASE jJobs'[j] = jJobs[j]
      BY <3>1, <3>2
    <3>3. CASE jJobs[j].state = "blocked" /\ jJobs'[j] = Unblock(jJobs[j])
      BY <3>1, <3>3, UnblockFacts
    <3> QED BY <1>3, <3>2, <3>3
  <2> QED BY <2>1, <2>2
<1> QED BY <1>4, <1>5

LEMMA UnfollowKeeps ==
  ASSUME JobsTyped, JobsInv, NEW h \in Hosts, SJobs!unfollowHost(h) PROVE JobsTyped' /\ JobsInv'
<1> DEFINE here == {j \in SJobs!Ids : jJobs[j].host = h /\ jJobs[j].state \notin {"none", "stopped"}}
           js == [j \in SJobs!Ids |-> IF j \in here THEN [jJobs[j] EXCEPT !.state = "stopped"]
                           ELSE jJobs[j]]
<1>1. /\ h \in jFollowed \ jReachable /\ jFollowed' = jFollowed \ {h} /\ SJobs!handleJobStatus(js, here)
      /\ jContainers' = SJobs!Cleared(jJobs')
      /\ jFormation' = jFormation /\ jIsLeader' = jIsLeader /\ jPromoting' = jPromoting /\ jTags' = jTags
      /\ jStopping' = jStopping /\ jEvents' = jEvents /\ jReachable' = jReachable /\ jCounts' = jCounts
  BY DEF SJobs!unfollowHost
<1>2. js \in [SJobs!Ids -> JobRecord]
  BY DEF JobsTyped, JobRecord, JobState
<1> HIDE DEF js, here
<1>3. JobsTyped'
  BY <1>1, <1>2, StatusFacts, ClearedFacts DEF JobsTyped
<1>4. JobsInv'
  BY <1>1 DEF JobsInv, SJobs!Undisturbed
<1> QED BY <1>3, <1>4

LEMMA FollowKeeps ==
  ASSUME JobsTyped, JobsInv, NEW h \in Hosts, SJobs!followHost(h) PROVE JobsTyped' /\ JobsInv'
<1> DEFINE here == {j \in SJobs!Ids : jJobs[j].host = h /\ jContainers[h][j] # "none"}
           ks == [j \in SJobs!Ids |-> IF j \in here
                    THEN [jJobs[j] EXCEPT !.state = SJobs!NextState(@, jContainers[h][j])]
                                    ELSE jJobs[j]]
           blocked == {j \in SJobs!Ids : ks[j].state = "blocked" /\ h \in jTags}
           js == [j \in SJobs!Ids |-> IF j \in blocked
                    THEN [ks[j] EXCEPT !.state = "pending", !.starter = "placing"] ELSE ks[j]]
           cs == SJobs!StopContainers(SJobs!Misplaced({h}))
<1>1. /\ h \in jReachable \ jFollowed /\ jFollowed' = jFollowed \cup {h} /\ SJobs!handleJobStatus(js, here)
      /\ jContainers' = [g \in Hosts |-> [j \in SJobs!Ids |->
           IF SJobs!Cleared(jJobs')[g][j] # jContainers[g][j] THEN "none" ELSE cs[g][j]]]
      /\ jEvents' = jEvents \cup SJobs!Report(cs, jFollowed')
      /\ jFormation' = jFormation /\ jIsLeader' = jIsLeader /\ jPromoting' = jPromoting /\ jTags' = jTags
      /\ jStopping' = jStopping /\ jReachable' = jReachable /\ jCounts' = jCounts
  BY DEF SJobs!followHost
<1>2. jJobs \in [SJobs!Ids -> JobRecord] /\ jContainers \in [Hosts -> [SJobs!Ids -> JobStatus]]
  BY DEF JobsTyped
<1>3. ks \in [SJobs!Ids -> JobRecord]
  <2>1. ASSUME NEW j \in here PROVE SJobs!NextState(jJobs[j].state, jContainers[h][j]) \in JobState
    <3>1. jJobs[j].state \in JobState /\ jContainers[h][j] \in {"starting", "running", "done"}
      BY <1>2 DEF JobRecord, JobStatus
    <3> QED BY <3>1, NextStateType
  <2> QED BY <2>1, <1>2 DEF JobRecord
<1> HIDE DEF here, ks
<1>4. js \in [SJobs!Ids -> JobRecord]
  BY <1>3 DEF JobRecord, JobState
<1> HIDE DEF js, cs
<1>5. jJobs' \in [SJobs!Ids -> JobRecord] /\ jRectify' \in BOOLEAN
  BY <1>1, <1>4, StatusFacts
<1>6. jContainers' \in [Hosts -> [SJobs!Ids -> JobStatus]]
  <2>1. cs \in [Hosts -> [SJobs!Ids -> JobStatus]]
    BY StopContainersFacts DEF cs
  <2> QED BY <2>1, <1>1 DEF JobStatus
<1>7. JobsTyped'
  BY <1>1, <1>5, <1>6, ReportFacts DEF JobsTyped
<1>8. JobsInv'
  BY <1>1 DEF JobsInv, SJobs!Undisturbed
<1> QED BY <1>7, <1>8

(* What the invariant does not survive is counted. *)
LEMMA DisturbedKeeps ==
  ASSUME JobsTyped, NEW k \in {"lost", "downs"}, SJobs!Count(k),
         UNCHANGED <<jFormation, jJobs, jIsLeader, jPromoting, jRectify, jFollowed, jTags,
                     jStopping, jContainers>>,
         jEvents' \subseteq jEvents, jReachable' \subseteq jReachable
  PROVE  JobsTyped' /\ JobsInv'
<1>1. k \in Kinds /\ jCounts \in [Kinds -> Nat]
  BY DEF Kinds, JobsTyped
<1>2. jCounts' \in [Kinds -> Nat] /\ jCounts'[k] = jCounts[k] + 1
  BY <1>1 DEF SJobs!Count
<1>3. jCounts'[k] # 0
  BY <1>1, <1>2
<1>4. ~SJobs!Undisturbed'
  BY <1>3 DEF SJobs!Undisturbed
<1>5. JobsTyped'
  BY <1>2 DEF JobsTyped
<1> QED BY <1>4, <1>5 DEF JobsInv

LEMMA UpKeeps ==
  ASSUME JobsTyped, JobsInv, NEW h \in Hosts, SJobs!HostUp(h) PROVE JobsTyped' /\ JobsInv'
<1>1. JobsTyped'
  BY DEF SJobs!HostUp, SJobs!sched, JobsTyped
<1>2. JobsInv'
  BY DEF SJobs!HostUp, SJobs!sched, JobsInv, SJobs!Undisturbed
<1> QED BY <1>1, <1>2

LEMMA JobsNext ==
  ASSUME JobsTyped, JobsInv, [SJobs!Next]_(SJobs!vars) PROVE JobsTyped' /\ JobsInv'
<1>1. CASE SJobs!HandleFormationChange BY <1>1, FormationKeeps
<1>2. CASE SJobs!HandleRectify BY <1>2, RectifyKeeps
<1>3. CASE SJobs!SyncJobs BY <1>3, SyncKeeps
<1>4. CASE SJobs!HandleLeaderChange BY <1>4, LeaderKeeps
<1>5. ASSUME NEW j \in SJobs!Ids, SJobs!HandlePlacementRequest(j) \/ SJobs!StartJob(j)
      PROVE  JobsTyped' /\ JobsInv'
  BY <1>5, PlacementKeeps, StartKeeps
<1>6. ASSUME NEW e \in jEvents, SJobs!HandleJobEvent(e) PROVE JobsTyped' /\ JobsInv'
  BY <1>6, JobEventKeeps
<1>7. ASSUME NEW e \in jEvents, SJobs!EventLost(e) PROVE JobsTyped' /\ JobsInv'
  <2>1. /\ SJobs!Count("lost") /\ jEvents' = jEvents \ {e} /\ jReachable' = jReachable
        /\ UNCHANGED <<jFormation, jJobs, jIsLeader, jPromoting, jRectify, jFollowed, jTags,
                       jStopping, jContainers>>
    BY <1>7 DEF SJobs!EventLost, SJobs!sched
  <2> QED BY <2>1, DisturbedKeeps
<1>8. ASSUME NEW r \in jStopping, SJobs!StopJob(r) PROVE JobsTyped' /\ JobsInv'
  BY <1>8, StopKeeps
<1>9. ASSUME NEW h \in Hosts,
             SJobs!HandleHostUpdate(h) \/ SJobs!unfollowHost(h) \/
               SJobs!followHost(h) \/ SJobs!HostUp(h)
      PROVE  JobsTyped' /\ JobsInv'
  BY <1>9, HostUpdateKeeps, UnfollowKeeps, FollowKeeps, UpKeeps
<1>10. ASSUME NEW h \in Hosts, SJobs!HostDown(h) PROVE JobsTyped' /\ JobsInv'
  <2>1. /\ SJobs!Count("downs") /\ jReachable' = jReachable \ {h} /\ jEvents' = jEvents
        /\ UNCHANGED <<jFormation, jJobs, jIsLeader, jPromoting, jRectify, jFollowed, jTags,
                       jStopping, jContainers>>
    BY <1>10 DEF SJobs!HostDown, SJobs!sched
  <2> QED BY <2>1, DisturbedKeeps
<1>11. ASSUME NEW h \in Hosts, NEW j \in SJobs!Ids,
              SJobs!SetStatusRunning(h, j) \/ SJobs!SetStatusDone(h, j)
       PROVE  JobsTyped' /\ JobsInv'
  BY <1>11, RunningKeeps, DoneKeeps
<1>12. CASE UNCHANGED SJobs!vars
  BY <1>12 DEF SJobs!vars, SJobs!sched, SJobs!cluster, JobsTyped, JobsInv, SJobs!Undisturbed
<1> QED BY <1>1, <1>2, <1>3, <1>4, <1>5, <1>6, <1>7, <1>8, <1>9, <1>10, <1>11, <1>12 DEF SJobs!Next

(* No container is left behind, whatever the size of the formation, the    *)
(* number of hosts and how often AddJob and StopJob fail, containers exit, *)
(* tags or the leadership change and events overtake each other: while no  *)
(* event is lost, every host answers and handleActiveJob could stop what   *)
(* runs on the wrong host, each container is counted, being stopped or     *)
(* about to be heard of.                                                   *)
THEOREM NoContainerLeftBehind == SJobs!Spec => []NoStray
<1>1. SJobs!Init => JobsTyped /\ JobsInv
  BY JobsInit
<1>2. JobsTyped /\ JobsInv /\ [SJobs!Next]_(SJobs!vars) => JobsTyped' /\ JobsInv'
  BY JobsNext
<1>3. JobsTyped /\ JobsInv => NoStray
  BY JobsTypes DEF JobsInv, JobOK, Tracked, NoStray, SJobs!NoStray
<1> QED BY <1>1, <1>2, <1>3, PTL DEF SJobs!Spec

-----------------------------------------------------------------------------
(* Deployments.  Their types. *)
DRec == [pc : {"idle", "scale", "wait", "release", "failed", "restoring", "skipped"},
         j : Nat, i : Nat, dir : {"up", "down", "all"}, original : [Deploy!TypeSet -> Nat]]

(* What is assumed of a deployment that may be asked for. *)
LEMMA DeployConstants ==
  ASSUME wDeployment \in Deployments
  PROVE  /\ Processes \in [Deploy!TypeSet -> Nat]
         /\ wDeployment.strategy \in Deploy!Strategies
         /\ wDeployment.kept \subseteq Deploy!TypeSet
         /\ wDeployment.bad \subseteq Deploy!TypeSet
         /\ Deploy!BatchSize \in Nat
  BY DeploymentAssumption DEF Deploy!BatchSize

(* Where DeployJob goes after a request. *)
LEMMA DeployAdvanced ==
  ASSUME wDeployment \in Deployments, wD \in DRec
  PROVE  /\ Deploy!Advanced(wD) \in DRec
         /\ Deploy!Advanced(wD).pc = wD.pc /\ Deploy!Advanced(wD).j = wD.j
         /\ Deploy!Advanced(wD).original = wD.original
         /\ wDeployment.strategy = "all-at-once" => Deploy!Advanced(wD).dir = "down"
         /\ wDeployment.strategy # "all-at-once" =>
              Deploy!Advanced(wD).dir = IF wDeployment.strategy = "one-down-one-up"
                                        THEN IF wD.dir = "down" THEN "up" ELSE "down"
                                        ELSE IF wD.dir = "up" THEN "down" ELSE "up"
  <1>1. Deploy!BatchSize \in Nat
    BY DeployConstants
  <1>2. CASE wDeployment.strategy = "all-at-once"
    BY <1>2 DEF DRec, Deploy!Advanced
  <1>3. CASE wDeployment.strategy = "one-down-one-up"
    <2> DEFINE e == [wD EXCEPT !.dir = "down"]
    <2>1. /\ wD.dir = "down" => Deploy!Advanced(wD) = [wD EXCEPT !.dir = "up"]
          /\ wD.dir # "down" => Deploy!Advanced(wD) = [e EXCEPT !.i = wD.i + 1]
      BY <1>3 DEF Deploy!Advanced, Deploy!scaleOneDownOneUp
    <2>2. /\ e \in DRec /\ e.pc = wD.pc /\ e.j = wD.j /\ e.original = wD.original
          /\ e.dir = "down"
      BY DEF DRec
    <2>3. wD.i + 1 \in Nat
      BY DEF DRec
    <2> HIDE DEF e
    <2> QED
      BY <1>3, <2>1, <2>2, <2>3 DEF DRec
  <1>4. CASE wDeployment.strategy \notin {"all-at-once", "one-down-one-up"}
    <2> DEFINE e == [wD EXCEPT !.dir = "up"]
    <2>1. /\ wD.dir = "up" => Deploy!Advanced(wD) = [wD EXCEPT !.dir = "down"]
          /\ wD.dir # "up" => Deploy!Advanced(wD) = [e EXCEPT !.i = wD.i + Deploy!BatchSize]
      BY <1>4 DEF Deploy!Advanced, Deploy!scaleUpDownInBatches
    <2>2. /\ e \in DRec /\ e.pc = wD.pc /\ e.j = wD.j /\ e.original = wD.original
          /\ e.dir = "up"
      BY DEF DRec
    <2>3. wD.i + Deploy!BatchSize \in Nat
      BY <1>1 DEF DRec
    <2> HIDE DEF e
    <2> QED
      BY <1>4, <2>1, <2>2, <2>3 DEF DRec
  <1> QED
    BY <1>2, <1>3, <1>4

LEMMA DeployTypesInit == ASSUME Deploy!Init PROVE Deploy!TypeOK
  <1> USE DEF Deploy!Init
  <1>1. Processes \in [Deploy!TypeSet -> Nat]
    BY DeployConstants
  <1>2. Deploy!Within(Processes) /\ Deploy!Within(Deploy!Zero)
    BY <1>1 DEF Deploy!Within, Deploy!Zero
  <1>3. Deploy!Zero \in [Deploy!TypeSet -> Nat]
    BY DEF Deploy!Zero
  <1> QED
    BY <1>2, <1>3 DEF Deploy!TypeOK

(* The current type is one of the old release. *)
LEMMA DeployType ==
  ASSUME wD.j \in 1..Len(ProcessTypes)
  PROVE  Deploy!Type \in Deploy!TypeSet
  BY DEF Deploy!Type, Deploy!TypeSet

LEMMA DeployTypesNext ==
  ASSUME Deploy!TypeOK, wD.j >= 1, Deploy!Next
  PROVE  Deploy!TypeOK' /\ wD'.j >= 1
  <1>c. /\ Processes \in [Deploy!TypeSet -> Nat] /\ wDeployment \in Deployments
        /\ Deploy!BatchSize \in Nat
    BY DeployConstants DEF Deploy!TypeOK
  <1>d. wD \in DRec /\ wD.j >= 1
    BY DEF Deploy!TypeOK, DRec
  <1>z. Deploy!Within(Processes) /\ Deploy!Within(Deploy!Zero)
    BY <1>c DEF Deploy!Within, Deploy!Zero
  <1>u. SUFFICES /\ wDeployment' = wDeployment
                 /\ Deploy!Within(wOldFormation') /\ Deploy!Within(wNewFormation')
                 /\ Deploy!Within(wOldJobs') /\ Deploy!Within(wNewJobs')
                 /\ wRecord' \in [finished : BOOLEAN, event : {"pending", "complete", "failed"},
                                  release : {"old", "new"}, created : BOOLEAN]
                 /\ wJob' \in {"queued", "working", "done"}
                 /\ wD' \in DRec /\ wD'.j >= 1 /\ Deploy!Within(wD'.original)
                 /\ wCount' \in [stops : Nat, errors : Nat, timeouts : Nat, halfway : Nat,
                                 misread : BOOLEAN]
    BY <1>c DEF Deploy!TypeOK, Deploy!Within, DRec
  <1> USE DEF Deploy!TypeOK
  <1>1. CASE Deploy!Perform
    <2>1. Deploy!First \in {"up", "down", "all"}
      BY DEF Deploy!First
    <2>2. wD' \in DRec /\ wD'.j >= 1 /\ wD'.original = wOldFormation
      BY <1>1, <2>1 DEF Deploy!Perform, DRec, Deploy!Within
    <2>3. wCount' \in [stops : Nat, errors : Nat, timeouts : Nat, halfway : Nat,
                       misread : BOOLEAN]
      <3> DEFINE h == IF Deploy!Halfway THEN wCount.halfway + 1 ELSE wCount.halfway
                 r == wCount.misread \/ Deploy!Misread
      <3>1. wCount' = [[wCount EXCEPT !.halfway = h] EXCEPT !.misread = r]
        BY <1>1 DEF Deploy!Perform
      <3>2. h \in Nat /\ r \in BOOLEAN
        OBVIOUS
      <3> HIDE DEF h, r
      <3> QED
        BY <3>1, <3>2
    <2> QED
      BY <1>1, <2>2, <2>3 DEF Deploy!Perform
  <1>2. CASE Deploy!NextType
    <2> DEFINE e == [wD EXCEPT !.j = wD.j + 1]
    <2>1. wD' = [e EXCEPT !.i = 0]
      BY <1>2 DEF Deploy!NextType
    <2>2. e \in DRec /\ e.j >= 1 /\ e.original = wD.original
      BY <1>d DEF DRec
    <2> HIDE DEF e
    <2>3. wD' \in DRec /\ wD'.j >= 1 /\ wD'.original = wD.original
      BY <2>1, <2>2 DEF DRec
    <2> QED
      BY <1>2, <2>3 DEF Deploy!NextType
  <1>3. CASE Deploy!scaleEnd
    BY <1>3, <1>d DEF Deploy!scaleEnd, DRec
  <1>4. CASE Deploy!scaleNewFormationUp
    <2>1. Deploy!Type \in Deploy!TypeSet
      BY <1>4, <1>d, DeployType, DeploymentAssumption DEF Deploy!scaleNewFormationUp, Deploy!UpAsks, Deploy!InBody, DRec
    <2>2. Deploy!Within(wNewFormation')
      <3> DEFINE t == Deploy!Type
                 n == IF wNewFormation[t] + Deploy!BatchSize > Processes[t] THEN Processes[t]
                      ELSE wNewFormation[t] + Deploy!BatchSize
      <3>1. wNewFormation' = [wNewFormation EXCEPT ![t] = n]
        BY <1>4 DEF Deploy!scaleNewFormationUp
      <3>2. n \in Nat /\ n <= Processes[t]
        BY <1>c, <2>1 DEF Deploy!Within
      <3> HIDE DEF n, t
      <3> QED
        BY <1>c, <2>1, <3>1, <3>2 DEF Deploy!Within
    <2> QED
      BY <1>4, <1>d, <2>2 DEF Deploy!scaleNewFormationUp, DRec
  <1>5. CASE Deploy!scaleOldFormationDown
    <2>1. Deploy!Type \in Deploy!TypeSet
      BY <1>5, <1>d, DeployType, DeploymentAssumption DEF Deploy!scaleOldFormationDown, Deploy!DownAsks, Deploy!InBody, DRec
    <2>2. Deploy!Within(wOldFormation')
      <3> DEFINE t == Deploy!Type
                 n == IF wOldFormation[t] < Deploy!BatchSize THEN 0
                      ELSE wOldFormation[t] - Deploy!BatchSize
      <3>1. wOldFormation' = [wOldFormation EXCEPT ![t] = n]
        BY <1>5 DEF Deploy!scaleOldFormationDown
      <3>2. n \in Nat /\ n <= Processes[t]
        BY <1>c, <2>1 DEF Deploy!Within
      <3> HIDE DEF n, t
      <3> QED
        BY <1>c, <2>1, <3>1, <3>2 DEF Deploy!Within
    <2> QED
      BY <1>5, <1>d, <2>2 DEF Deploy!scaleOldFormationDown, DRec
  <1>6. CASE Deploy!scaleNothing
    BY <1>6, <1>c, <1>d, DeployAdvanced DEF Deploy!scaleNothing
  <1>7. CASE Deploy!deployAllAtOnce
    <2>1. Deploy!Within(wNewFormation') /\ Deploy!Within(wOldFormation')
      BY <1>7, <1>c, <1>z DEF Deploy!deployAllAtOnce, Deploy!Within
    <2> QED
      BY <1>7, <1>d, <2>1 DEF Deploy!deployAllAtOnce, DRec
  <1>8. CASE Deploy!scaleComplete
    <2> DEFINE a == Deploy!Advanced(wD)
    <2>1. a \in DRec /\ a.j = wD.j /\ a.original = wD.original
      BY <1>c, <1>d, DeployAdvanced
    <2>2. wD' = [a EXCEPT !.pc = "scale"]
      BY <1>8 DEF Deploy!scaleComplete
    <2> HIDE DEF a
    <2>3. wD' \in DRec /\ wD'.j >= 1 /\ wD'.original = wD.original
      BY <1>d, <2>1, <2>2 DEF DRec
    <2> QED
      BY <1>8, <2>3 DEF Deploy!scaleComplete
  <1>9. CASE Deploy!newJobsFail
    BY <1>9, <1>d DEF Deploy!newJobsFail, DRec
  <1>10. CASE Deploy!SetAppRelease
    BY <1>10, <1>d DEF Deploy!SetAppRelease, DRec
  <1>11. CASE Deploy!rollback
    BY <1>11, <1>d DEF Deploy!rollback, DRec
  <1>12. CASE Deploy!DeleteFormation
    BY <1>12, <1>d, <1>z DEF Deploy!DeleteFormation, Deploy!Failed, DRec
  <1>13. CASE Deploy!skipRollback
    BY <1>13, <1>d DEF Deploy!skipRollback, DRec
  <1>14. CASE Deploy!scaleTimeout
    <2>1. wD' \in DRec /\ wD'.j = wD.j /\ wD'.original = wD.original
      BY <1>14, <1>d DEF Deploy!scaleTimeout, DRec
    <2> QED
      BY <1>14, <1>d, <2>1 DEF Deploy!scaleTimeout
  <1>15. CASE Deploy!requestFails
    <2>1. wD' \in DRec /\ wD'.j = wD.j /\ wD'.original = wD.original
      BY <1>15, <1>d DEF Deploy!requestFails, DRec
    <2> QED
      BY <1>15, <1>d, <2>1 DEF Deploy!requestFails
  <1>16. CASE Deploy!stopped
    <2>1. wD' \in DRec /\ wD'.j = wD.j /\ wD'.original = wD.original
      BY <1>16, <1>d DEF Deploy!stopped, DRec
    <2> QED
      BY <1>16, <1>d, <2>1 DEF Deploy!stopped
  <1>17. CASE Deploy!ScheduleJob
    <2>1. Deploy!Within(wOldJobs') /\ Deploy!Within(wNewJobs')
      BY <1>17, <1>c DEF Deploy!ScheduleJob, Deploy!Within
    <2> QED
      BY <1>17, <1>d, <2>1 DEF Deploy!ScheduleJob
  <1>18. CASE Deploy!NothingToDelete
    BY <1>18, <1>d DEF Deploy!NothingToDelete, Deploy!Failed, DRec
  <1>19. CASE Deploy!rollbackFails
    <2>1. wD' \in DRec /\ wD'.j = wD.j /\ wD'.original = wD.original
      BY <1>19, <1>d DEF Deploy!rollbackFails, Deploy!Failed, DRec
    <2>2. wCount' \in [stops : Nat, errors : Nat, timeouts : Nat, halfway : Nat, misread : BOOLEAN]
      BY <1>19 DEF Deploy!rollbackFails
    <2>3. wRecord' \in [finished : BOOLEAN, event : {"pending", "complete", "failed"},
                        release : {"old", "new"}, created : BOOLEAN]
      BY <1>19 DEF Deploy!rollbackFails
    <2> QED
      BY <1>19, <1>d, <2>1, <2>2, <2>3 DEF Deploy!rollbackFails, Deploy!Failed
  <1> QED
    BY <1>1, <1>2, <1>3, <1>4, <1>5, <1>6, <1>7, <1>8, <1>9, <1>10, <1>11, <1>12, <1>13, <1>14,
       <1>15, <1>16, <1>17, <1>18, <1>19 DEF Deploy!Next, Deploy!Worker

-----------------------------------------------------------------------------
(* Deployments: no capacity is taken away. *)

(* What holds of a deployment that no worker took up halfway.  Either the  *)
(* new jobs are at most those asked for and make up, with the old          *)
(* formation, for what there was, or the rollback is complete.             *)
DMadeUp ==
  /\ \A t \in wDeployment.kept : wNewJobs[t] <= wNewFormation[t]
  /\ \A t \in wDeployment.kept : wOldFormation[t] + wNewJobs[t] >= Processes[t] - Deploy!Slack
DRolledBack == wJob = "done" /\ wOldFormation = Processes /\ wOldJobs = Processes
DEnough == \A t \in wDeployment.kept : wOldJobs[t] + wNewJobs[t] >= Processes[t] - Deploy!Slack

(* The jobs asked for before a request are up when it is made, and a       *)
(* rollback restores the formation of the beginning.                       *)
DWorker ==
  /\ wD.pc # "idle" => wJob = "working" /\ wD.original = Processes
  /\ wD.pc = "scale" \/ (wD.pc = "wait" /\ wD.dir = "down") => wNewJobs = wNewFormation
  /\ wD.pc = "restoring" => wOldFormation = Processes

(* Where a strategy is in its loop says what the two formations add up to. *)
DAsked(t, n) == wOldFormation[t] + wNewFormation[t] >= Processes[t] + n
DAll ==
  /\ wD.dir = "all" => wOldFormation = Processes
  /\ wD.dir # "all" \/ wD.pc = "wait" =>
       \A t \in wDeployment.kept : wNewFormation[t] = Processes[t]
DUpDown ==
  /\ wD.dir \in {"up", "down"}
  /\ (wD.pc = "scale") = (wD.dir = "down") =>
       (Deploy!Type \in wDeployment.kept =>
          \/ wNewFormation[Deploy!Type] = Processes[Deploy!Type]
          \/ DAsked(Deploy!Type, Deploy!BatchSize))
DDownUp ==
  /\ wD.dir \in {"up", "down"}
  /\ \A t \in wDeployment.kept :
       \/ DAsked(t, 0)
       \/ /\ t = Deploy!Type /\ (wD.pc = "scale") = (wD.dir = "up") /\ DAsked(t, -1)
DLoop ==
  wD.pc \in {"scale", "wait"} =>
    CASE wDeployment.strategy = "all-at-once"     -> DAll
      [] wDeployment.strategy = "one-down-one-up" -> DDownUp
      [] OTHER                                    -> DUpDown

DCore == (DMadeUp \/ DRolledBack) /\ DEnough /\ DWorker /\ DLoop
DInv == Deploy!TypeOK /\ wD.j >= 1 /\ (wCount.halfway = 0 => DCore)

LEMMA DeployCoreInit == ASSUME Deploy!Init PROVE DCore /\ wD.j >= 1
  <1> USE DEF Deploy!Init
  <1>1. Processes \in [Deploy!TypeSet -> Nat] /\ wDeployment.kept \subseteq Deploy!TypeSet
    BY DeployConstants
  <1>2. Deploy!Slack \in {0, 1}
    BY DEF Deploy!Slack
  <1>3. DMadeUp
    BY <1>1, <1>2 DEF DMadeUp, Deploy!Zero
  <1>4. DEnough
    BY <1>1, <1>2 DEF DEnough, Deploy!Zero
  <1> QED
    BY <1>3, <1>4 DEF DCore, DWorker, DLoop

(* A step that leaves formations and jobs alone keeps what they add up to. *)
LEMMA DeploySums ==
  ASSUME DCore, wJob' = wJob \/ wJob # "done",
         UNCHANGED <<wDeployment, wOldFormation, wNewFormation, wOldJobs, wNewJobs>>
  PROVE  DMadeUp' \/ DRolledBack'
  <1>1. CASE DMadeUp
    BY <1>1 DEF DMadeUp, Deploy!Slack
  <1>2. CASE DRolledBack
    BY <1>2 DEF DRolledBack
  <1> QED
    BY <1>1, <1>2 DEF DCore

LEMMA DeployEnough ==
  ASSUME DCore, UNCHANGED <<wDeployment, wOldJobs, wNewJobs>>
  PROVE  DEnough'
  BY DEF DCore, DEnough, Deploy!Slack

(* The worker's steps outside the loop. *)
LEMMA DeployPerform ==
  ASSUME Deploy!TypeOK, DCore, Deploy!Perform, wCount'.halfway = 0, wCount.halfway = 0
  PROVE  DCore'
  <1> USE DEF Deploy!Perform
  <1>1. /\ Processes \in [Deploy!TypeSet -> Nat] /\ wDeployment \in Deployments
        /\ wDeployment.kept \subseteq Deploy!TypeSet
    BY DeployConstants DEF Deploy!TypeOK
  <1>2. wOldFormation = Processes /\ wNewJobs = wNewFormation
    <2>1. SUFFICES ASSUME Deploy!Halfway PROVE FALSE
      BY DEF Deploy!Halfway
    <2>2. wCount'.halfway = wCount.halfway + 1
      BY <2>1 DEF Deploy!TypeOK
    <2> QED
      BY <2>2 DEF Deploy!TypeOK
  <1>3. (DMadeUp' \/ DRolledBack') /\ DEnough'
    BY DeploySums, DeployEnough
  <1>4. /\ wD'.dir = Deploy!First /\ wD'.original = Processes
        /\ wD'.pc \in {"release", "scale"}
    BY <1>2
  <1>5. DWorker'
    BY <1>2, <1>4 DEF DWorker
  <1>6. DLoop'
    <2>1. CASE wDeployment.strategy = "all-at-once"
      BY <1>2, <1>4, <2>1 DEF DLoop, DAll, Deploy!First
    <2>2. CASE wDeployment.strategy = "one-down-one-up"
      <3>1. wD'.dir = "down"
        BY <1>4, <2>2 DEF Deploy!First
      <3>2. \A t \in wDeployment.kept : DAsked(t, 0)'
        BY <1>1, <1>2 DEF DAsked, Deploy!TypeOK, Deploy!Within
      <3> QED
        BY <2>2, <3>1, <3>2 DEF DLoop, DDownUp
    <2>3. CASE wDeployment.strategy \notin {"all-at-once", "one-down-one-up"}
      <3>1. wD'.dir = "up"
        BY <1>4, <2>3 DEF Deploy!First
      <3>2. wD'.pc \in {"scale", "wait"} => DUpDown'
        BY <1>4, <3>1 DEF DUpDown
      <3> QED
        BY <2>3, <3>2 DEF DLoop
    <2> QED
      BY <2>1, <2>2, <2>3
  <1> QED
    BY <1>3, <1>5, <1>6 DEF DCore

LEMMA DeployOutside ==
  ASSUME Deploy!TypeOK, DCore,
         \/ Deploy!scaleEnd \/ Deploy!newJobsFail \/ Deploy!scaleTimeout \/ Deploy!requestFails
         \/ Deploy!stopped \/ Deploy!SetAppRelease \/ Deploy!skipRollback
         \/ Deploy!NothingToDelete \/ Deploy!rollbackFails
  PROVE  DCore'
  <1>0. wD.pc # "idle"
    BY DEF Deploy!scaleEnd, Deploy!newJobsFail, Deploy!scaleTimeout, Deploy!requestFails,
           Deploy!stopped, Deploy!SetAppRelease, Deploy!skipRollback, Deploy!UpAsks,
           Deploy!NothingToDelete, Deploy!rollbackFails, Deploy!Failed, Deploy!Restored,
           Deploy!DownAsks, Deploy!InBody
  <1>1. wJob = "working" /\ wD.original = Processes
    BY <1>0 DEF DCore, DWorker
  <1>2. UNCHANGED <<wDeployment, wOldFormation, wNewFormation, wOldJobs, wNewJobs>>
    BY DEF Deploy!scaleEnd, Deploy!newJobsFail, Deploy!scaleTimeout, Deploy!requestFails,
           Deploy!stopped, Deploy!SetAppRelease, Deploy!skipRollback, Deploy!NothingToDelete,
           Deploy!rollbackFails, Deploy!Failed
  <1>3. (DMadeUp' \/ DRolledBack') /\ DEnough'
    BY <1>1, <1>2, DeploySums, DeployEnough
  <1>4. \E p \in {"idle", "release", "failed", "skipped"} :
          wD' = [wD EXCEPT !.pc = p] /\ (p # "idle" => wJob' = wJob)
    BY DEF Deploy!scaleEnd, Deploy!newJobsFail, Deploy!scaleTimeout, Deploy!requestFails,
           Deploy!stopped, Deploy!SetAppRelease, Deploy!skipRollback, Deploy!NothingToDelete,
           Deploy!rollbackFails, Deploy!Failed
  <1>5. /\ wD'.pc \in {"idle", "release", "failed", "skipped"} /\ wD'.original = wD.original
        /\ wD'.pc # "idle" => wJob' = wJob
    BY <1>4 DEF Deploy!TypeOK
  <1>6. DWorker' /\ DLoop'
    BY <1>1, <1>5 DEF DWorker, DLoop
  <1> QED
    BY <1>3, <1>6 DEF DCore

(* The rollback restores the formation of the beginning, and the new one   *)
(* is deleted once the old jobs are all there.                             *)
LEMMA DeployRollback ==
  ASSUME Deploy!TypeOK, DCore, Deploy!rollback
  PROVE  DCore'
  <1> USE DEF Deploy!rollback
  <1>1. wJob = "working" /\ wD.original = Processes
    BY DEF DCore, DWorker
  <1>2. /\ Processes \in [Deploy!TypeSet -> Nat] /\ wDeployment.kept \subseteq Deploy!TypeSet
        /\ Deploy!Slack \in {0, 1} /\ Deploy!Slack' = Deploy!Slack
    BY DeployConstants DEF Deploy!TypeOK, Deploy!Slack
  <1>3. DMadeUp'
    <2>1. DMadeUp
      BY <1>1 DEF DCore, DRolledBack
    <2> QED
      BY <1>1, <1>2, <2>1 DEF DMadeUp, Deploy!TypeOK, Deploy!Within
  <1>4. DEnough'
    BY DeployEnough
  <1>5. wD'.pc = "restoring" /\ wD'.original = wD.original
    BY DEF Deploy!TypeOK
  <1>6. DWorker' /\ DLoop'
    BY <1>1, <1>5 DEF DWorker, DLoop
  <1> QED
    BY <1>3, <1>4, <1>6 DEF DCore

LEMMA DeployDelete ==
  ASSUME Deploy!TypeOK, DCore, Deploy!DeleteFormation
  PROVE  DCore'
  <1> USE DEF Deploy!DeleteFormation, Deploy!Failed, Deploy!Restored
  <1>1. wOldFormation = Processes
    BY DEF DCore, DWorker
  <1>2. DRolledBack'
    BY <1>1 DEF DRolledBack
  <1>3. DEnough'
    BY DeployEnough
  <1>4. wD'.pc = "idle"
    BY DEF Deploy!TypeOK
  <1>5. DWorker' /\ DLoop'
    BY <1>4 DEF DWorker, DLoop
  <1> QED
    BY <1>2, <1>3, <1>5 DEF DCore

(* The scheduler stops an old job only above the old formation, which the  *)
(* new jobs make up for, and a new one only after the rollback.            *)
LEMMA DeploySchedule ==
  ASSUME Deploy!TypeOK, DCore, Deploy!ScheduleJob
  PROVE  DCore'
  <1>1. UNCHANGED <<wDeployment, wOldFormation, wNewFormation, wRecord, wJob, wD, wCount>>
    BY DEF Deploy!ScheduleJob
  <1>2. /\ Processes \in [Deploy!TypeSet -> Nat] /\ wDeployment.kept \subseteq Deploy!TypeSet
        /\ Deploy!Slack \in {0, 1} /\ Deploy!Slack' = Deploy!Slack
    BY <1>1, DeployConstants DEF Deploy!TypeOK, Deploy!Slack
  <1>3. PICK t \in Deploy!TypeSet :
       \/ /\ wOldJobs[t] < wOldFormation[t]
          /\ wOldJobs' = [wOldJobs EXCEPT ![t] = @ + 1] /\ wNewJobs' = wNewJobs
       \/ /\ wOldJobs[t] > wOldFormation[t]
          /\ wOldJobs' = [wOldJobs EXCEPT ![t] = @ - 1] /\ wNewJobs' = wNewJobs
       \/ /\ wNewJobs[t] < wNewFormation[t]
          /\ wNewJobs' = [wNewJobs EXCEPT ![t] = @ + 1] /\ wOldJobs' = wOldJobs
       \/ /\ wNewJobs[t] > wNewFormation[t]
          /\ wNewJobs' = [wNewJobs EXCEPT ![t] = @ - 1] /\ wOldJobs' = wOldJobs
    BY DEF Deploy!ScheduleJob
  <1>4. DLoop'
    <2>1. DLoop
      BY DEF DCore
    <2> QED
      BY <1>1, <2>1 DEF DLoop, DAll, DUpDown, DDownUp, DAsked, Deploy!Type, Deploy!BatchSize
  <1>5. DWorker'
    <2>1. wNewJobs = wNewFormation => wNewJobs' = wNewJobs
      BY <1>3 DEF Deploy!TypeOK, Deploy!Within
    <2> QED
      BY <1>1, <2>1 DEF DCore, DWorker
  <1>6. CASE DMadeUp
    <2>1. DMadeUp'
      BY <1>1, <1>2, <1>3, <1>6 DEF DMadeUp, Deploy!TypeOK, Deploy!Within
    <2>2. DEnough'
      BY <1>1, <1>2, <1>3, <1>6 DEF DCore, DMadeUp, DEnough, Deploy!TypeOK, Deploy!Within
    <2> QED
      BY <1>4, <1>5, <2>1, <2>2 DEF DCore
  <1>7. CASE DRolledBack
    <2>1. wOldJobs' = wOldJobs
      BY <1>2, <1>3, <1>7 DEF DRolledBack, Deploy!TypeOK, Deploy!Within
    <2>2. wNewJobs' \in [Deploy!TypeSet -> Nat]
      BY <1>3 DEF Deploy!TypeOK, Deploy!Within
    <2>3. DRolledBack' /\ DEnough'
      BY <1>1, <1>2, <1>7, <2>1, <2>2 DEF DRolledBack, DEnough
    <2> QED
      BY <1>4, <1>5, <2>3 DEF DCore
  <1> QED
    BY <1>6, <1>7 DEF DCore

(* The loop: a step that asks for nothing, or the end of a wait. *)
LEMMA DeployMoves ==
  ASSUME Deploy!TypeOK, DCore, Deploy!NextType
  PROVE  DCore'
  <1>1. UNCHANGED <<wDeployment, wOldFormation, wNewFormation, wOldJobs, wNewJobs, wJob>>
    BY DEF Deploy!NextType
  <1>2. (DMadeUp' \/ DRolledBack') /\ DEnough'
    BY <1>1, DeploySums, DeployEnough
  <1>3. /\ wD.pc = "scale" /\ wDeployment.strategy # "all-at-once" /\ wD.dir = Deploy!First
        /\ wD'.pc = wD.pc /\ wD'.dir = wD.dir /\ wD'.original = wD.original
    BY DEF Deploy!NextType, Deploy!TypeOK
  <1>4. DWorker'
    BY <1>1, <1>3 DEF DCore, DWorker
  <1>5. DLoop'
    <2>1. CASE wDeployment.strategy = "one-down-one-up"
      <3>1. wD.dir = "down" /\ DDownUp
        BY <1>3, <2>1 DEF Deploy!First, DCore, DLoop
      <3>2. \A t \in wDeployment.kept : DAsked(t, 0)'
        BY <1>1, <1>3, <3>1 DEF DDownUp, DAsked
      <3>3. DDownUp'
        BY <1>1, <1>3, <3>1, <3>2 DEF DDownUp
      <3> QED
        BY <1>1, <2>1, <3>3 DEF DLoop
    <2>2. CASE wDeployment.strategy # "one-down-one-up"
      <3>1. wD.dir = "up"
        BY <1>3, <2>2 DEF Deploy!First
      <3>2. DUpDown'
        BY <1>3, <3>1 DEF DUpDown
      <3> QED
        BY <1>1, <1>3, <2>2, <3>2 DEF DLoop
    <2> QED
      BY <2>1, <2>2
  <1> QED
    BY <1>2, <1>4, <1>5 DEF DCore

LEMMA DeployNothing ==
  ASSUME Deploy!TypeOK, DCore, wD.j >= 1, Deploy!scaleNothing
  PROVE  DCore'
  <1>1. /\ UNCHANGED <<wDeployment, wOldFormation, wNewFormation, wOldJobs, wNewJobs, wJob>>
        /\ wD.pc = "scale" /\ wDeployment.strategy # "all-at-once"
    BY DEF Deploy!scaleNothing, Deploy!InBody
  <1>2. (DMadeUp' \/ DRolledBack') /\ DEnough'
    BY <1>1, DeploySums, DeployEnough
  <1>c. /\ Processes \in [Deploy!TypeSet -> Nat] /\ wDeployment \in Deployments
        /\ wDeployment.kept \subseteq Deploy!TypeSet /\ Deploy!BatchSize \in Nat
    BY DeployConstants DEF Deploy!TypeOK
  <1>3. /\ wD'.pc = "scale" /\ wD'.original = wD.original /\ wD'.j = wD.j
        /\ wD'.dir = IF wDeployment.strategy = "one-down-one-up"
                     THEN IF wD.dir = "down" THEN "up" ELSE "down"
                     ELSE IF wD.dir = "up" THEN "down" ELSE "up"
    BY <1>1, <1>c, DeployAdvanced DEF Deploy!scaleNothing, Deploy!TypeOK, DRec
  <1>4. DWorker'
    BY <1>1, <1>3 DEF DCore, DWorker
  <1>t. Deploy!Type \in Deploy!TypeSet /\ Deploy!Type' = Deploy!Type
    BY <1>3, DeployType, DeploymentAssumption
       DEF Deploy!scaleNothing, Deploy!InBody, Deploy!TypeOK, Deploy!Type
  <1>5. DLoop'
    <2>1. CASE wDeployment.strategy = "one-down-one-up"
      <3>1. DDownUp
        BY <1>1, <2>1 DEF DCore, DLoop
      <3>2. CASE wD.dir = "down"
        <4>1. \A t \in wDeployment.kept : DAsked(t, 0)'
          BY <1>1, <3>1, <3>2 DEF DDownUp, DAsked
        <4> QED
          BY <1>1, <1>3, <2>1, <3>2, <4>1 DEF DLoop, DDownUp
      <3>3. CASE wD.dir = "up"
        <4>1. Deploy!Type \in wDeployment.kept => wNewFormation[Deploy!Type] = Processes[Deploy!Type]
          BY <3>3 DEF Deploy!scaleNothing, Deploy!UpAsks
        <4>2. Deploy!Type \in wDeployment.kept => DAsked(Deploy!Type, 0)
          BY <1>c, <4>1 DEF DAsked, Deploy!TypeOK, Deploy!Within
        <4>3. \A t \in wDeployment.kept : DAsked(t, 0)
          BY <3>1, <4>2 DEF DDownUp
        <4>4. \A t \in wDeployment.kept : DAsked(t, 0)'
          BY <1>1, <4>3 DEF DAsked
        <4> QED
          BY <1>1, <1>3, <2>1, <3>3, <4>4 DEF DLoop, DDownUp
      <3> QED
        BY <3>1, <3>2, <3>3 DEF DDownUp
    <2>2. CASE wDeployment.strategy # "one-down-one-up"
      <3>1. DUpDown
        BY <1>1, <2>2 DEF DCore, DLoop
      <3>2. CASE wD.dir = "up"
        <4>1. Deploy!Type \in wDeployment.kept => wNewFormation[Deploy!Type] = Processes[Deploy!Type]
          BY <3>2 DEF Deploy!scaleNothing, Deploy!UpAsks
        <4> QED
          BY <1>1, <1>3, <1>t, <2>2, <3>2, <4>1 DEF DLoop, DUpDown
      <3>3. CASE wD.dir = "down"
        BY <1>1, <1>3, <2>2, <3>3 DEF DLoop, DUpDown
      <3> QED
        BY <3>1, <3>2, <3>3 DEF DUpDown
    <2> QED
      BY <2>1, <2>2
  <1> QED
    BY <1>2, <1>4, <1>5 DEF DCore

LEMMA DeployComplete ==
  ASSUME Deploy!TypeOK, DCore, Deploy!scaleComplete
  PROVE  DCore'
  <1>1. /\ UNCHANGED <<wDeployment, wOldFormation, wNewFormation, wOldJobs, wNewJobs, wJob>>
        /\ wD.pc = "wait" /\ (wD.dir # "down" => wNewJobs = wNewFormation)
    BY DEF Deploy!scaleComplete
  <1>2. (DMadeUp' \/ DRolledBack') /\ DEnough'
    BY <1>1, DeploySums, DeployEnough
  <1>c. /\ Processes \in [Deploy!TypeSet -> Nat] /\ wDeployment \in Deployments
        /\ wDeployment.kept \subseteq Deploy!TypeSet
    BY DeployConstants DEF Deploy!TypeOK
  <1> DEFINE a == Deploy!Advanced(wD)
  <1>a. /\ a \in DRec /\ a.original = wD.original /\ a.j = wD.j
        /\ wDeployment.strategy = "all-at-once" => a.dir = "down"
        /\ wDeployment.strategy # "all-at-once" =>
             a.dir = IF wDeployment.strategy = "one-down-one-up"
                     THEN IF wD.dir = "down" THEN "up" ELSE "down"
                     ELSE IF wD.dir = "up" THEN "down" ELSE "up"
    BY <1>c, DeployAdvanced DEF Deploy!TypeOK, DRec
  <1>b. wD' = [a EXCEPT !.pc = "scale"]
    BY DEF Deploy!scaleComplete
  <1> HIDE DEF a
  <1>3. /\ wD'.pc = "scale" /\ wD'.original = wD.original /\ wD'.j = wD.j
        /\ wDeployment.strategy = "all-at-once" => wD'.dir = "down"
        /\ wDeployment.strategy # "all-at-once" =>
             wD'.dir = IF wDeployment.strategy = "one-down-one-up"
                       THEN IF wD.dir = "down" THEN "up" ELSE "down"
                       ELSE IF wD.dir = "up" THEN "down" ELSE "up"
    BY <1>a, <1>b DEF DRec
  <1>4. DWorker'
    BY <1>1, <1>3 DEF DCore, DWorker
  <1>t. Deploy!Type' = Deploy!Type /\ Deploy!BatchSize' = Deploy!BatchSize
    BY <1>1, <1>3 DEF Deploy!Type, Deploy!BatchSize
  <1>5. DLoop'
    <2>1. CASE wDeployment.strategy = "all-at-once"
      <3>1. DAll
        BY <1>1, <2>1 DEF DCore, DLoop
      <3> QED
        BY <1>1, <1>3, <2>1, <3>1 DEF DLoop, DAll
    <2>2. CASE wDeployment.strategy = "one-down-one-up"
      <3>1. DDownUp
        BY <1>1, <2>2 DEF DCore, DLoop
      <3>2. DDownUp'
        BY <1>1, <1>3, <1>t, <2>2, <3>1 DEF DDownUp, DAsked
      <3> QED
        BY <1>1, <2>2, <3>2 DEF DLoop
    <2>3. CASE wDeployment.strategy \notin {"all-at-once", "one-down-one-up"}
      <3>1. DUpDown
        BY <1>1, <2>3 DEF DCore, DLoop
      <3>2. DUpDown'
        BY <1>1, <1>3, <1>t, <2>3, <3>1 DEF DUpDown, DAsked
      <3> QED
        BY <1>1, <2>3, <3>2 DEF DLoop
    <2> QED
      BY <2>1, <2>2, <2>3
  <1> QED
    BY <1>2, <1>4, <1>5 DEF DCore

(* The requests. *)
LEMMA DeployUp ==
  ASSUME Deploy!TypeOK, DCore, wD.j >= 1, Deploy!scaleNewFormationUp
  PROVE  DCore'
  <1>1. /\ UNCHANGED <<wDeployment, wOldFormation, wOldJobs, wNewJobs, wJob>>
        /\ wD.pc = "scale" /\ wD.dir = "up" /\ wDeployment.strategy # "all-at-once"
    BY DEF Deploy!scaleNewFormationUp, Deploy!UpAsks, Deploy!InBody
  <1>2. wJob = "working" /\ wNewJobs = wNewFormation /\ wD.original = Processes
    BY <1>1 DEF DCore, DWorker
  <1>c. /\ Processes \in [Deploy!TypeSet -> Nat] /\ wDeployment \in Deployments
        /\ wDeployment.kept \subseteq Deploy!TypeSet /\ Deploy!BatchSize \in Nat
    BY DeployConstants DEF Deploy!TypeOK
  <1>3. wD'.pc = "wait" /\ wD'.dir = "up" /\ wD'.original = wD.original /\ wD'.j = wD.j
    BY <1>1 DEF Deploy!scaleNewFormationUp, Deploy!TypeOK
  <1> DEFINE t == Deploy!Type
             n == IF wNewFormation[t] + Deploy!BatchSize > Processes[t] THEN Processes[t]
                  ELSE wNewFormation[t] + Deploy!BatchSize
  <1>t. t \in Deploy!TypeSet /\ t' = t /\ Deploy!BatchSize' = Deploy!BatchSize
    BY <1>1, <1>3, DeployType, DeploymentAssumption
       DEF Deploy!scaleNewFormationUp, Deploy!UpAsks, Deploy!InBody, Deploy!TypeOK, Deploy!Type,
           Deploy!BatchSize
  <1>4. wNewFormation' = [wNewFormation EXCEPT ![t] = n]
    BY DEF Deploy!scaleNewFormationUp
  <1>5. /\ n \in Nat /\ n >= wNewFormation[t]
        /\ n = Processes[t] \/ n = wNewFormation[t] + Deploy!BatchSize
    BY <1>c, <1>t DEF Deploy!TypeOK, Deploy!Within
  <1>6. /\ wNewFormation'[t] = n
        /\ \A u \in Deploy!TypeSet : u # t => wNewFormation'[u] = wNewFormation[u]
    BY <1>t, <1>4 DEF Deploy!TypeOK, Deploy!Within
  <1> HIDE DEF n
  <1>7. DMadeUp
    BY <1>2 DEF DCore, DRolledBack
  <1>8. DMadeUp'
    BY <1>1, <1>c, <1>t, <1>5, <1>6, <1>7
       DEF DMadeUp, Deploy!Slack, Deploy!TypeOK, Deploy!Within
  <1>9. DEnough' /\ DWorker'
    BY <1>1, <1>2, <1>3, DeployEnough DEF DWorker
  <1>10. DLoop'
    <2>1. CASE wDeployment.strategy = "one-down-one-up"
      <3>1. DDownUp /\ Deploy!BatchSize = 1
        BY <1>1, <2>1 DEF DCore, DLoop, Deploy!BatchSize
      <3>2. t \in wDeployment.kept => DAsked(t, -1)
        BY <1>c, <3>1 DEF DDownUp, DAsked, Deploy!TypeOK, Deploy!Within
      <3>3. t \in wDeployment.kept => DAsked(t, 0)'
        BY <1>1, <1>c, <1>t, <1>5, <1>6, <3>1, <3>2 DEF DAsked, Deploy!TypeOK, Deploy!Within
      <3>4. \A u \in wDeployment.kept : u # t => DAsked(u, 0)'
        BY <1>1, <1>c, <1>6, <3>1 DEF DDownUp, DAsked
      <3>5. \A u \in wDeployment.kept : DAsked(u, 0)'
        BY <1>t, <3>3, <3>4 DEF DAsked
      <3>6. DDownUp'
        BY <1>1, <1>3, <3>5 DEF DDownUp
      <3> QED
        BY <1>1, <2>1, <3>6 DEF DLoop
    <2>2. CASE wDeployment.strategy # "one-down-one-up"
      <3>1. Deploy!Slack = 0
        BY <2>2 DEF Deploy!Slack
      <3>2. t \in wDeployment.kept => DAsked(t, 0)
        BY <1>2, <1>c, <1>7, <3>1 DEF DMadeUp, DAsked, Deploy!TypeOK, Deploy!Within
      <3>3. t \in wDeployment.kept => n = Processes[t] \/ DAsked(t, Deploy!BatchSize)'
        BY <1>1, <1>c, <1>t, <1>5, <1>6, <3>2 DEF DAsked, Deploy!TypeOK, Deploy!Within
      <3>4. DUpDown'
        BY <1>1, <1>3, <1>t, <1>6, <3>3 DEF DUpDown, DAsked
      <3> QED
        BY <1>1, <2>2, <3>4 DEF DLoop
    <2> QED
      BY <2>1, <2>2
  <1> QED
    BY <1>8, <1>9, <1>10 DEF DCore

LEMMA DeployDown ==
  ASSUME Deploy!TypeOK, DCore, wD.j >= 1, Deploy!scaleOldFormationDown
  PROVE  DCore'
  <1>1. /\ UNCHANGED <<wDeployment, wNewFormation, wOldJobs, wNewJobs, wJob>>
        /\ wD.pc = "scale" /\ wD.dir = "down" /\ wDeployment.strategy # "all-at-once"
    BY DEF Deploy!scaleOldFormationDown, Deploy!DownAsks, Deploy!InBody
  <1>2. wJob = "working" /\ wNewJobs = wNewFormation /\ wD.original = Processes
    BY <1>1 DEF DCore, DWorker
  <1>c. /\ Processes \in [Deploy!TypeSet -> Nat] /\ wDeployment \in Deployments
        /\ wDeployment.kept \subseteq Deploy!TypeSet /\ Deploy!BatchSize \in Nat
    BY DeployConstants DEF Deploy!TypeOK
  <1>3. wD'.pc = "wait" /\ wD'.dir = "down" /\ wD'.original = wD.original /\ wD'.j = wD.j
    BY <1>1 DEF Deploy!scaleOldFormationDown, Deploy!TypeOK
  <1> DEFINE t == Deploy!Type
             n == IF wOldFormation[t] < Deploy!BatchSize THEN 0
                  ELSE wOldFormation[t] - Deploy!BatchSize
  <1>t. t \in Deploy!TypeSet /\ t' = t /\ Deploy!BatchSize' = Deploy!BatchSize
    BY <1>1, <1>3, DeployType, DeploymentAssumption
       DEF Deploy!scaleOldFormationDown, Deploy!DownAsks, Deploy!InBody, Deploy!TypeOK, Deploy!Type,
           Deploy!BatchSize
  <1>4. wOldFormation' = [wOldFormation EXCEPT ![t] = n]
    BY DEF Deploy!scaleOldFormationDown
  <1>5. n \in Nat /\ n >= wOldFormation[t] - Deploy!BatchSize
    BY <1>c, <1>t DEF Deploy!TypeOK, Deploy!Within
  <1>6. /\ wOldFormation'[t] = n
        /\ \A u \in Deploy!TypeSet : u # t => wOldFormation'[u] = wOldFormation[u]
    BY <1>t, <1>4 DEF Deploy!TypeOK, Deploy!Within
  <1> HIDE DEF n
  <1>7. DMadeUp
    BY <1>2 DEF DCore, DRolledBack
  <1>9. DEnough' /\ DWorker'
    BY <1>1, <1>2, <1>3, DeployEnough DEF DWorker
  <1>10. CASE wDeployment.strategy = "one-down-one-up"
    <2>1. DDownUp /\ Deploy!BatchSize = 1 /\ Deploy!Slack = 1 /\ Deploy!Slack' = 1
      BY <1>1, <1>10 DEF DCore, DLoop, Deploy!BatchSize, Deploy!Slack
    <2>2. \A u \in wDeployment.kept : DAsked(u, 0)
      BY <1>1, <2>1 DEF DDownUp
    <2>3. \A u \in wDeployment.kept : DAsked(u, 0)' \/ (u = t /\ DAsked(u, -1)')
      BY <1>1, <1>c, <1>t, <1>5, <1>6, <2>1, <2>2 DEF DAsked, Deploy!TypeOK, Deploy!Within
    <2>4. DDownUp'
      BY <1>1, <1>3, <1>t, <2>3 DEF DDownUp, DAsked
    <2>5. \A u \in wDeployment.kept : wOldFormation'[u] + wNewJobs[u] >= Processes[u] - 1
      BY <1>1, <1>2, <1>c, <1>t, <1>5, <1>6, <2>1, <2>2 DEF DAsked, Deploy!TypeOK, Deploy!Within
    <2>6. DMadeUp'
      BY <1>1, <1>7, <2>1, <2>5 DEF DMadeUp
    <2> QED
      BY <1>1, <1>9, <1>10, <2>4, <2>6 DEF DCore, DLoop
  <1>11. CASE wDeployment.strategy # "one-down-one-up"
    <2>1. DUpDown /\ Deploy!Slack = 0 /\ Deploy!Slack' = 0
      BY <1>1, <1>11 DEF DCore, DLoop, Deploy!Slack
    <2>2. t \in wDeployment.kept =>
            wNewFormation[t] = Processes[t] \/ DAsked(t, Deploy!BatchSize)
      BY <1>1, <2>1 DEF DUpDown
    <2>3. t \in wDeployment.kept => n + wNewJobs[t] >= Processes[t]
      BY <1>2, <1>c, <1>t, <1>5, <2>2 DEF DAsked, Deploy!TypeOK, Deploy!Within
    <2>4. \A u \in wDeployment.kept : wOldFormation'[u] + wNewJobs[u] >= Processes[u]
      BY <1>c, <1>6, <1>7, <2>1, <2>3 DEF DMadeUp, Deploy!TypeOK, Deploy!Within
    <2>5. DMadeUp'
      BY <1>1, <1>7, <1>c, <2>1, <2>4 DEF DMadeUp
    <2>6. DUpDown'
      BY <1>3 DEF DUpDown
    <2> QED
      BY <1>1, <1>9, <1>11, <2>5, <2>6 DEF DCore, DLoop
  <1> QED
    BY <1>10, <1>11

LEMMA DeployAll ==
  ASSUME Deploy!TypeOK, DCore, Deploy!deployAllAtOnce
  PROVE  DCore'
  <1>1. /\ UNCHANGED <<wDeployment, wOldJobs, wNewJobs, wJob>>
        /\ wD.pc = "scale" /\ wDeployment.strategy = "all-at-once"
    BY DEF Deploy!deployAllAtOnce
  <1>2. wJob = "working" /\ wNewJobs = wNewFormation /\ wD.original = Processes
    BY <1>1 DEF DCore, DWorker
  <1>c. /\ Processes \in [Deploy!TypeSet -> Nat] /\ wDeployment.kept \subseteq Deploy!TypeSet
    BY DeployConstants DEF Deploy!TypeOK
  <1>3. DMadeUp /\ DAll /\ Deploy!Slack = 0 /\ Deploy!Slack' = 0
    BY <1>1, <1>2 DEF DCore, DRolledBack, DLoop, Deploy!Slack
  <1>4. DEnough'
    BY <1>1, DeployEnough
  <1>5. CASE wD.dir = "all"
    <2>1. /\ wNewFormation' = [t \in Deploy!TypeSet |->
                                 IF t \in wDeployment.kept THEN wOldFormation[t] ELSE 0]
          /\ wOldFormation' = wOldFormation /\ wD' = [wD EXCEPT !.pc = "wait"]
      BY <1>5 DEF Deploy!deployAllAtOnce
    <2>2. wD'.pc = "wait" /\ wD'.dir = "all" /\ wD'.original = wD.original
      BY <1>5, <2>1 DEF Deploy!TypeOK
    <2>3. wOldFormation = Processes
      BY <1>3, <1>5 DEF DAll
    <2>4. \A t \in wDeployment.kept : wNewFormation'[t] = Processes[t]
      BY <1>c, <2>1, <2>3
    <2>5. DMadeUp'
      BY <1>1, <1>3, <1>c, <2>1, <2>4 DEF DMadeUp, Deploy!TypeOK, Deploy!Within
    <2>6. DWorker' /\ DAll'
      BY <1>1, <1>2, <2>1, <2>2, <2>3, <2>4 DEF DWorker, DAll
    <2> QED
      BY <1>1, <1>4, <2>5, <2>6 DEF DCore, DLoop
  <1>6. CASE wD.dir = "down"
    <2>1. /\ wOldFormation' = Deploy!Zero /\ wNewFormation' = wNewFormation
          /\ wD' = [wD EXCEPT !.pc = "release"]
      BY <1>6 DEF Deploy!deployAllAtOnce
    <2>2. wD'.pc = "release" /\ wD'.original = wD.original
      BY <2>1 DEF Deploy!TypeOK
    <2>3. \A t \in wDeployment.kept : wNewJobs[t] = Processes[t]
      BY <1>2, <1>3, <1>6 DEF DAll
    <2>4. DMadeUp'
      BY <1>1, <1>3, <1>c, <2>1, <2>3 DEF DMadeUp, Deploy!Zero
    <2>5. DWorker' /\ DLoop'
      BY <1>1, <1>2, <2>2 DEF DWorker, DLoop
    <2> QED
      BY <1>4, <2>4, <2>5 DEF DCore
  <1> QED
    BY <1>5, <1>6 DEF Deploy!deployAllAtOnce

LEMMA DeployHalfway ==
  ASSUME Deploy!TypeOK, Deploy!Next, wCount'.halfway = 0
  PROVE  wCount.halfway = 0
  <1>1. CASE Deploy!Perform
    <2>1. wCount'.halfway \in {wCount.halfway, wCount.halfway + 1}
      BY <1>1 DEF Deploy!Perform, Deploy!TypeOK
    <2> QED
      BY <2>1 DEF Deploy!TypeOK
  <1>2. CASE Deploy!scaleTimeout \/ Deploy!requestFails \/ Deploy!stopped \/ Deploy!rollbackFails
    BY <1>2 DEF Deploy!scaleTimeout, Deploy!requestFails, Deploy!stopped, Deploy!rollbackFails,
                Deploy!TypeOK
  <1>3. CASE wCount' = wCount
    BY <1>3
  <1> QED
    BY <1>1, <1>2, <1>3
       DEF Deploy!Next, Deploy!Worker, Deploy!NextType, Deploy!scaleEnd, Deploy!NothingToDelete,
           Deploy!scaleNewFormationUp, Deploy!scaleOldFormationDown, Deploy!scaleNothing,
           Deploy!deployAllAtOnce, Deploy!scaleComplete, Deploy!newJobsFail,
           Deploy!SetAppRelease, Deploy!rollback, Deploy!DeleteFormation, Deploy!skipRollback,
           Deploy!ScheduleJob

LEMMA DeployNext == ASSUME DInv, Deploy!Next PROVE DInv'
  <1>1. Deploy!TypeOK /\ wD.j >= 1 /\ Deploy!TypeOK' /\ wD'.j >= 1
    BY DeployTypesNext DEF DInv
  <1>2. SUFFICES ASSUME wCount'.halfway = 0 PROVE DCore'
    BY <1>1 DEF DInv
  <1>3. wCount.halfway = 0 /\ DCore
    BY <1>1, <1>2, DeployHalfway DEF DInv
  <1> QED
    BY <1>1, <1>2, <1>3, DeployPerform, DeployOutside, DeployRollback, DeployDelete, DeploySchedule,
       DeployMoves, DeployNothing, DeployComplete, DeployUp, DeployDown, DeployAll
       DEF Deploy!Next, Deploy!Worker

(* A deployment takes no capacity away, with any strategy and batch size,  *)
(* any number of process types and of jobs of each, whatever fails or      *)
(* times out, unless a worker takes it up halfway.                         *)
THEOREM DeploymentKeepsCapacity == Deploy!Spec => []EnoughJobs
  <1>1. Deploy!Init => DInv
    BY DeployTypesInit, DeployCoreInit DEF DInv
  <1>2. DInv /\ [Deploy!Next]_(Deploy!vars) => DInv'
    <2> SUFFICES ASSUME DInv, [Deploy!Next]_(Deploy!vars) PROVE DInv'
      OBVIOUS
    <2>1. CASE Deploy!Next
      BY <2>1, DeployNext
    <2>2. CASE UNCHANGED Deploy!vars
      <3>1. UNCHANGED <<wDeployment, wOldFormation, wNewFormation, wOldJobs, wNewJobs, wRecord,
                        wJob, wD, wCount>>
        BY <2>2 DEF Deploy!vars
      <3> QED
        BY <3>1 DEF DInv, Deploy!TypeOK, Deploy!Within, DCore, DMadeUp, DRolledBack, DEnough,
                    DWorker, DLoop, DAll, DUpDown, DDownUp, DAsked, Deploy!Slack, Deploy!Type,
                    Deploy!BatchSize
    <2> QED
      BY <2>1, <2>2
  <1>3. DInv => EnoughJobs
    BY DEF DInv, DCore, DEnough, EnoughJobs, Deploy!EnoughJobs
  <1> QED
    BY <1>1, <1>2, <1>3, PTL DEF Deploy!Spec
=============================================================================
