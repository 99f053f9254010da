----------------------- MODULE DiscoverdExpiryProofs ------------------------
(***************************************************************************)
(* Proofs about DiscoverdExpiry, for any instances, servers, time to live  *)
(* and changes of the raft leader: an instance that runs and has been      *)
(* heard is never marked as expired, provided that monitorLeaderCh gets    *)
(* every notice and no instance starts again under its old identity.       *)
(*                                                                         *)
(* LiveNotMarked is not inductive.  Notices says that a server whose       *)
(* leaderTime counts has led ever since, and Heard that from the second    *)
(* interval of its leadership on it knows a heartbeat of every instance    *)
(* that is at most one interval old.                                       *)
(***************************************************************************)
EXTENDS DiscoverdClients, TLAPS

Steady ==
  /\ TTL \in Nat \ {0}
  /\ LostNotices = FALSE /\ Restarts = FALSE
  /\ "none" \notin Servers

Ages == 0..Expiry!Old
Server == [heartbeats : [Ids -> Ages], leaderTime : 0..Expiry!Never, notice : {"none", "true", "false"}]
Instance == [run : {"new", "alive", "ended"}, heard : BOOLEAN, age : {0, 1}]

Types ==
  /\ registered \subseteq Ids /\ requests \subseteq Expiry!Command
  /\ leader \in Servers \cup {"none"}
  /\ server \in [Servers -> Server]
  /\ inst \in [Ids -> Instance]

(* Whoever deregistered does not run any more. *)
Removed == \A cmd \in requests : cmd.type = "remove" => inst[cmd.id].run = "ended"

Notices(s) ==
  /\ server[s].notice = "true" => leader = s /\ server[s].leaderTime = Expiry!Never
  /\ server[s].notice = "false" => leader # s
  /\ server[s].notice = "none" /\ leader # s => server[s].leaderTime = Expiry!Never

Heard(s, i) ==
  leader = s /\ server[s].leaderTime # Expiry!Never /\ Expiry!Alive(i) /\ inst[i].heard =>
    /\ inst[i].age = 0 /\ server[s].leaderTime >= 1 => server[s].heartbeats[i] = 0
    /\ inst[i].age = 1 /\ server[s].leaderTime >= 2 => server[s].heartbeats[i] <= 1

Inv ==
  /\ Types /\ Removed
  /\ \A s \in Servers : Notices(s)
  /\ \A s \in Servers, i \in Ids : Heard(s, i)

-----------------------------------------------------------------------------
LEMMA Bounds ==
  ASSUME Steady
  PROVE  /\ TTL \in Nat /\ TTL >= 1 /\ Expiry!Old = TTL + 1 /\ Expiry!Old \in Nat
         /\ Expiry!Waited \in Nat /\ Expiry!Waited >= 2
         /\ Expiry!Never = Expiry!Waited + 1 /\ Expiry!Never \in Nat
BY DEF Steady, Expiry!Old, Expiry!Waited, Expiry!Never

LEMMA InitInv == ASSUME Steady, Expiry!Init PROVE Inv
<1>1. Types
  BY Bounds DEF Expiry!Init, Types, Server, Instance, Ages
<1>2. Removed
  BY DEF Expiry!Init, Removed
<1>3. ASSUME NEW s \in Servers PROVE Notices(s) /\ \A i \in Ids : Heard(s, i)
  BY <1>3, Bounds DEF Expiry!Init, Notices, Heard, Steady
<1> QED BY <1>1, <1>2, <1>3 DEF Inv

LEMMA StartInv == ASSUME Steady, Inv, NEW i \in Ids, Expiry!StartInstance(i) PROVE Inv'
<1>1. inst[i].run = "new" /\ inst' = [inst EXCEPT ![i] = [run |-> "alive", heard |-> FALSE, age |-> 0]]
      /\ UNCHANGED <<registered, requests, leader, server, changes>>
  BY DEF Expiry!StartInstance, Steady
<1>2. Types'
  BY <1>1 DEF Inv, Types, Instance
<1>3. Removed'
  <2> SUFFICES ASSUME NEW cmd \in requests, cmd.type = "remove" PROVE inst'[cmd.id].run = "ended"
    BY <1>1 DEF Removed
  <2>1. inst[cmd.id].run = "ended" /\ cmd.id \in Ids
    BY DEF Inv, Removed, Types, Expiry!Command
  <2> QED BY <1>1, <2>1 DEF Inv, Types
<1>4. ASSUME NEW s \in Servers PROVE Notices(s)'
  BY <1>1 DEF Inv, Notices
<1>5. ASSUME NEW s \in Servers, NEW j \in Ids PROVE Heard(s, j)'
  <2>1. CASE j = i
    <3>1. inst'[i].heard = FALSE
      BY <1>1 DEF Inv, Types
    <3> QED BY <2>1, <3>1 DEF Heard
  <2>2. CASE j # i
    <3>1. inst'[j] = inst[j]
      BY <1>1, <2>2 DEF Inv, Types
    <3> QED BY <1>1, <3>1 DEF Inv, Heard, Expiry!Alive
  <2> QED BY <2>1, <2>2
<1> QED BY <1>2, <1>3, <1>4, <1>5 DEF Inv

(* A server notes the age of a heartbeat. *)
Beat(x, i, age) == [x EXCEPT !.heartbeats[i] = age]

LEMMA BeatFacts ==
  ASSUME NEW x \in Server, NEW i \in Ids, NEW age \in Ages
  PROVE  /\ Beat(x, i, age) \in Server /\ Beat(x, i, age).heartbeats[i] = age
         /\ Beat(x, i, age).notice = x.notice /\ Beat(x, i, age).leaderTime = x.leaderTime
         /\ \A j \in Ids \ {i} : Beat(x, i, age).heartbeats[j] = x.heartbeats[j]
<1>1. x.heartbeats \in [Ids -> Ages] /\ x.leaderTime \in 0..Expiry!Never
      /\ x.notice \in {"none", "true", "false"}
  BY DEF Server
<1>2. [x.heartbeats EXCEPT ![i] = age] \in [Ids -> Ages]
  BY <1>1
<1>3. Beat(x, i, age) = [x EXCEPT !.heartbeats = [x.heartbeats EXCEPT ![i] = age]]
  BY DEF Beat
<1>4. Beat(x, i, age) =
        [heartbeats |-> [x.heartbeats EXCEPT ![i] = age], leaderTime |-> x.leaderTime, notice |-> x.notice]
  BY <1>3 DEF Server
<1> QED BY <1>1, <1>2, <1>4 DEF Server

LEMMA AddInv == ASSUME Steady, Inv, NEW i \in Ids, Expiry!AddInstance(i) PROVE Inv'
<1>1. leader \in Servers
  BY DEF Expiry!AddInstance, Inv, Types
<1>2. /\ inst' = [inst EXCEPT ![i].heard = TRUE, ![i].age = 0]
      /\ server' = [server EXCEPT ![leader].heartbeats[i] = 0]
      /\ leader' = leader /\ registered' = registered
      /\ requests' \subseteq requests \cup {[type |-> "add", id |-> i]}
  BY DEF Expiry!AddInstance
<1>3. /\ server' \in [Servers -> Server] /\ server'[leader].heartbeats[i] = 0
      /\ \A s \in Servers : /\ server'[s].notice = server[s].notice
                            /\ server'[s].leaderTime = server[s].leaderTime
      /\ \A s \in Servers, j \in Ids \ {i} : server'[s].heartbeats[j] = server[s].heartbeats[j]
  <2>1. server[leader] \in Server
    BY <1>1 DEF Inv, Types
  <2>2. server' = [server EXCEPT ![leader] = Beat(server[leader], i, 0)]
    BY <1>2 DEF Beat
  <2>3. 0 \in Ages
    BY Bounds DEF Ages
  <2>4. PICK new \in Server :
          /\ new = Beat(server[leader], i, 0) /\ new.heartbeats[i] = 0
          /\ new.notice = server[leader].notice /\ new.leaderTime = server[leader].leaderTime
          /\ \A j \in Ids \ {i} : new.heartbeats[j] = server[leader].heartbeats[j]
    BY <2>1, <2>3, BeatFacts
  <2> QED BY <1>1, <2>2, <2>4 DEF Inv, Types
<1>4. /\ inst' \in [Ids -> Instance] /\ inst'[i].age = 0
      /\ \A j \in Ids : inst'[j].run = inst[j].run
      /\ \A j \in Ids \ {i} : inst'[j] = inst[j]
  BY <1>2 DEF Inv, Types, Instance
<1>5. Types'
  BY <1>2, <1>3, <1>4 DEF Inv, Types, Expiry!Command
<1>6. Removed'
  <2> SUFFICES ASSUME NEW cmd \in requests', cmd.type = "remove" PROVE inst'[cmd.id].run = "ended"
    BY DEF Removed
  <2>1. cmd \in requests /\ cmd.id \in Ids
    BY <1>2 DEF Inv, Types, Expiry!Command
  <2> QED BY <1>4, <2>1 DEF Inv, Removed
<1>7. ASSUME NEW s \in Servers PROVE Notices(s)'
  BY <1>2, <1>3 DEF Inv, Notices
<1>8. ASSUME NEW s \in Servers, NEW j \in Ids PROVE Heard(s, j)'
  <2>1. CASE j = i
    BY <1>2, <1>3, <1>4, <2>1 DEF Heard
  <2>2. CASE j # i
    BY <1>2, <1>3, <1>4, <2>2 DEF Inv, Heard, Expiry!Alive
  <2> QED BY <2>1, <2>2
<1> QED BY <1>5, <1>6, <1>7, <1>8 DEF Inv

LEMMA StopInv == ASSUME Steady, Inv, NEW i \in Ids, Expiry!StopInstance(i) PROVE Inv'
<1>1. /\ inst' = [inst EXCEPT ![i] = [run |-> "ended", heard |-> FALSE, age |-> 0]]
      /\ requests' \subseteq requests \cup {[type |-> "remove", id |-> i]}
      /\ UNCHANGED <<registered, leader, server>>
  BY DEF Expiry!StopInstance
<1>2. /\ inst' \in [Ids -> Instance] /\ inst'[i].run = "ended"
      /\ \A j \in Ids \ {i} : inst'[j] = inst[j]
  BY <1>1 DEF Inv, Types, Instance
<1>3. Types'
  BY <1>1, <1>2 DEF Inv, Types, Expiry!Command
<1>4. Removed'
  <2> SUFFICES ASSUME NEW cmd \in requests', cmd.type = "remove" PROVE inst'[cmd.id].run = "ended"
    BY DEF Removed
  <2>1. CASE cmd \in requests
    <3>1. cmd.id \in Ids /\ inst[cmd.id].run = "ended"
      BY <2>1 DEF Inv, Types, Expiry!Command, Removed
    <3> QED BY <1>2, <3>1
  <2>2. CASE cmd = [type |-> "remove", id |-> i]
    BY <1>2, <2>2
  <2> QED BY <1>1, <2>1, <2>2
<1>5. ASSUME NEW s \in Servers PROVE Notices(s)'
  BY <1>1 DEF Inv, Notices
<1>6. ASSUME NEW s \in Servers, NEW j \in Ids PROVE Heard(s, j)'
  <2>1. CASE j = i
    BY <1>2, <2>1 DEF Heard, Expiry!Alive
  <2>2. CASE j # i
    BY <1>1, <1>2, <2>2 DEF Inv, Heard, Expiry!Alive
  <2> QED BY <2>1, <2>2
<1> QED BY <1>3, <1>4, <1>5, <1>6 DEF Inv

-----------------------------------------------------------------------------
(* A step that leaves the servers and instances as they are. *)
LEMMA Requests ==
  ASSUME Inv, UNCHANGED <<leader, server, inst>>,
         requests' \subseteq Expiry!Command, registered' \subseteq Ids,
         \A cmd \in requests' : cmd.type = "remove" => cmd \in requests
  PROVE  Inv'
<1>1. Types' /\ Removed'
  BY DEF Inv, Types, Removed
<1>2. ASSUME NEW s \in Servers PROVE Notices(s)'
  BY DEF Inv, Notices
<1>3. ASSUME NEW s \in Servers, NEW i \in Ids PROVE Heard(s, i)'
  BY DEF Inv, Heard, Expiry!Alive
<1> QED BY <1>1, <1>2, <1>3 DEF Inv

LEMMA ExpireInv == ASSUME Steady, Inv, NEW s \in Servers, Expiry!EnforceExpiry(s) PROVE Inv'
<1>1. /\ UNCHANGED <<registered, leader, server, inst>>
      /\ requests' = requests \cup {[type |-> "expire", ids |-> Expiry!Marked(s)]}
  BY DEF Expiry!EnforceExpiry
<1>2. Expiry!Marked(s) \in SUBSET Ids
  BY DEF Expiry!Marked, Inv, Types
<1>3. requests' \subseteq Expiry!Command
  BY <1>1, <1>2 DEF Inv, Types, Expiry!Command
<1>4. \A cmd \in requests' : cmd.type = "remove" => cmd \in requests
  BY <1>1
<1> QED BY <1>1, <1>3, <1>4, Requests DEF Inv, Types

(* Removing forgets the heartbeats of an instance that has ended. *)
LEMMA ApplyInv == ASSUME Steady, Inv, NEW cmd \in requests, Expiry!ApplyCommand(cmd) PROVE Inv'
<1>1. cmd \in Expiry!Command /\ requests' = requests \ {cmd} /\ UNCHANGED <<leader, inst>>
  BY DEF Expiry!ApplyCommand, Inv, Types
<1>2. registered' \subseteq Ids
  <2>1. CASE cmd.type = "add"
    BY <1>1, <2>1 DEF Expiry!ApplyCommand, Inv, Types, Expiry!Command
  <2>2. CASE cmd.type = "remove"
    BY <1>1, <2>2 DEF Expiry!ApplyCommand, Inv, Types
  <2>3. CASE cmd.type = "expire"
    BY <1>1, <2>3 DEF Expiry!ApplyCommand, Inv, Types
  <2> QED BY <1>1, <2>1, <2>2, <2>3 DEF Expiry!Command
<1>3. CASE cmd.type # "remove"
  <2>1. server' = server
    BY <1>3 DEF Expiry!ApplyCommand
  <2> QED BY <1>1, <1>2, <2>1, Requests DEF Inv, Types
<1>4. CASE cmd.type = "remove"
  <2>1. /\ server' = [s \in Servers |-> [server[s] EXCEPT !.heartbeats[cmd.id] = Expiry!Old]]
        /\ cmd.id \in Ids /\ inst[cmd.id].run = "ended"
    BY <1>1, <1>4 DEF Expiry!ApplyCommand, Expiry!Command, Inv, Removed
  <2>2. /\ server' \in [Servers -> Server]
        /\ \A s \in Servers : /\ server'[s].notice = server[s].notice
                              /\ server'[s].leaderTime = server[s].leaderTime
        /\ \A s \in Servers, j \in Ids \ {cmd.id} :
             server'[s].heartbeats[j] = server[s].heartbeats[j]
    <3>1. ASSUME NEW s \in Servers
          PROVE  /\ server'[s] \in Server
                 /\ server'[s].notice = server[s].notice
                 /\ server'[s].leaderTime = server[s].leaderTime
                 /\ \A j \in Ids \ {cmd.id} : server'[s].heartbeats[j] = server[s].heartbeats[j]
      <4>1. server[s] \in Server /\ Expiry!Old \in Ages
        BY Bounds DEF Inv, Types, Ages
      <4>2. server'[s] = [server[s] EXCEPT !.heartbeats = [server[s].heartbeats EXCEPT ![cmd.id] = Expiry!Old]]
        BY <2>1, <4>1 DEF Server
      <4> QED BY <2>1, <4>1, <4>2 DEF Server
    <3> QED BY <2>1, <3>1
  <2>3. Types' /\ Removed'
    BY <1>1, <1>2, <2>2 DEF Inv, Types, Removed
  <2>4. ASSUME NEW s \in Servers PROVE Notices(s)'
    BY <1>1, <2>2 DEF Inv, Notices
  <2>5. ASSUME NEW s \in Servers, NEW j \in Ids PROVE Heard(s, j)'
    <3>1. CASE j = cmd.id
      BY <1>1, <2>1, <3>1 DEF Heard, Expiry!Alive
    <3>2. CASE j # cmd.id
      BY <1>1, <2>2, <3>2 DEF Inv, Heard, Expiry!Alive
    <3> QED BY <3>1, <3>2
  <2> QED BY <2>3, <2>4, <2>5 DEF Inv
<1> QED BY <1>3, <1>4

-----------------------------------------------------------------------------
LEMMA LoseInv == ASSUME Steady, Inv, Expiry!LoseLeader PROVE Inv'
<1>1. /\ leader \in Servers /\ server[leader].notice = "none" /\ leader' = "none"
      /\ server' = [server EXCEPT ![leader].notice = "false"]
      /\ requests' \subseteq requests /\ UNCHANGED <<registered, inst>>
  BY DEF Expiry!LoseLeader, Expiry!Notify, Steady, Inv, Types
<1>2. /\ server' \in [Servers -> Server] /\ server'[leader].notice = "false"
      /\ \A s \in Servers \ {leader} : server'[s] = server[s]
  BY <1>1 DEF Inv, Types, Server
<1>3. Types' /\ Removed'
  BY <1>1, <1>2 DEF Inv, Types, Removed
<1>4. ASSUME NEW s \in Servers PROVE Notices(s)' /\ \A i \in Ids : Heard(s, i)'
  <2>1. s # "none"
    BY DEF Steady
  <2>2. CASE s = leader
    BY <1>1, <1>2, <2>1, <2>2 DEF Notices, Heard
  <2>3. CASE s # leader
    BY <1>1, <1>2, <2>1, <2>3 DEF Inv, Notices, Heard
  <2> QED BY <2>2, <2>3
<1> QED BY <1>3, <1>4 DEF Inv

LEMMA ElectInv == ASSUME Steady, Inv, NEW s \in Servers, Expiry!Elect(s) PROVE Inv'
<1>1. /\ leader = "none" /\ server[s].notice = "none" /\ leader' = s /\ s # "none"
      /\ server' = [server EXCEPT ![s].notice = "true"]
      /\ UNCHANGED <<registered, requests, inst>>
  BY DEF Expiry!Elect, Expiry!Notify, Steady
<1>2. /\ server' \in [Servers -> Server] /\ server'[s].notice = "true"
      /\ server'[s].leaderTime = server[s].leaderTime
      /\ \A t \in Servers \ {s} : server'[t] = server[t]
  BY <1>1 DEF Inv, Types, Server
<1>3. server'[s].leaderTime = Expiry!Never
  BY <1>1, <1>2 DEF Inv, Notices
<1>4. Types' /\ Removed'
  BY <1>1, <1>2 DEF Inv, Types, Removed
<1>5. ASSUME NEW t \in Servers PROVE Notices(t)' /\ \A i \in Ids : Heard(t, i)'
  <2>1. CASE t = s
    BY <1>1, <1>2, <1>3, <2>1, Bounds DEF Notices, Heard, Expiry!Never, Expiry!Waited
  <2>2. CASE t # s
    <3>1. server[t].notice # "true"
      BY <1>1 DEF Inv, Notices, Steady
    <3> QED BY <1>1, <1>2, <2>2, <3>1 DEF Inv, Notices, Heard, Steady
  <2> QED BY <2>1, <2>2
<1> QED BY <1>4, <1>5 DEF Inv

LEMMA MonitorInv == ASSUME Steady, Inv, NEW s \in Servers, Expiry!monitorLeaderCh(s) PROVE Inv'
<1> DEFINE time == IF server[s].notice = "true" THEN 0 ELSE Expiry!Never
<1>1. /\ server[s].notice # "none"
      /\ server' = [server EXCEPT ![s].leaderTime = time,
                      ![s].heartbeats = [i \in Ids |-> Expiry!Old], ![s].notice = "none"]
      /\ UNCHANGED <<registered, requests, leader, inst>>
  BY DEF Expiry!monitorLeaderCh
<1>2. time \in 0..Expiry!Never
  BY Bounds
<1> HIDE DEF time
<1>3. /\ server' \in [Servers -> Server] /\ server'[s].notice = "none"
      /\ server'[s].leaderTime = time
      /\ \A t \in Servers \ {s} : server'[t] = server[t]
  BY <1>1, <1>2, Bounds DEF Inv, Types, Server, Ages
<1>4. Types' /\ Removed'
  BY <1>1, <1>3 DEF Inv, Types, Removed
<1>5. server[s].notice \in {"true", "false"}
  BY <1>1 DEF Inv, Types, Server
<1>6. ASSUME NEW t \in Servers PROVE Notices(t)' /\ \A i \in Ids : Heard(t, i)'
  <2>1. CASE t = s
    <3>1. leader # s => time = Expiry!Never
      BY <1>5 DEF Inv, Notices, time
    <3>2. time = Expiry!Never \/ time = 0
      BY DEF time
    <3>3. Notices(s)'
      BY <1>1, <1>3, <3>1 DEF Notices
    <3>4. ASSUME NEW i \in Ids PROVE Heard(s, i)'
      BY <1>3, <3>2, Bounds DEF Heard
    <3> QED BY <2>1, <3>3, <3>4
  <2>2. CASE t # s
    BY <1>1, <1>3, <2>2 DEF Inv, Notices, Heard, Expiry!Alive
  <2> QED BY <2>1, <2>2
<1> QED BY <1>4, <1>6 DEF Inv

(* While there is a leader, time passes only when every instance that runs *)
(* has sent a heartbeat since it passed last.                              *)
LEMMA TickInv == ASSUME Steady, Inv, Expiry!Tick PROVE Inv'
<1> DEFINE beat(s, i) == IF server[s].heartbeats[i] = Expiry!Old THEN Expiry!Old
                         ELSE server[s].heartbeats[i] + 1
           time(s) == IF server[s].leaderTime \in {Expiry!Never, Expiry!Waited} THEN server[s].leaderTime
                      ELSE server[s].leaderTime + 1
<1>1. /\ leader # "none" => \A i \in Ids : ~Expiry!Overdue(i)
      /\ server' = [s \in Servers |-> [server[s] EXCEPT
           !.heartbeats = [i \in Ids |-> beat(s, i)], !.leaderTime = time(s)]]
      /\ inst' = [i \in Ids |-> IF Expiry!Alive(i) THEN [inst[i] EXCEPT !.age = 1] ELSE inst[i]]
      /\ UNCHANGED <<registered, requests, leader>>
  BY DEF Expiry!Tick
<1>2. ASSUME NEW s \in Servers, NEW i \in Ids PROVE beat(s, i) \in Ages
  <2>1. server[s].heartbeats[i] \in Ages
    BY DEF Inv, Types, Server
  <2> QED BY <2>1, Bounds DEF Ages
<1>3. ASSUME NEW s \in Servers PROVE time(s) \in 0..Expiry!Never
  <2>1. server[s].leaderTime \in 0..Expiry!Never
    BY DEF Inv, Types, Server
  <2> QED BY <2>1, Bounds
<1>4. ASSUME NEW s \in Servers
      PROVE  /\ time(s) = Expiry!Never <=> server[s].leaderTime = Expiry!Never
             /\ time(s) # Expiry!Never /\ time(s) >= 2 => server[s].leaderTime >= 1
  <2>1. server[s].leaderTime \in 0..Expiry!Never
    BY DEF Inv, Types, Server
  <2> QED BY <2>1, Bounds
<1>5. ASSUME NEW s \in Servers, NEW i \in Ids, server[s].heartbeats[i] = 0 PROVE beat(s, i) = 1
  BY <1>5, Bounds
<1> HIDE DEF beat, time
<1>6. /\ server' \in [Servers -> Server]
      /\ \A s \in Servers : /\ server'[s].notice = server[s].notice
                            /\ server'[s].leaderTime = time(s)
                            /\ \A i \in Ids : server'[s].heartbeats[i] = beat(s, i)
  <2>1. ASSUME NEW s \in Servers
        PROVE /\ server'[s] \in Server /\ server'[s].notice = server[s].notice
              /\ server'[s].leaderTime = time(s)
              /\ \A i \in Ids : server'[s].heartbeats[i] = beat(s, i)
    BY <1>1, <1>2, <1>3 DEF Inv, Types, Server
  <2> QED BY <1>1, <2>1
<1>7. /\ inst' \in [Ids -> Instance]
      /\ \A i \in Ids : inst'[i].run = inst[i].run /\ inst'[i].heard = inst[i].heard
      /\ \A i \in Ids : Expiry!Alive(i) => inst'[i].age = 1
  BY <1>1 DEF Inv, Types, Instance
<1>8. Types'
  BY <1>1, <1>6, <1>7 DEF Inv, Types
<1>9. Removed'
  <2> SUFFICES ASSUME NEW cmd \in requests, cmd.type = "remove" PROVE inst'[cmd.id].run = "ended"
    BY <1>1 DEF Removed
  <2>1. inst[cmd.id].run = "ended" /\ cmd.id \in Ids
    BY DEF Inv, Removed, Types, Expiry!Command
  <2> QED BY <1>7, <2>1
<1>10. ASSUME NEW s \in Servers PROVE Notices(s)'
  BY <1>1, <1>4, <1>6 DEF Inv, Notices
<1>11. ASSUME NEW s \in Servers, NEW i \in Ids PROVE Heard(s, i)'
  <2> SUFFICES ASSUME leader' = s, server'[s].leaderTime # Expiry!Never, Expiry!Alive(i)', inst'[i].heard
               PROVE  /\ inst'[i].age # 0
                      /\ server'[s].leaderTime >= 2 => server'[s].heartbeats[i] <= 1
    BY DEF Heard
  <2>1. leader = s /\ Expiry!Alive(i) /\ inst[i].heard /\ time(s) # Expiry!Never
    BY <1>1, <1>6, <1>7 DEF Expiry!Alive
  <2>2. inst'[i].age = 1
    BY <1>7, <2>1
  <2>3. inst[i].age = 0
    BY <1>1, <2>1 DEF Steady, Expiry!Overdue, Inv, Types, Instance
  <2>4. ASSUME time(s) >= 2 PROVE beat(s, i) <= 1
    <3>1. server[s].leaderTime # Expiry!Never /\ server[s].leaderTime >= 1
      BY <1>4, <2>1, <2>4
    <3>2. server[s].heartbeats[i] = 0
      BY <2>1, <2>3, <3>1 DEF Inv, Heard
    <3> QED BY <1>5, <3>2
  <2> QED BY <1>6, <2>2, <2>4
<1> QED BY <1>8, <1>9, <1>10, <1>11 DEF Inv

LEMMA NextInv == ASSUME Steady, Inv, [Expiry!Next]_Expiry!vars PROVE Inv'
<1>1. CASE UNCHANGED Expiry!vars
  BY <1>1, Requests DEF Expiry!vars, Inv, Types
<1>2. CASE Expiry!Next
  BY <1>2, StartInv, AddInv, StopInv, ExpireInv, ApplyInv, LoseInv, ElectInv, MonitorInv, TickInv
     DEF Expiry!Next
<1> QED BY <1>1, <1>2

-----------------------------------------------------------------------------
(* EnforceExpiry never marks an instance that runs and has been heard,     *)
(* however often the raft leader changes and whatever heartbeats reached   *)
(* the leaders before: two TTLs after its election a leader has heard of   *)
(* every one of them within the last interval.                             *)
THEOREM LiveInstancesStay == ASSUME Steady PROVE Expiry!Spec => []LiveNotMarked
<1>1. Expiry!Init => Inv
  BY InitInv
<1>2. Inv /\ [Expiry!Next]_Expiry!vars => Inv'
  BY NextInv
<1>3. Inv => LiveNotMarked
  <2> SUFFICES ASSUME Inv, NEW s \in Servers, NEW i \in Ids, Expiry!MayExpire(s), Expiry!Alive(i),
                      inst[i].heard
               PROVE  ~(server[s].heartbeats[i] > TTL)
    BY DEF LiveNotMarked, Expiry!LiveNotMarked, Expiry!Marked
  <2>1. leader = s /\ server[s].leaderTime # Expiry!Never /\ server[s].leaderTime >= 2
    <3>1. server[s].leaderTime \in 0..Expiry!Never
      BY DEF Inv, Types, Server
    <3> QED BY <3>1, Bounds DEF Expiry!MayExpire
  <2>2. server[s].heartbeats[i] \in Ages /\ inst[i].age \in {0, 1}
    BY DEF Inv, Types, Server, Instance
  <2>3. Heard(s, i)
    BY DEF Inv
  <2>4. server[s].leaderTime >= 1
    BY <2>1, Bounds DEF Inv, Types, Server
  <2>5. server[s].heartbeats[i] <= 1
    BY <2>1, <2>2, <2>3, <2>4 DEF Heard
  <2> QED BY <2>2, <2>5, Bounds DEF Ages
<1> QED BY <1>1, <1>2, <1>3, PTL DEF Expiry!Spec
=============================================================================
