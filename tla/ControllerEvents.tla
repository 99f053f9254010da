-------------------------- MODULE ControllerEvents --------------------------
(***************************************************************************)
(* The controller's event streams: transactions insert events, PostgreSQL  *)
(* notifies the listener when they commit, the listener's subscribers      *)
(* queue them (controller/data/events.go), a handler per connection lists  *)
(* past events and forwards new ones (controller/events.go), and a client  *)
(* that lost its connection resumes after the last event it has received   *)
(* (pkg/httpclient/stream.go).                                             *)
(*                                                                         *)
(* Identifiers of events come from a sequence: transactions may commit in  *)
(* another order.  The listener starts with a request and is closed when   *)
(* its connection to PostgreSQL breaks; the next request starts another.   *)
(* Filters and the bytes of a stream are left out.                         *)
(***************************************************************************)
EXTENDS Integers, Sequences, SequencesExt, FiniteSets

CONSTANTS MaxEvents,  \* bound on events
          MaxOpen,    \* bound on transactions that are open at a time
          QueueSize,  \* eventBufferSize
          MaxDrops,   \* bound on connections that break, the listener's included
          MaxMissed,  \* bound on notices whose event cannot be read
          MaxConns,   \* bound on connections
          Past        \* whether the client asks for past events

VARIABLES
  events,    \* the table: which events are inserted and committed
  listening, \* whether there is a listener, which is not closed
  notices,   \* notifications the listener has not handled
  missed,    \* events that could not be read when it was notified of them
  conns,     \* each connection's handler and subscriber
  conn,      \* the client's connection, 0 for none
  received,  \* the events the client has received
  start,     \* how many of them before it connected last
  before,    \* events the client does not ask for
  drops      \* connections that broke

server == <<events, listening, notices, missed>>
client == <<conn, received, start, before, drops>>
vars == <<server, conns, client>>

Ids == 1..MaxEvents
Conns == 1..MaxConns
Committed == {i \in Ids : events[i] = "committed"}

(* A connection: its handler, its subscriber with its loop, lastID of the  *)
(* request, the events that were listed and are not sent, currID and the   *)
(* event in the handler's hand.                                            *)
NoConn == [handler |-> "none", alive |-> FALSE, sub |-> "none", loop |-> "none",
           queue |-> <<>>, held |-> 0, last |-> 0, list |-> {}, curr |-> 0, hand |-> 0]

lastID == IF received = <<>> THEN 0 ELSE Last(received)

Init ==
  /\ events = [i \in Ids |-> "none"] /\ listening = FALSE /\ notices = <<>> /\ missed = {}
  /\ conns = [k \in Conns |-> NoConn] /\ conn = 0 /\ received = <<>> /\ start = 0 /\ before = {}
  /\ drops = 0

-----------------------------------------------------------------------------
(* The database. *)
Insert ==
  /\ Cardinality({i \in Ids : events[i] = "open"}) < MaxOpen
  /\ \E i \in Ids : /\ events[i] = "none" /\ \A j \in 1..(i - 1) : events[j] # "none"
                    /\ events' = [events EXCEPT ![i] = "open"]
  /\ UNCHANGED <<listening, notices, missed, conns, client>>

Commit(i) ==
  /\ events[i] = "open" /\ events' = [events EXCEPT ![i] = "committed"]
  /\ notices' = IF listening THEN Append(notices, i) ELSE notices
  /\ UNCHANGED <<listening, missed, conns, client>>

-----------------------------------------------------------------------------
(* Notify of a subscriber: an event that does not fit closes it, later. *)
Queued(c, i) ==
  IF c.sub \notin {"open", "closing"} THEN c
  ELSE IF Len(c.queue) < QueueSize THEN [c EXCEPT !.queue = Append(@, i)]
  ELSE [c EXCEPT !.sub = "closing"]

Listen ==
  /\ notices # <<>> /\ notices' = Tail(notices)
  /\ conns' = [k \in Conns |-> Queued(conns[k], Head(notices))]
  /\ UNCHANGED <<events, listening, missed, client>>

(* The event cannot be read: the notice is logged, and no subscriber has   *)
(* it.                                                                     *)
GetEventFails ==
  /\ notices # <<>> /\ notices' = Tail(notices) /\ Cardinality(missed) < MaxMissed
  /\ missed' = missed \cup {Head(notices)}
  /\ UNCHANGED <<events, listening, conns, client>>

(* The listener's connection breaks: it is closed, and goroutines close    *)
(* its subscribers, to which nothing is queued any more.                   *)
ListenerCloses ==
  /\ listening /\ listening' = FALSE /\ notices' = <<>>
  /\ drops < MaxDrops /\ drops' = drops + 1
  /\ conns' = [k \in Conns |-> IF conns[k].sub \in {"open", "closing"}
                               THEN [conns[k] EXCEPT !.sub = "left"] ELSE conns[k]]
  /\ UNCHANGED <<events, missed, conn, received, start, before>>

(* CloseWithError in its goroutine: unsubscribed, and told to stop. *)
CloseWithError(k) ==
  /\ conns[k].sub \in {"closing", "left"} /\ conns' = [conns EXCEPT ![k].sub = "closed"]
  /\ UNCHANGED <<server, client>>

(* The subscriber's loop takes an event, which it then has to send. *)
LoopTake(k) ==
  /\ conns[k].loop = "running" /\ conns[k].held = 0 /\ conns[k].queue # <<>>
  /\ conns' = [conns EXCEPT ![k].held = Head(conns[k].queue), ![k].queue = Tail(conns[k].queue)]
  /\ UNCHANGED <<server, client>>

LoopStop(k) ==
  /\ conns[k].loop = "running" /\ conns[k].held = 0 /\ conns[k].sub = "closed"
  /\ conns' = [conns EXCEPT ![k].loop = "done"]
  /\ UNCHANGED <<server, client>>

-----------------------------------------------------------------------------
(* A request: the handler subscribes, to a new listener when there is none. *)
Connect(k) ==
  /\ conn = 0 /\ conns[k].handler = "none" /\ \A j \in 1..(k - 1) : conns[j].handler # "none"
  /\ conns' = [conns EXCEPT ![k] = [NoConn EXCEPT !.handler = "subscribed", !.alive = TRUE,
                                    !.sub = "open", !.loop = "running", !.last = lastID]]
  /\ conn' = k /\ start' = Len(received)
  /\ before' = IF k = 1 /\ ~Past THEN Committed ELSE before
  /\ listening' = TRUE
  /\ UNCHANGED <<events, notices, missed, received, drops>>

(* ListEvents: the events after lastID that are committed. *)
ListEvents(k) ==
  LET c == conns[k]
      list == IF Past \/ c.last > 0 THEN {i \in Committed : i > c.last} ELSE {} IN
  /\ c.handler = "subscribed"
  /\ conns' = [conns EXCEPT ![k].handler = IF list = {} THEN "live" ELSE "listing", ![k].list = list]
  /\ UNCHANGED <<server, client>>

(* Mutant: the handler does not skip what it has listed. *)
SendListed_NoCurrent(k) ==
  LET c == conns[k] IN
  /\ c.handler = "listing" /\ c.alive
  /\ \E i \in c.list :
       /\ \A j \in c.list : i <= j
       /\ received' = Append(received, i)
       /\ conns' = [conns EXCEPT ![k].list = @ \ {i},
                      ![k].handler = IF c.list = {i} THEN "live" ELSE "listing"]
  /\ UNCHANGED <<server, conn, start, before, drops>>

(* Listed events are sent in the order of their identifiers. *)
SendListed(k) ==
  LET c == conns[k] IN
  /\ c.handler = "listing" /\ c.alive
  /\ \E i \in c.list :
       /\ \A j \in c.list : i <= j
       /\ received' = Append(received, i)
       /\ conns' = [conns EXCEPT ![k].list = @ \ {i}, ![k].curr = i,
                      ![k].handler = IF c.list = {i} THEN "live" ELSE "listing"]
  /\ UNCHANGED <<server, conn, start, before, drops>>

(* Mutant: the event after the listed ones is skipped too. *)
HandlerTake_OffByOne(k) ==
  LET c == conns[k]
      skip == c.curr > 0 /\ c.held <= c.curr + 1 IN
  /\ c.handler = "live" /\ c.held # 0
  /\ conns' = [conns EXCEPT ![k].held = 0, ![k].hand = IF skip THEN 0 ELSE c.held,
                 ![k].handler = IF skip THEN "live" ELSE "sending"]
  /\ UNCHANGED <<server, client>>

(* An event from the loop: skipped if it was listed, else to be sent. *)
HandlerTake(k) ==
  LET c == conns[k] IN
  /\ c.handler = "live" /\ c.held # 0
  /\ conns' = [conns EXCEPT ![k].held = 0,
                 ![k].hand = IF c.held <= c.curr THEN 0 ELSE c.held,
                 ![k].handler = IF c.held <= c.curr THEN "live" ELSE "sending"]
  /\ UNCHANGED <<server, client>>

HandlerSend(k) ==
  /\ conns[k].handler = "sending" /\ conns[k].alive
  /\ received' = Append(received, conns[k].hand)
  /\ conns' = [conns EXCEPT ![k].handler = "live", ![k].hand = 0]
  /\ UNCHANGED <<server, conn, start, before, drops>>

(* The handler returns when the client is gone or its subscriber is done,  *)
(* and closes both.                                                        *)
HandlerReturn(k) ==
  /\ conns[k].handler = "live" /\ (~conns[k].alive \/ conns[k].loop = "done")
  /\ conns' = [conns EXCEPT ![k].handler = "done", ![k].alive = FALSE, ![k].sub = "closed"]
  /\ conn' = IF conn = k THEN 0 ELSE conn
  /\ UNCHANGED <<server, received, start, before, drops>>

(* The connection breaks. *)
Drop ==
  /\ conn # 0 /\ drops < MaxDrops /\ drops' = drops + 1
  /\ conns' = [conns EXCEPT ![conn].alive = FALSE] /\ conn' = 0
  /\ UNCHANGED <<server, received, start, before>>

Step(k) ==
  \/ CloseWithError(k) \/ LoopTake(k) \/ LoopStop(k) \/ Connect(k)
  \/ ListEvents(k) \/ SendListed(k) \/ HandlerTake(k) \/ HandlerSend(k) \/ HandlerReturn(k)
Next ==
  \/ Insert \/ Listen \/ GetEventFails \/ ListenerCloses \/ Drop \/ \E i \in Ids : Commit(i)
  \/ \E k \in Conns : Step(k)
Spec == Init /\ [][Next]_vars

(* Transactions commit and goroutines go on.                               *)
Fairness ==
  /\ WF_vars(Listen) /\ WF_vars(\E i \in Ids : Commit(i))
  /\ \A k \in Conns :
       /\ WF_vars(CloseWithError(k)) /\ WF_vars(LoopTake(k)) /\ WF_vars(LoopStop(k))
       /\ WF_vars(Connect(k)) /\ WF_vars(ListEvents(k)) /\ WF_vars(SendListed(k))
       /\ WF_vars(HandlerTake(k)) /\ WF_vars(HandlerSend(k)) /\ WF_vars(HandlerReturn(k))
FairSpec == Spec /\ Fairness

-----------------------------------------------------------------------------
(* Types, and no subscriber has more events than its queue holds. *)
TypeOK ==
  /\ events \in [Ids -> {"none", "open", "committed"}]
  /\ listening \in BOOLEAN
  /\ ToSet(notices) \cup ToSet(received) \cup before \cup missed \subseteq Committed
  /\ \A k \in Conns : LET c == conns[k] IN
       /\ c.handler \in {"none", "subscribed", "listing", "live", "sending", "done"} /\ c.alive \in BOOLEAN
       /\ c.sub \in {"none", "open", "closing", "left", "closed"} /\ c.loop \in {"none", "running", "done"}
       /\ ToSet(c.queue) \cup c.list \subseteq Committed /\ Len(c.queue) <= QueueSize
       /\ {c.held, c.last, c.curr, c.hand} \subseteq {0} \cup Committed
  /\ conn \in {0} \cup Conns /\ start \in 0..Len(received) /\ drops \in 0..MaxDrops

(* With one transaction at a time, a connection has events in their order, *)
(* each once, although some are both listed and notified.  The first       *)
(* events of a connection may repeat what an earlier one had: currID is 0  *)
(* when nothing is listed.                                                 *)
InOrder == \A m, n \in start+1..Len(received) : m < n => received[m] < received[n]

(* The client receives every event it asked for in the end: "forwards them *)
(* to subscribers", but for those that could not be read when the listener *)
(* was notified of them.                                                   *)
AllReceived == <>[](Committed \ (before \cup missed) \subseteq ToSet(received))

(* When the client is gone, the handler and the loop of its subscriber     *)
(* end: Close "stops the loop".                                            *)
StreamsEnd == \A k \in Conns : (conns[k].handler # "none" /\ ~conns[k].alive) ~>
                                 (conns[k].handler = "done" /\ conns[k].loop = "done")
=============================================================================
