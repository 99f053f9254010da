----------------------------- MODULE RouterSync -----------------------------
(***************************************************************************)
(* The router: Syncer.Sync keeps the tables of an HTTP or a TCP listener   *)
(* in step with the routes of the controller.  It watches the events of    *)
(* routes, then lists them, sets what is listed and removes the rest, and  *)
(* then follows the events, some of which are older than the list.  An     *)
(* error ends it, and it starts again.                                     *)
(***************************************************************************)
EXTENDS Integers, Sequences, FiniteSets

LOCAL INSTANCE SequencesExt

CONSTANTS
  Kind,        \* "http" or "tcp"
  Services,    \* services that routes lead to
  MaxOpen,     \* bounds: transactions at a time
  MaxRoutes,   \* routes added
  MaxUpdates,  \* routes updated
  MaxBreaks,   \* requests that fail for good
  MaxResumes   \* streams that break and are resumed

VARIABLES
  store,       \* the routes of the controller, by identifier
  open,        \* transactions that have changed a row and not committed yet
  log,         \* the events of routes
  sync,        \* Sync: its phase, its place in the events, what it has to do
  routes,      \* the listener's routes, by identifier
  table,       \* what a request finds: HTTP's tree of a domain, TCP's listeners of a port
  refs,        \* the reference counts of the services
  count        \* what has happened, for the bounds and for RoutesFollow

vars == <<store, open, log, sync, routes, table, refs, count>>

(* Of one domain: the default route and a path below it.  Of TCP: a port. *)
Places == IF Kind = "http" THEN {"/", "/sub/"} ELSE {"port"}
Nobody == [id |-> 0, place |-> "none", service |-> "none"]

(* A listener starts with nothing. *)
NoRefs == [s \in Services |-> 0]
NoTable == [p \in {"/", "/sub/", "port"} |-> <<>>]

Init ==
  /\ store = <<>> /\ open = {} /\ log = <<>>
  /\ sync = [pc |-> "off", next |-> 1, seen |-> FALSE, up |-> FALSE, todo |-> <<>>, gone |-> {}]
  /\ routes = {} /\ table = NoTable /\ refs = NoRefs
  /\ count = [updates |-> 0, breaks |-> 0, resumes |-> 0, orphaned |-> FALSE, again |-> FALSE]

-----------------------------------------------------------------------------
(* The controller.  A place has one route; a path needs the default route  *)
(* of its domain, which stays while it has paths.  The trigger checks this *)
(* when the statement runs and takes no lock: a transaction that commits   *)
(* in between is not seen.                                                 *)
Live == {i \in DOMAIN store : store[i].live}
At(p) == {i \in Live : store[i].place = p}

check_http_route_update(p, deleting) ==
  IF deleting THEN p = "/" => At("/sub/") = {} ELSE p = "/sub/" => At("/") # {}

(* The row of a statement, which stays locked until the commit. *)
Locked == {t.id : t \in open}
Execute(op, i, p, s) ==
  /\ Cardinality(open) < MaxOpen
  /\ check_http_route_update(p, op = "delete")
  /\ open' = open \cup {[op |-> op, id |-> i, place |-> p, service |-> s]}
  /\ UNCHANGED <<store, log, sync, routes, table, refs>>

AddRoute ==
  /\ Len(store) + Cardinality({t \in open : t.op = "add"}) < MaxRoutes
  /\ \E p \in Places, s \in Services : Execute("add", 0, p, s)
  /\ UNCHANGED count

UpdateRoute ==
  /\ count.updates < MaxUpdates /\ count' = [count EXCEPT !.updates = @ + 1]
  /\ \E i \in Live \ Locked : \E s \in Services \ {store[i].service} :
       Execute("update", i, store[i].place, s)

DeleteRoute ==
  /\ \E i \in Live \ Locked : Execute("delete", i, store[i].place, store[i].service)
  /\ UNCHANGED count

(* The rows that a transaction leaves.  The unique index makes an addition *)
(* wait for the transaction that deletes the route of its place.           *)
Written(t) ==
  CASE t.op = "add"    -> Append(store, [place |-> t.place, service |-> t.service, live |-> TRUE])
    [] t.op = "update" -> [store EXCEPT ![t.id].service = t.service]
    [] t.op = "delete" -> [store EXCEPT ![t.id].live = FALSE]

createEvent(t) ==
  Append(log, [op |-> IF t.op = "delete" THEN "remove" ELSE "set",
               route |-> [id |-> IF t.op = "add" THEN Len(store) + 1 ELSE t.id,
                          place |-> t.place, service |-> t.service]])

Orphaned(rows) ==
  LET places == {rows[i].place : i \in {i \in DOMAIN rows : rows[i].live}} IN
  "/sub/" \in places /\ "/" \notin places

Commit ==
  \E t \in open :
    /\ open' = open \ {t}
    /\ IF t.op = "add" /\ At(t.place) # {}
       THEN At(t.place) \cap Locked = {} /\ UNCHANGED <<store, log, count>>
       ELSE /\ store' = Written(t) /\ log' = createEvent(t)
            /\ count' = [count EXCEPT !.orphaned = @ \/ Orphaned(Written(t))]
    /\ UNCHANGED <<sync, routes, table, refs>>

-----------------------------------------------------------------------------
(* The listener.  A path is inserted below its default route, and          *)
(* removing the default route removes the domain, but only while it is the *)
(* one that is served.                                                     *)
Insert(r) == [table EXCEPT ![r.place] = <<r>>]
RemovePath(p) == [table EXCEPT ![p] = <<>>]

HttpSet(r) == IF r.place = "/sub/" /\ table["/"] = <<>> THEN table ELSE Insert(r)

HttpRemove_Any(r) == RemovePath(r.place)
HttpRemove(r) ==
  CASE table[r.place] = <<>> \/ table[r.place][1].id # r.id -> table
    [] r.place = "/" -> NoTable
    [] OTHER         -> RemovePath(r.place)

(* Every TCP route opens a listener of its port, and closes the last that  *)
(* it opened.                                                              *)
Newest(q, i) == SelectLastInSeq(q, LAMBDA r : r.id = i)
TcpSet(r) == [table EXCEPT !["port"] = Append(@, r)]
TcpRemove(r) == [table EXCEPT !["port"] = RemoveAt(@, Newest(@, r.id))]

Known(i) == \E r \in routes : r.id = i
Listener == <<routes, table, refs>>

(* Setting a route counts a reference to its service, also when the route  *)
(* is known.                                                               *)
SetRoute(r) ==
  /\ count' = [count EXCEPT !.again = @ \/ Known(r.id)]
  /\ routes' = {x \in routes : x.id # r.id} \cup {r}
  /\ refs' = [refs EXCEPT ![r.service] = @ + 1]
  /\ table' = IF Kind = "tcp" THEN TcpSet(r) ELSE HttpSet(r)

RemoveRoute(i) ==
  /\ UNCHANGED count
  /\ \E r \in routes :
       /\ r.id = i /\ routes' = routes \ {r}
       /\ refs' = [refs EXCEPT ![r.service] = @ - 1]
       /\ table' = IF Kind = "tcp" THEN TcpRemove(r) ELSE HttpRemove(r)

-----------------------------------------------------------------------------
Watch ==
  /\ sync.pc = "off"
  /\ sync' = [sync EXCEPT !.pc = "list", !.next = Len(log) + 1, !.seen = FALSE]
  /\ UNCHANGED <<store, open, log, routes, table, refs, count>>

(* Default routes come before the paths below them. *)
sortInitialRoutes(S) ==
  SetToSortSeq(S, LAMBDA x, y : x.place = "/" /\ y.place = "/sub/")

List ==
  LET current == {[id |-> i, place |-> store[i].place, service |-> store[i].service] : i \in Live}
  IN /\ sync.pc = "list"
     /\ sync' = [sync EXCEPT !.pc = "set", !.todo = sortInitialRoutes(current),
                             !.gone = {r.id : r \in routes} \ Live]
     /\ UNCHANGED <<store, open, log, routes, table, refs, count>>

SetListed ==
  /\ sync.pc = "set" /\ sync.todo # <<>>
  /\ SetRoute(Head(sync.todo))
  /\ sync' = [sync EXCEPT !.todo = Tail(@)]
  /\ UNCHANGED <<store, open, log>>

RemoveGone ==
  /\ sync.pc = "set" /\ sync.todo = <<>>
  /\ \E i \in sync.gone : RemoveRoute(i) /\ sync' = [sync EXCEPT !.gone = @ \ {i}]
  /\ UNCHANGED <<store, open, log>>

Started ==
  /\ sync.pc = "set" /\ sync.todo = <<>> /\ sync.gone = {}
  /\ sync' = [sync EXCEPT !.pc = "events", !.up = TRUE]
  /\ UNCHANGED <<store, open, log, routes, table, refs, count>>

(* A route that is unknown is not an error of an event. *)
handleUpdate ==
  /\ sync.pc = "events" /\ sync.next <= Len(log)
  /\ LET e == log[sync.next] IN
     IF e.op = "set" THEN SetRoute(e.route)
     ELSE IF Known(e.route.id) THEN RemoveRoute(e.route.id) ELSE UNCHANGED <<Listener, count>>
  /\ sync' = [sync EXCEPT !.next = @ + 1, !.seen = TRUE]
  /\ UNCHANGED <<store, open, log>>

(* ResumingStream asks for the events after the last one it received; one  *)
(* that received none gets only those that are still to come.              *)
ResumingStream ==
  /\ sync.pc # "off" /\ count.resumes < MaxResumes
  /\ count' = [count EXCEPT !.resumes = @ + 1]
  /\ sync' = IF sync.seen THEN sync ELSE [sync EXCEPT !.next = Len(log) + 1]
  /\ UNCHANGED <<store, open, log, routes, table, refs>>

(* The stream cannot be resumed, the list fails, or discoverd fails to     *)
(* open a service.  runSync starts again; before the first sync is         *)
(* complete the router exits and is started again.                         *)
Break ==
  /\ sync.pc # "off" /\ count.breaks < MaxBreaks
  /\ count' = [count EXCEPT !.breaks = @ + 1]
  /\ sync' = [sync EXCEPT !.pc = "off", !.todo = <<>>, !.gone = {}]
  /\ IF sync.up THEN UNCHANGED Listener
     ELSE routes' = {} /\ table' = NoTable /\ refs' = NoRefs
  /\ UNCHANGED <<store, open, log>>

Sync == Watch \/ List \/ SetListed \/ RemoveGone \/ Started \/ handleUpdate

Next == AddRoute \/ UpdateRoute \/ DeleteRoute \/ Commit \/ Sync \/ ResumingStream \/ Break

Spec == Init /\ [][Next]_vars

(* The controller and discoverd answer in the end, and Sync goes on. *)
Fairness == WF_vars(Sync)

-----------------------------------------------------------------------------
(* Routes, references and the table have their types. *)
TypeOK ==
  /\ \A r \in routes : r.id \in 1..MaxRoutes /\ r.place \in DOMAIN table /\ r.service \in Services
  /\ \A s \in Services : refs[s] \in Nat
  /\ sync.pc \in {"off", "list", "set", "events"}

(* No route is served by a service that was closed because its references  *)
(* were used up.                                                           *)
Backed == \A r \in routes : refs[r.service] > 0

(* Lookup: the longest path that is known, or the default route. *)
Lookup(p) ==
  IF p = "/sub/" /\ table[p] = <<>> /\ table["/"] # <<>> THEN table["/"][1]
  ELSE IF table[p] = <<>> THEN Nobody ELSE table[p][1]

Expected(p) ==
  LET S == IF p = "/sub/" /\ At(p) = {} THEN At("/") ELSE At(p) IN
  IF S = {} THEN Nobody
  ELSE LET i == CHOOSE i \in S : TRUE IN
       [id |-> i, place |-> store[i].place, service |-> store[i].service]

(* In the end every HTTP request meets the route that the controller has   *)
(* for it, whatever was changed while the stream was broken or the list    *)
(* was read; a path that was left without its default route may not be     *)
(* found.  Of TCP, the controller's route of a port listens on it, and     *)
(* nobody else unless a route that was known has been set again.           *)
RoutesFollow ==
  <>[](\A p \in Places :
         IF Kind = "http" THEN (p = "/sub/" /\ count.orphaned) \/ Lookup(p) = Expected(p)
         ELSE /\ Expected(p) = Nobody \/ Expected(p) \in ToSet(table[p])
              /\ count.again \/ ToSet(table[p]) \subseteq {Expected(p)})
=============================================================================
