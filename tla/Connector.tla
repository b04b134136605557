------------------------------ MODULE Connector ------------------------------
(* The connector of the forwarder (forwarder/src/connector): a thread makes  *)
(* connections for requests of the plugin, retries, and keeps some in stock. *)
(* A request is known by its future socket; its host never changes.  What    *)
(* getaddrinfo, connect and poll report is chosen.                           *)
EXTENDS Naturals, Sequences, FiniteSets, SequencesExt

CONSTANTS
    Host,
    Premade,     \* premadeConnections, per host
    Addresses,   \* bound: addresses of each host
    MaxFuture    \* bound: requests

VARIABLES
    asked,       \* hosts of the requests made so far
    futures,     \* what became of each: "wait", "set", "dropped", "had"
    newRequests, \* m_new_requests, under the mutex
    requests,    \* m_requests
    tasks,       \* m_tasks: [host, state, delayed, left: addresses to try]
    untried,     \* ghost: a connection failed although its host has another address
    conPc        \* the thread: <<"events", i>>, <<"requests">>, <<"start", i>>, <<"cleanup">>,
                 \* <<"stopped">>

conVars == <<asked, futures, newRequests, requests, tasks, untried, conPc>>

Task(host) == [host |-> host, state |-> "NotStarted", delayed |-> FALSE, left |-> 0]

Init ==
    /\ asked = <<>> /\ futures = <<>> /\ newRequests = <<>> /\ requests = <<>>
    /\ tasks = FlattenSeq([i \in 1 .. Cardinality(Host) |->
                   [k \in 1 .. Premade |-> Task(SetToSeq(Host)[i])]])
    /\ untried = FALSE /\ conPc = <<"requests">>

-----------------------------------------------------------------------------
(* The plugin's thread.                                                      *)

Get(host) ==
    /\ Len(asked) < MaxFuture
    /\ asked' = Append(asked, host) /\ futures' = Append(futures, "wait")
    /\ newRequests' = Append(newRequests, Len(asked) + 1)
    /\ UNCHANGED <<requests, tasks, untried, conPc>>

\* The session is closed: its end of the future is dropped.
Drop(f) ==
    /\ futures[f] = "wait" /\ futures' = [futures EXCEPT ![f] = "dropped"]
    /\ UNCHANGED <<asked, newRequests, requests, tasks, untried, conPc>>

Retrieve(f) ==
    /\ futures[f] = "set" /\ futures' = [futures EXCEPT ![f] = "had"]
    /\ UNCHANGED <<asked, newRequests, requests, tasks, untried, conPc>>

-----------------------------------------------------------------------------
(* The connector's thread.                                                   *)

\* Somebody else still has the future (use_count).
Wanted(f) == futures[f] # "dropped"
For(host, fs) == SelectSeq(fs, LAMBDA f : asked[f] = host /\ Wanted(f))
WithState(ts, host, states) == {i \in DOMAIN ts : ts[i].host = host /\ ts[i].state \in states}
Alive == {"NotStarted", "Connecting", "Connected"}

MUT_ShouldRestart(i, reqs) ==      \* only the stock is counted
    Premade > Cardinality(WithState(tasks, tasks[i].host, Alive) \ {i})

ShouldRestart(i, reqs) ==
    LET host == tasks[i].host
    IN  Premade + Len(For(host, reqs)) > Cardinality(WithState(tasks, host, Alive) \ {i})

SetState(i, state, delayed) ==
    [tasks EXCEPT ![i] = [@ EXCEPT !.state = state, !.delayed = delayed, !.left = 0]]
Again(i, reqs, delayed) ==
    IF ShouldRestart(i, reqs) THEN SetState(i, "NotStarted", delayed)
    ELSE SetState(i, "ToBeDeleted", FALSE)

Step(phase, i, after) ==
    /\ conPc[1] = phase
    /\ conPc' = IF i < Len(tasks) THEN <<phase, i + 1>> ELSE after

TaskFails(i, left) ==
    /\ tasks' = Again(i, requests, TRUE) /\ untried' = (untried \/ left > 0)
    /\ UNCHANGED <<futures, requests>>
Connecting(i, left) ==
    /\ tasks' = [tasks EXCEPT ![i] = [@ EXCEPT !.state = "Connecting", !.delayed = FALSE, !.left = left]]
    /\ UNCHANGED <<futures, requests, untried>>

\* Each of the addresses that are left may fail at once; the first that does not
\* is connected to, and if there is none the task fails.
MUT_ConnectNext(i, left) == (\E l \in 0 .. left - 1 : Connecting(i, l)) \/ TaskFails(i, left - 1)
ConnectNext(i, left) == (\E l \in 0 .. left - 1 : Connecting(i, l)) \/ TaskFails(i, 0)

\* The socket goes to the first request for the host.
GiveSocket(i, f) ==
    /\ futures' = [futures EXCEPT ![f] = "set"]
    /\ requests' = Remove(requests, f)
    /\ tasks' = Again(i, Remove(requests, f), FALSE)

TooMany(i) == Cardinality(WithState(tasks, tasks[i].host, {"Connected"})) > Premade

TaskConnected(i) ==
    LET open == For(tasks[i].host, requests)
    IN  /\ UNCHANGED untried
        /\ \/ open # <<>> /\ GiveSocket(i, Head(open))
           \/ open = <<>> /\ UNCHANGED <<futures, requests>>
              /\ tasks' = SetState(i, IF TooMany(i) THEN "ToBeDeleted" ELSE "Connected", FALSE)

\* An event of a socket is its error, or that it is connected.
Polled(i) == tasks[i].state \in {"Connecting", "Connected"}
SocketError(i) ==
    IF tasks[i].state = "Connecting" /\ tasks[i].left > 0 THEN ConnectNext(i, tasks[i].left)
    ELSE TaskFails(i, 0)
PollEvent(i) ==
    /\ Step("events", i, <<"requests">>)
    /\ IF i > Len(tasks) THEN UNCHANGED <<futures, requests, tasks, untried>>
       ELSE \/ UNCHANGED <<futures, requests, tasks, untried>>
            \/ Polled(i) /\ SocketError(i)
            \/ tasks[i].state = "Connecting" /\ TaskConnected(i)
    /\ UNCHANGED <<asked, newRequests>>

\* A request is met from the stock, or else gets a task.
Meet(r, f) ==
    LET host == asked[f]
        stock == {i \in DOMAIN r.tasks : r.tasks[i].host = host /\ r.tasks[i].state = "Connected"}
        first == CHOOSE i \in stock : \A j \in stock : i <= j
    IN  IF stock # {}
        THEN [r EXCEPT !.tasks = [@ EXCEPT ![first] = Task(host)], !.set = @ \cup {f}]
        ELSE [r EXCEPT !.tasks = Append(@, Task(host)), !.requests = Append(@, f)]

ProcessRequests ==
    LET r == FoldLeft(LAMBDA x, f : Meet(x, f),
                      [tasks |-> tasks, requests |-> SelectSeq(requests, Wanted), set |-> {}],
                      newRequests)
    IN  /\ conPc = <<"requests">> /\ conPc' = <<"start", 1>>
        /\ tasks' = r.tasks /\ requests' = r.requests /\ newRequests' = <<>>
        /\ futures' = [f \in DOMAIN futures |->
               IF f \in r.set /\ Wanted(f) THEN "set" ELSE futures[f]]
        /\ UNCHANGED <<asked, untried>>

\* The host has an address or more, or cannot be resolved.
TaskStart(i) == TaskFails(i, 0) \/ \E n \in 1 .. Addresses[tasks[i].host] : ConnectNext(i, n)

\* A delay may be over or not.
StartTask(i) ==
    /\ Step("start", i, <<"cleanup">>)
    /\ IF i > Len(tasks) \/ tasks[i].state # "NotStarted"
       THEN UNCHANGED <<futures, requests, tasks, untried>>
       ELSE \/ tasks[i].delayed /\ UNCHANGED <<futures, requests, tasks, untried>>
            \/ TaskStart(i)
    /\ UNCHANGED <<asked, newRequests>>

\* And wait for an event; whatever came into the pipe is thrown away.
Cleanup ==
    /\ conPc = <<"cleanup">> /\ conPc' = <<"events", 1>>
    /\ tasks' = SelectSeq(tasks, LAMBDA t : t.state # "ToBeDeleted")
    /\ UNCHANGED <<asked, futures, newRequests, requests, untried>>

\* The plugin ends, or an exception ends the thread (one while a round is on leaves
\* what the round has done): the plugin is not told.
ThreadEnds ==
    /\ conPc = <<"events", 1>> /\ conPc' = <<"stopped">>
    /\ UNCHANGED <<asked, futures, newRequests, requests, tasks, untried>>

Next ==
    \/ \E host \in Host : Get(host)
    \/ \E f \in DOMAIN futures : Drop(f) \/ Retrieve(f)
    \/ conPc[1] = "events" /\ PollEvent(conPc[2])
    \/ ProcessRequests
    \/ conPc[1] = "start" /\ StartTask(conPc[2])
    \/ Cleanup
    \/ ThreadEnds
    \/ conPc = <<"stopped">> /\ UNCHANGED conVars

-----------------------------------------------------------------------------
(* For every request that is still wanted, and for the stock, there is a     *)
(* task that can still make its connection: no session waits for ever while  *)
(* its host can be reached, although tasks serve whichever request is first  *)
(* and the thread lives.                                                      *)
NoRequestStarves ==
    conPc # <<"stopped">> => \A host \in Host :
        Cardinality(WithState(tasks, host, Alive)) >= Premade + Len(For(host, requests))

(* A request is with the thread exactly as long as its future is not set,    *)
(* in one list, and connections in stock do not pile up: one more than       *)
(* configured may come of a request that was dropped.  No connection fails   *)
(* before all addresses of the host have.                                     *)
Held(f) == Cardinality({i \in DOMAIN newRequests : newRequests[i] = f})
           + Cardinality({i \in DOMAIN requests : requests[i] = f})
RequestsExact ==
    /\ ~untried
    /\ \A f \in DOMAIN futures :
           /\ Held(f) <= 1
           /\ futures[f] = "wait" => Held(f) = 1
           /\ futures[f] \in {"set", "had"} => Held(f) = 0
    /\ \A host \in Host : Cardinality(WithState(tasks, host, {"Connected"})) <= Premade + 1
=============================================================================
