------------------------------ MODULE UdpInput ------------------------------
(* The UDP input (plugins/input/udp/udp.c): sources of datagrams, a session  *)
(* for each, and the timer that closes the sessions of silent sources.  The  *)
(* getter handles one event at a time: a datagram or the timer.              *)
EXTENDS Naturals, Sequences, FiniteSets, SequencesExt

CONSTANTS
    Locals,      \* local addresses to bind to, or the wildcard alone
    Source,      \* pairs of a local socket and a remote address
    Timeout,     \* seconds of silence, configured (10 at least)
    MaxTime,     \* bound: the clock
    MaxCnt,      \* bound: messages of a source between two timer events
    Fails,       \* what cannot be allocated: "open", "ipfix", "close", "garbage"
    Sessions     \* bound: sessions made

VARIABLES
    now,         \* time(NULL)
    active,      \* the array of sources, unordered between two timer events
    udpMade,     \* sessions made so far
    udpTold,     \* the life of each session as the pipeline sees it
    early,       \* history: sessions the timer closed within the time-out
    checked,     \* history: time of the last timer event
    udpPc,       \* "epoll", "bind", "timer", "up", "refused" or "gone"
    sockets,     \* the sockets bound so far
    descriptors, \* open file descriptors
    watched      \* those that epoll reports on

listenVars == <<udpPc, sockets, descriptors, watched>>
udpVars == <<now, active, udpMade, udpTold, early, checked, listenVars>>
S == INSTANCE SessionStream WITH told <- udpTold

Init ==
    /\ now = 0 /\ active = <<>> /\ udpMade = 0 /\ S!Init
    /\ early = {} /\ checked = 0
    /\ udpPc = "epoll" /\ sockets = <<>> /\ descriptors = {} /\ watched = {}

-----------------------------------------------------------------------------
(* listener_init: epoll, the sockets and the timer, and a failure of each.   *)

udpIdle == <<now, active, udpMade, udpTold, early, checked>>
EpollCreate ==
    /\ udpPc = "epoll"
    /\ \/ descriptors' = {"epoll"} /\ udpPc' = "bind"
       \/ udpPc' = "refused" /\ UNCHANGED descriptors
    /\ UNCHANGED <<udpIdle, sockets, watched>>

\* address_bind gives a socket, which is added to epoll then.
Bound(address) == descriptors \cup {address}
\* What is closed when the instance ends, or cannot start.
MUT_Unbound(fds) == fds \ (ToSet(Tail(sockets)) \cup {"epoll", "timer"})
Unbound(fds) == fds \ (ToSet(sockets) \cup {"epoll", "timer"})
Refuse ==
    /\ descriptors' = Unbound(descriptors) /\ watched' = Unbound(watched)
    /\ udpPc' = "refused" /\ sockets' = <<>>
ListenerBind ==
    /\ udpPc = "bind"
    /\ LET address == Locals[Len(sockets) + 1] IN
       \/ /\ sockets' = Append(sockets, address)
          /\ descriptors' = Bound(address) /\ watched' = watched \cup {address}
          /\ udpPc' = IF Len(sockets') = Len(Locals) THEN "timer" ELSE "bind"
       \/ Refuse
    /\ UNCHANGED udpIdle
TimerInit ==
    /\ udpPc = "timer"
    /\ \/ /\ descriptors' = Bound("timer") /\ watched' = watched \cup {"timer"}
          /\ udpPc' = "up" /\ UNCHANGED sockets
       \/ Refuse
    /\ UNCHANGED udpIdle

Tick == /\ udpPc = "up" /\ now < MaxTime /\ now' = now + 1
        /\ UNCHANGED <<active, udpMade, udpTold, early, checked, listenVars>>

-----------------------------------------------------------------------------
(* process_socket.  A datagram too short or too long, or an error before its *)
(* source is looked up, changes nothing.                                     *)

\* active_find compares the socket and the address.
MUT_Find(a) == {i \in DOMAIN active : active[i].src = a /\ active[i].cnt > 0}
Find(a) == {i \in DOMAIN active : active[i].src = a}
\* (last is a history field: when the last message was passed)
New(a) == [src |-> a, ses |-> udpMade + 1, seen |-> now, cnt |-> 0, fresh |-> TRUE,
           last |-> now]

\* active_get: the source of the datagram, new at the end of the array if need be.
Add(a) == IF Find(a) # {} THEN active ELSE Append(active, New(a))
Position(a) == IF Find(a) # {} THEN CHOOSE i \in Find(a) : TRUE ELSE Len(active) + 1
CanAdd(a) == Find(a) # {} \/ udpMade + 1 \in Sessions

\* A header that is no header of IPFIX or NetFlow: only the source is remembered.
Malformed(a) ==
    /\ udpPc = "up" /\ CanAdd(a)
    /\ active' = Add(a) /\ udpMade' = IF Find(a) = {} THEN udpMade + 1 ELSE udpMade
    /\ UNCHANGED <<now, udpTold, early, checked, listenVars>>

\* A message; hello and msg say whether its announcement and itself can be allocated.
Greeting(src, hello) == IF ~src.fresh THEN <<>> ELSE IF hello THEN <<"open">> ELSE <<"lost">>
Datagram(a, hello, msg) ==
    /\ udpPc = "up" /\ CanAdd(a)
    /\ LET i == Position(a)  src == Add(a)[i]
       IN /\ src.cnt < MaxCnt
          /\ active' = [Add(a) EXCEPT ![i].fresh = FALSE, ![i].cnt = IF msg THEN @ + 1 ELSE @,
                                      ![i].last = IF msg THEN now ELSE @]
          /\ udpTold' = S!Say(udpTold, src.ses,
                              Greeting(src, hello) \o IF msg THEN <<"data">> ELSE <<>>)
    /\ udpMade' = IF Find(a) = {} THEN udpMade + 1 ELSE udpMade
    /\ UNCHANGED <<now, early, checked, listenVars>>

-----------------------------------------------------------------------------
(* process_timer                                                             *)

\* active_cmp_activity: more messages first, then the source seen later.
MUT_Before(l, r) == l.cnt > r.cnt
Before(l, r) == l.cnt > r.cnt \/ (l.cnt = 0 /\ r.cnt = 0 /\ l.seen > r.seen)

\* active_sort_and_reset; qsort puts equal sources in any order.
Sorted == {t \in {[i \in DOMAIN active |-> active[p[i]]] : p \in Bijection(DOMAIN active, DOMAIN active)} :
               \A i, j \in DOMAIN t : i < j => ~Before(t[j], t[i])}
Reset(t) == [i \in DOMAIN t |->
                IF t[i].cnt = 0 THEN t[i] ELSE [t[i] EXCEPT !.seen = now, !.cnt = 0]]

MUT_Farewell(src, out) == IF src.fresh THEN <<"destroy">> ELSE <<"garbage", "close">>
\* active_remove_by_id: what the pipeline hears when the message of the close,
\* or the garbage that follows it, can be allocated or not.
Farewell(src, out) ==
    IF src.fresh THEN <<"destroy">>
    ELSE CASE out = "nothing" -> <<"leak">>
           [] out = "close"   -> <<"close", "leak">>
           [] out = "all"     -> <<"close", "garbage">>
Outcome == {"all"} \cup (IF "close" \in Fails THEN {"nothing"} ELSE {})
                   \cup (IF "garbage" \in Fails THEN {"close"} ELSE {})
CanHello == {TRUE} \cup (IF "open" \in Fails THEN {FALSE} ELSE {})
CanMsg == {TRUE} \cup (IF "ipfix" \in Fails THEN {FALSE} ELSE {})
RemoveAll(gone, out) ==
    [s \in Sessions |-> IF \E src \in gone : src.ses = s
                        THEN udpTold[s] \o Farewell(CHOOSE src \in gone : src.ses = s, out[s])
                        ELSE udpTold[s]]

\* The first silent source and all that follow are removed; the clock is read a
\* second time after the sort.
Timer(late, out) ==
    /\ udpPc = "up" /\ active # <<>> /\ late \in {now, now + 1} /\ late <= MaxTime
    /\ \E t \in Sorted :
         LET a == Reset(t)
             Silent == {i \in DOMAIN a : a[i].seen + Timeout < late}
             n == IF Silent = {} THEN Len(a) ELSE (CHOOSE i \in Silent : \A j \in Silent : i <= j) - 1
             gone == {a[i] : i \in (n + 1) .. Len(a)}
         IN /\ active' = SubSeq(a, 1, n)
            /\ udpTold' = RemoveAll(gone, out)
            /\ early' = early \cup {src.ses : src \in {x \in gone : late - x.last <= Timeout}}
    /\ now' = late /\ checked' = late
    /\ UNCHANGED <<udpMade, listenVars>>

\* ipx_plugin_destroy closes every session.
UdpDestroy(out) ==
    /\ udpPc = "up" /\ udpPc' = "gone" /\ active' = <<>>
    /\ descriptors' = Unbound(descriptors) /\ watched' = Unbound(watched) /\ sockets' = <<>>
    /\ udpTold' = RemoveAll(Range(active), out)
    /\ UNCHANGED <<now, udpMade, early, checked>>

UdpDone == udpPc \in {"refused", "gone"} /\ UNCHANGED udpVars

Next ==
    \/ EpollCreate \/ ListenerBind \/ TimerInit \/ Tick
    \/ \E a \in Source : Malformed(a)
    \/ \E a \in Source, hello \in CanHello, msg \in CanMsg : Datagram(a, hello, msg)
    \/ \E late \in {now, now + 1}, o \in Outcome : Timer(late, [s \in Sessions |-> o])
    \/ \E o \in Outcome : UdpDestroy([s \in Sessions |-> o])
    \/ UdpDone

Spec == Init /\ [][Next]_udpVars

-----------------------------------------------------------------------------
(* The timer never closes a session that has passed a message within the     *)
(* time-out, and after each timer event no source that is silent for longer  *)
(* is left, in whatever order qsort puts sources that are equal              *)
(* (process_timer stops at the first silent source and removes the rest).    *)
TimeoutIsExact ==
    /\ early = {}
    /\ \A i \in DOMAIN active : active[i].seen + Timeout >= checked \/ active[i].cnt > 0

(* Every session lives in one entry of one source, and lives to its end.     *)
UdpSessionsOwned ==
    /\ \A i, j \in DOMAIN active :
           i # j => active[i].src # active[j].src /\ active[i].ses # active[j].ses
    /\ \A s \in Sessions : (\E i \in DOMAIN active : active[i].ses = s)
                             <=> (s <= udpMade /\ ~S!Ended(udpTold[s]))

(* An instance listens on all of its addresses and its timer, or on none; in *)
(* the latter case, and when it has ended, nothing is left open, whichever   *)
(* call failed (listener_init, listener_bind).                               *)
ListenerWhole ==
    /\ udpPc = "up" => watched = ToSet(Locals) \cup {"timer"} /\ descriptors = watched \cup {"epoll"}
    /\ watched \subseteq descriptors
    /\ udpPc \in {"refused", "gone"} => descriptors = {} /\ active = <<>>
    /\ active # <<>> => udpPc = "up"

UdpIsStream == S!Spec
=============================================================================
