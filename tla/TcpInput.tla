------------------------------ MODULE TcpInput ------------------------------
(* The TCP input (plugins/input/tcp): a thread that accepts connections      *)
(* (Acceptor.cpp) beside the thread of the instance, which waits for up to   *)
(* Batch ready connections and receives from them by the pointers it got     *)
(* from epoll (Plugin.cpp, Connection.cpp); both change the list of          *)
(* connections under the mutex of ClientManager.cpp.  Decoding is TcpDecoder. *)
EXTENDS Naturals, Sequences, FiniteSets, SequencesExt

CONSTANTS
    Batch,       \* events taken from epoll at once (16)
    Sessions     \* bound: connections accepted

VARIABLES
    acceptor,    \* "run" or "gone"
    command,     \* the pipe to the acceptor holds the command to exit
    conns,       \* the list: [ses, fresh, polled]
    batch,       \* sessions of the connections still to receive from
    closing,     \* the session to close next, 0 if none
    tcpMade, tcpTold,
    tcpPc        \* "idle", "work" (inside the getter), "join", "closeall", "gone"

tcpVars == <<acceptor, command, conns, batch, closing, tcpMade, tcpTold, tcpPc>>
S == INSTANCE SessionStream WITH told <- tcpTold

Init ==
    /\ acceptor = "run" /\ command = FALSE /\ conns = <<>> /\ batch = <<>>
    /\ closing = 0 /\ tcpMade = 0 /\ S!Init /\ tcpPc = "idle"

-----------------------------------------------------------------------------
(* The acceptor.  A connection that cannot be prepared is dropped without    *)
(* trace; one that epoll does not take stays in the list and is never polled *)
(* (add_connection inserts it before it calls epoll).                        *)

Accept(polled) ==
    /\ acceptor = "run" /\ tcpMade + 1 \in Sessions
    /\ tcpMade' = tcpMade + 1
    /\ conns' = Append(conns, [ses |-> tcpMade + 1, fresh |-> TRUE, polled |-> polled])
    /\ UNCHANGED <<acceptor, command, batch, closing, tcpTold, tcpPc>>

\* The command to exit, or an error of epoll or of the pipe.
AcceptorExit ==
    /\ acceptor = "run" /\ acceptor' = "gone"
    /\ UNCHANGED <<command, conns, batch, closing, tcpMade, tcpTold, tcpPc>>

-----------------------------------------------------------------------------
(* The instance *)

Ready == {c \in Range(conns) : c.polled}

\* wait_for_connections
Wait ==
    /\ tcpPc = "idle" /\ tcpPc' = "work"
    /\ \E R \in SUBSET {c.ses : c \in Ready} :
           Cardinality(R) \in 1 .. Batch /\ batch' \in SetToSeqs(R)
    /\ UNCHANGED <<acceptor, command, conns, closing, tcpMade, tcpTold>>

Index(s) == CHOOSE i \in DOMAIN conns : conns[i].ses = s
Known(s) == \E i \in DOMAIN conns : conns[i].ses = s

\* Connection::receive: nothing complete, some messages, the end of the stream,
\* or an exception; open and msg say whether the message of the session and the
\* messages of the data can be allocated.
Result == {"none", "some", "end", "fail"}
Heard(c, res, open, msg) ==
    IF res \in {"none", "fail"} \/ (c.fresh /\ ~open) THEN <<>>
    ELSE (IF c.fresh THEN <<"open">> ELSE <<>>) \o IF msg THEN <<"data">> ELSE <<>>
\* An exception, a failed allocation among them, or the end of the stream closes it.
MUT_Closes(c, res, open, msg) == FALSE
Closes(c, res, open, msg) ==
    res \in {"end", "fail"} \/ (res = "some" /\ ~(msg /\ (open \/ ~c.fresh)))
Receive(res, open, msg) ==
    /\ tcpPc = "work" /\ closing = 0 /\ batch # <<>>
    /\ LET c == conns[Index(Head(batch))]  said == Heard(c, res, open, msg)
       IN /\ tcpTold' = S!Say(tcpTold, c.ses, said)
          /\ conns' = [conns EXCEPT ![Index(c.ses)].fresh = @ /\ said = <<>>]
          /\ closing' = IF Closes(c, res, open, msg) THEN c.ses ELSE 0
    /\ batch' = Tail(batch)
    /\ UNCHANGED <<acceptor, command, tcpMade, tcpPc>>

Return ==
    /\ tcpPc = "work" /\ closing = 0 /\ batch = <<>> /\ tcpPc' = "idle"
    /\ UNCHANGED <<acceptor, command, conns, batch, closing, tcpMade, tcpTold>>

\* close_connection_internal: the last of the list takes the place of the closed one.
MUT_Without(i) == SubSeq(conns, 1, Len(conns) - 1)
Without(i) == SubSeq([conns EXCEPT ![i] = conns[Len(conns)]], 1, Len(conns) - 1)
Farewell(c, out) ==
    IF c.fresh THEN <<"destroy">>
    ELSE CASE out = "nothing" -> <<"leak">>
           [] out = "close"   -> <<"close", "leak">>
           [] out = "all"     -> <<"close", "garbage">>
Outcome == {"nothing", "close", "all"}

\* close_connection, at the end of a receive or on a request through the
\* feedback pipe, which names any session there has ever been.
CloseConnection(s, out) ==
    IF Known(s)
    THEN /\ conns' = Without(Index(s))
         /\ tcpTold' = S!Say(tcpTold, s, Farewell(conns[Index(s)], out))
    ELSE UNCHANGED <<conns, tcpTold>>
CloseReceived(out) ==
    /\ tcpPc = "work" /\ closing # 0
    /\ CloseConnection(closing, out) /\ closing' = 0
    /\ UNCHANGED <<acceptor, command, batch, tcpMade, tcpPc>>
CloseRequested(s, out) ==
    /\ tcpPc = "idle" /\ s <= tcpMade
    /\ CloseConnection(s, out)
    /\ UNCHANGED <<acceptor, command, batch, closing, tcpMade, tcpPc>>

\* ~Plugin: stop the acceptor, wait for it, close what is left.
Stop ==
    /\ tcpPc = "idle" /\ tcpPc' = "join" /\ command' = TRUE
    /\ UNCHANGED <<acceptor, conns, batch, closing, tcpMade, tcpTold>>
Join ==
    /\ tcpPc = "join" /\ acceptor = "gone" /\ tcpPc' = "closeall"
    /\ UNCHANGED <<acceptor, command, conns, batch, closing, tcpMade, tcpTold>>
CloseAll(out) ==
    /\ tcpPc = "closeall"
    /\ IF conns = <<>> THEN tcpPc' = "gone" /\ UNCHANGED <<conns, tcpTold>>
       ELSE CloseConnection(Last(conns).ses, out) /\ UNCHANGED tcpPc
    /\ UNCHANGED <<acceptor, command, batch, closing, tcpMade>>

TcpDone == tcpPc = "gone" /\ UNCHANGED tcpVars

Next ==
    \/ \E polled \in BOOLEAN : Accept(polled)
    \/ AcceptorExit \/ Wait \/ Return \/ Stop \/ Join \/ TcpDone
    \/ \E res \in Result, open, msg \in BOOLEAN : Receive(res, open, msg)
    \/ \E out \in Outcome : CloseReceived(out) \/ CloseAll(out)
    \/ \E s \in Sessions, out \in Outcome : CloseRequested(s, out)

Spec == Init /\ [][Next]_tcpVars
-----------------------------------------------------------------------------
(* The pointers the getter holds from epoll, or is about to close, are those *)
(* of connections in the list, each once: Plugin::get uses them without the  *)
(* mutex while the acceptor adds others.                                     *)
PointersLive ==
    LET held == batch \o (IF closing = 0 THEN <<>> ELSE <<closing>>)
    IN /\ \A i \in DOMAIN held : Known(held[i])
       /\ \A i, j \in DOMAIN held : i # j => held[i] # held[j]

(* Each connection that was accepted is in the list until its session has    *)
(* ended, and none is left when the instance is gone (~Plugin stops the      *)
(* acceptor before it closes the connections).                               *)
TcpSessionsOwned ==
    /\ \A i, j \in DOMAIN conns : i # j => conns[i].ses # conns[j].ses
    /\ \A s \in Sessions : Known(s) <=> (s <= tcpMade /\ ~S!Ended(tcpTold[s]))
    /\ tcpPc = "gone" => conns = <<>>

TcpIsStream == S!Spec
=============================================================================
