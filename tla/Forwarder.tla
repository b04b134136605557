------------------------------ MODULE Forwarder ------------------------------
(* The forwarder output (plugins/output/forwarder): messages of a session go *)
(* to all hosts, or to one host after the other (Forwarder.cpp), over one    *)
(* connection per session and host (Host.cpp, Connection.cpp), with their    *)
(* templates and sequence numbers made anew (Sender.cpp, Message.cpp).  The  *)
(* connections themselves come from Connector.                               *)
(*                                                                           *)
(* A template is defined by the snapshot it is in.  Sets are those of        *)
(* IpfixReader, and <<"templates">> are those the exporter itself has sent.  *)
EXTENDS IpfixStream

CONSTANTS
    Odids,
    NHosts,
    SetMax,       \* sets in a message that is made longer (TMPLTMSG_MAX_LENGTH)
    ResendPkts,   \* templatesResendPkts
    MaxMsgs,      \* bound: messages of the session
    MaxSnap       \* bound: snapshots of an ODID

Hosts == 1 .. NHosts
TemplateIds == <<1, 2>>
Nothing == 0      \* no snapshot

VARIABLES
    toAll,        \* mode "All", not "RoundRobin"
    tcp,          \* the transport protocol
    snap,         \* the current snapshot of each ODID
    given,        \* messages so far
    work,         \* the message that is being forwarded, and to how many hosts more
    rr,           \* m_rr_index
    link,         \* connection to each host: "none", "wait", "ready", "up", "lost"
    queue,        \* its m_transfers: [msg, begun]
    senders,      \* its senders, per ODID: [tsnap, seq, pkts, lost]
    peer,         \* what the host makes of it, a reader
    fwdPc         \* "idle", "busy" or "denied" (the plugin has failed)

fwdVars == <<toAll, tcp, snap, given, work, rr, link, queue, senders, peer, fwdPc>>

NewSender == [tsnap |-> Nothing, seq |-> 0, pkts |-> 0, lost |-> 0]
NoWork == [odid |-> 0, sets |-> <<>>, todo |-> 0]

Init ==
    /\ toAll \in BOOLEAN /\ tcp \in BOOLEAN
    /\ snap = [o \in Odids |-> 1] /\ given = 0 /\ work = NoWork /\ rr = 1
    /\ link = [h \in Hosts |-> "none"] /\ queue = [h \in Hosts |-> <<>>]
    /\ senders = [h \in Hosts |-> [o \in Odids |-> NewSender]]
    /\ peer = [h \in Hosts |-> NewReader(Odids)] /\ fwdPc = "idle"

-----------------------------------------------------------------------------
(* Sender.  While a message is made, r is [sets, seq, lost, out, tsnap, pkts,*)
(* idx]: the message, those emitted before it, and records passed so far.    *)

Emit(r, odid, next) ==
    IF r.sets = <<>> THEN [r EXCEPT !.seq = next]
    ELSE [r EXCEPT !.out = Append(@, [odid |-> odid, seq |-> r.seq, sets |-> r.sets,
                                      lost |-> r.lost]),
                   !.sets = <<>>, !.seq = next, !.lost = 0]

AddTemplate(r, odid, next, id, s) ==
    LET room == IF Len(r.sets) >= SetMax THEN Emit(r, odid, next) ELSE r
    IN  [room EXCEPT !.sets = Append(@, <<"template", id, s>>)]

ProcessTemplates(r, odid, next, s) ==
    LET begun == IF tcp THEN [r EXCEPT !.sets = Append(@, <<"withdraw">>)] ELSE r
        all == FoldLeft(LAMBDA x, id : AddTemplate(x, odid, next, id, s), begun, TemplateIds)
    IN  [Emit(all, odid, next) EXCEPT !.tsnap = s, !.pkts = 0]

\* The snapshot of the first record at or after set i of the message.
SnapFrom(sets, i) ==
    LET later == SelectSeq(SubSeq(sets, i, Len(sets)), IsData)
    IN  IF later = <<>> THEN Nothing ELSE Head(later)[3]

ProcessSet(r, sets, i, odid, seq) ==
    CASE IsData(sets[i]) -> [r EXCEPT !.sets = Append(@, sets[i]), !.idx = @ + 1]
      [] sets[i][1] = "templates" /\ SnapFrom(sets, i) \notin {Nothing, r.tsnap}
             -> ProcessTemplates(r, odid, seq + r.idx, SnapFrom(sets, i))
      [] OTHER -> r

\* Templates are sent again if they changed or, by UDP, from time to time.
MustSend(s, first, again) ==
    first # Nothing /\ (s.tsnap # first \/ (~tcp /\ (s.pkts >= ResendPkts \/ again)))

ProcessMessage(s, sets, odid, again) ==
    LET start == [sets |-> <<>>, seq |-> s.seq, lost |-> s.lost, out |-> <<>>,
                  tsnap |-> s.tsnap, pkts |-> s.pkts, idx |-> 0]
        first == SnapFrom(sets, 1)
        sent == IF MustSend(s, first, again) THEN ProcessTemplates(start, odid, s.seq, first) ELSE start
        all == FoldLeft(LAMBDA r, i : ProcessSet(r, sets, i, odid, s.seq), sent,
                        [i \in DOMAIN sets |-> i])
    IN  Emit(all, odid, s.seq)

After(s, r, sets) == [tsnap |-> r.tsnap, seq |-> s.seq + Records(sets),
                      pkts |-> r.pkts + 1, lost |-> r.lost]
LoseMessage(s, sets) ==
    [s EXCEPT !.seq = @ + Records(sets), !.lost = @ + Records(sets)]

-----------------------------------------------------------------------------
(* Connection.                                                               *)

Stored(msgs, begun) ==
    [i \in DOMAIN msgs |-> [msg |-> msgs[i], begun |-> i = 1 /\ begun]]
Messages(transfers) == [i \in DOMAIN transfers |-> transfers[i].msg]

MUT_Forgotten(h) == senders[h]   \* the new session gets no templates

\* What is left of the senders when the connection is lost.
Forgotten(h) == [o \in Odids |-> [senders[h][o] EXCEPT !.tsnap = Nothing]]

\* on_connection_lost; the host has a new session next time.
Lost(h, next) ==
    /\ link' = [link EXCEPT ![h] = next]
    /\ queue' = [queue EXCEPT ![h] = <<>>]
    /\ senders' = [senders EXCEPT ![h] = Forgotten(h)]
    /\ peer' = [peer EXCEPT ![h] = [NewReader(Odids) EXCEPT !.sound = peer[h].sound]]

Connected(h) == link[h] \in {"ready", "up"}

\* The first n transfers are sent, and maybe a part of the next one.
Advanced(h, n, begun) ==
    LET rest == SubSeq(queue[h], n + 1, Len(queue[h]))
    IN  [i \in DOMAIN rest |-> IF i = 1 THEN [rest[1] EXCEPT !.begun = @ \/ begun] ELSE rest[i]]
Delivered(h, n) == ReceiveAll(peer[h], Messages(SubSeq(queue[h], 1, n)))

-----------------------------------------------------------------------------
(* Host::forward_message, with its outcome ok.                               *)

ForwardFails(h) ==      \* not connected, or the connection is lost on the way
    \/ /\ ~Connected(h)
       /\ senders' = IF toAll THEN [senders EXCEPT ![h][work.odid] = LoseMessage(@, work.sets)]
                     ELSE senders
       /\ UNCHANGED <<link, queue, peer>>
    \/ /\ Connected(h) /\ (queue[h] # <<>> \/ Records(work.sets) > 0)
       /\ Lost(h, "wait")

ForwardWaits(h) ==      \* transfers are left
    /\ Connected(h)
    /\ \E n \in 0 .. Len(queue[h]) - 1, begun \in {FALSE, tcp} :
           /\ queue' = [queue EXCEPT ![h] = Advanced(h, n, begun)]
           /\ peer' = [peer EXCEPT ![h] = Delivered(h, n)]
    /\ link' = [link EXCEPT ![h] = "up"]
    /\ senders' = IF toAll THEN [senders EXCEPT ![h][work.odid] = LoseMessage(@, work.sets)]
                  ELSE senders

ForwardSends(h) ==      \* and of the messages made, n are sent at once
    /\ Connected(h)
    /\ \E again \in BOOLEAN :
         LET s == senders[h][work.odid]
             r == ProcessMessage(s, work.sets, work.odid, again)
         IN  \E n \in 0 .. Len(r.out), begun \in {FALSE, tcp} :
               /\ peer' = [peer EXCEPT ![h] =
                      ReceiveAll(Delivered(h, Len(queue[h])), SubSeq(r.out, 1, n))]
               /\ queue' = [queue EXCEPT ![h] = Stored(SubSeq(r.out, n + 1, Len(r.out)), begun)]
               /\ senders' = [senders EXCEPT ![h][work.odid] = After(s, r, work.sets)]
    /\ link' = [link EXCEPT ![h] = "up"]

NextHost == IF rr = NHosts THEN 1 ELSE rr + 1

\* forward_to_all goes on in any case, forward_round_robin until one has it.
Forward ==
    LET h == IF toAll THEN NHosts + 1 - work.todo ELSE rr
        goOn(ok) == work.todo > 1 /\ (toAll \/ ~ok)
        next(ok) ==
            /\ work' = IF goOn(ok) THEN [work EXCEPT !.todo = @ - 1] ELSE NoWork
            /\ fwdPc' = IF goOn(ok) THEN "busy" ELSE "idle"
            /\ rr' = IF toAll THEN rr ELSE NextHost
    IN  /\ fwdPc = "busy"
        /\ \/ (ForwardFails(h) \/ ForwardWaits(h)) /\ next(FALSE)
           \/ ForwardSends(h) /\ next(TRUE)
        /\ UNCHANGED <<toAll, tcp, snap, given>>

-----------------------------------------------------------------------------
(* Messages for the plugin.                                                  *)

Open == \E h \in Hosts : link[h] # "none"

\* Messages of an exporter whose snapshot is s now, and will be s + 1.
Old(s) == { <<>>, <<<<"data", 1, s>>>>, <<<<"unknown">>, <<"data", 2, s>>>> }
New(s) == { <<<<"templates">>, <<"data", 1, s + 1>>>>, <<<<"data", 1, s>>, <<"templates">>>>,
            <<<<"data", 2, s>>, <<"templates">>, <<"data", 2, s + 1>>, <<"data", 1, s + 1>>>> }

IpfixMessage ==
    /\ fwdPc = "idle" /\ Open /\ given < MaxMsgs /\ given' = given + 1
    /\ \E o \in Odids : \E new \in BOOLEAN :
         /\ new => snap[o] < MaxSnap
         /\ snap' = IF new THEN [snap EXCEPT ![o] = @ + 1] ELSE snap
         /\ \E sets \in IF new THEN New(snap[o]) ELSE Old(snap[o]) :
                work' = [odid |-> o, sets |-> sets, todo |-> NHosts]
    /\ fwdPc' = "busy" /\ UNCHANGED <<toAll, tcp, rr, link, queue, senders, peer>>

SessionOpen ==
    /\ fwdPc = "idle" /\ ~Open /\ link' = [h \in Hosts |-> "wait"]
    /\ UNCHANGED <<toAll, tcp, snap, given, work, rr, queue, senders, peer, fwdPc>>

\* The waiting transfers are sent if it goes at once, else dropped.
SessionClose ==
    /\ fwdPc = "idle" /\ Open
    /\ link' = [h \in Hosts |-> "none"] /\ queue' = [h \in Hosts |-> <<>>]
    /\ senders' = [h \in Hosts |-> [o \in Odids |-> NewSender]]
    /\ peer' = [h \in Hosts |-> [NewReader(Odids) EXCEPT !.sound =
           IF Connected(h) THEN Delivered(h, Len(queue[h])).sound ELSE peer[h].sound]]
    /\ UNCHANGED <<toAll, tcp, snap, given, work, rr, fwdPc>>

\* Host::advance_transfers of one host after the other; a connection that is
\* lost here is not made again, and ends the plugin (ipx_plugin_process).
PeriodicMessage(h) ==
    /\ fwdPc = "idle" /\ Connected(h)
    /\ \/ \E n \in 0 .. Len(queue[h]), begun \in {FALSE, tcp} :
              /\ queue' = [queue EXCEPT ![h] = Advanced(h, n, begun)]
              /\ peer' = [peer EXCEPT ![h] = Delivered(h, n)]
              /\ link' = [link EXCEPT ![h] = "up"]
              /\ UNCHANGED <<senders, fwdPc>>
       \/ queue[h] # <<>> /\ Lost(h, "lost") /\ fwdPc' = "denied"
    /\ UNCHANGED <<toAll, tcp, snap, given, work, rr>>

\* The connector sets the future socket, at any time.
ConnectionMade(h) ==
    /\ link[h] = "wait" /\ link' = [link EXCEPT ![h] = "ready"]
    /\ UNCHANGED <<toAll, tcp, snap, given, work, rr, queue, senders, peer, fwdPc>>

FwdDone == (fwdPc = "denied" \/ given = MaxMsgs) /\ UNCHANGED fwdVars

Next ==
    \/ Forward \/ IpfixMessage \/ SessionOpen \/ SessionClose \/ FwdDone
    \/ \E h \in Hosts : PeriodicMessage(h) \/ ConnectionMade(h)

-----------------------------------------------------------------------------
(* Whatever is lost, delayed, cut or connected anew: a host gets every data  *)
(* set behind the templates of its snapshot, and sequence numbers that count *)
(* the records, those it must be told it has lost included.                  *)
HostsDecode == \A h \in Hosts : peer[h].sound

(* A transfer that is under way is the first of its connection, and there is *)
(* none without a connection: a message is never continued on another one.   *)
TransfersInOrder ==
    \A h \in Hosts : /\ ~Connected(h) => queue[h] = <<>>
                     /\ \A i \in DOMAIN queue[h] : queue[h][i].begun => i = 1
=============================================================================
