------------------------------ MODULE JsonOutput ------------------------------
(* The JSON output (plugins/output/json): every record goes to a file, which *)
(* a thread changes for every time window (File.cpp), to the clients of a    *)
(* server, which another thread accepts (Server.cpp), and to a host          *)
(* (Sender.cpp, by TCP).  A record has Size units; sending may stop anywhere *)
(* and go on later.  Records are numbered.                                   *)
EXTENDS Integers, Sequences, SequencesExt

CONSTANTS Size,
    MaxRecords, MaxFd, MaxWindows   \* bounds: records, connections, windows

VARIABLES
    blocking,    \* the server and the sender wait until all is sent
    json,        \* the records so far, and what the plugin does: [rec, pc, at]
    fileLock,    \* "free", "read" or "write"
    fileOpen,    \* _thread->file: number of the window, 0: none
    fileUsed,    \* what process has got of it, -1: nothing
    window,      \* windows so far, and the window thread: [n, pc]
    newClients,  \* _acceptor->new_clients, with new_clients_ready
    clients,     \* _clients: [fd, rest], rest of a record: [rec, from]
    acceptor,    \* "accept", "got" (a client, not handed over yet) or "end"
    fds,         \* clients connected so far, and those closed: [n, closed]
    sender,      \* [up, rest, stale]; stale: of the connection before
    streams,     \* what every client has got: [rec, have, sound]
    received,    \* and the host, on the present connection
    cutRecord    \* the host got the rest of a record on another connection

jsonVars == <<blocking, json, fileLock, fileOpen, fileUsed, window, newClients, clients,
              acceptor, fds, sender, streams, received, cutRecord>>

NoRest == [rec |-> 0, from |-> 0]
NewStream == [rec |-> 0, have |-> Size, sound |-> TRUE]

Init ==
    /\ blocking \in BOOLEAN /\ json = [rec |-> 0, pc |-> "idle", at |-> 1]
    /\ fileLock = "free" /\ fileOpen = 1 /\ fileUsed = -1 /\ window = [n |-> 1, pc |-> "sleep"]
    /\ newClients = <<>> /\ clients = <<>> /\ acceptor = "accept"
    /\ fds = [n |-> 0, closed |-> {}] /\ streams = [f \in 1 .. MaxFd |-> NewStream]
    /\ \E up \in BOOLEAN : sender = [up |-> up, rest |-> NoRest, stale |-> FALSE]
    /\ received = NewStream /\ cutRecord = FALSE

fileVars == <<fileLock, fileOpen, fileUsed, window>>
serverVars == <<newClients, clients, acceptor, fds, streams>>
senderVars == <<sender, received, cutRecord>>

-----------------------------------------------------------------------------
(* send(): n units of record rec are sent, behind the first units of it.     *)

Continues(st, rec, from) ==
    IF from = 0 THEN st.have = Size /\ (IF blocking /\ st.rec # 0 THEN rec = st.rec + 1
                                        ELSE rec > st.rec)
    ELSE st.rec = rec /\ st.have = from
Got(st, rec, from, n) ==
    IF n = 0 THEN st
    ELSE [rec |-> rec, have |-> from + n, sound |-> st.sound /\ Continues(st, rec, from)]

Outcomes(n, from) ==
    (IF n = Size - from THEN {"ok"} ELSE {"failed"})
    \cup (IF n < Size - from /\ ~blocking THEN {"wouldblock"} ELSE {})

\* msg_rest; nothing is kept of a record that was not begun.
RestOf(out, rec, from, n) ==
    IF out = "wouldblock" /\ from + n > 0 THEN [rec |-> rec, from |-> from + n] ELSE NoRest

-----------------------------------------------------------------------------
(* The file, and the thread of its windows.                                  *)

WindowLock ==
    /\ window.pc = "sleep" /\ window.n < MaxWindows /\ fileLock = "free"
    /\ fileLock' = "write" /\ window' = [window EXCEPT !.pc = "close"]
    /\ UNCHANGED <<blocking, json, fileOpen, fileUsed, serverVars, senderVars>>

WindowClose ==
    /\ window.pc = "close" /\ fileOpen' = 0 /\ window' = [window EXCEPT !.pc = "create"]
    /\ UNCHANGED <<blocking, json, fileLock, fileUsed, serverVars, senderVars>>

\* The file may not be created; null is also valid.
\* Its directories and the file itself may fail to be made.
file_create(n) == {0, n}
WindowCreate ==
    /\ window.pc = "create"
    /\ fileOpen' \in file_create(window.n + 1) /\ window' = [n |-> window.n + 1, pc |-> "sleep"]
    /\ fileLock' = "free" /\ UNCHANGED <<blocking, json, fileUsed, serverVars, senderVars>>

FileLock ==
    /\ json.pc = "file" /\ fileLock = "free" /\ fileLock' = "read"
    /\ fileUsed' = fileOpen /\ json' = [json EXCEPT !.pc = "write"]
    /\ UNCHANGED <<blocking, fileOpen, window, serverVars, senderVars>>

FileWrite ==
    /\ json.pc = "write" /\ fileLock' = "free" /\ fileUsed' = -1
    /\ json' = [json EXCEPT !.pc = "clients"]
    /\ UNCHANGED <<blocking, fileOpen, window, serverVars, senderVars>>

-----------------------------------------------------------------------------
(* The server.                                                               *)

acceptorOnly == <<blocking, json, fileVars, clients, streams, senderVars>>

AcceptClient ==
    /\ acceptor = "accept" /\ fds.n < MaxFd
    /\ acceptor' = "got" /\ fds' = [fds EXCEPT !.n = @ + 1]
    /\ UNCHANGED <<newClients, acceptorOnly>>

PushClient ==
    /\ acceptor = "got" /\ newClients' = Append(newClients, [fd |-> fds.n, rest |-> NoRest])
    /\ acceptor' = IF json.pc = "stopped" THEN "end" ELSE "accept"
    /\ UNCHANGED <<fds, acceptorOnly>>

\* It is told to stop, or select fails.
AcceptorEnds ==
    /\ acceptor = "accept" /\ acceptor' = "end" /\ UNCHANGED <<newClients, fds, acceptorOnly>>

TakeClients ==
    /\ json.pc = "clients" /\ json' = [json EXCEPT !.pc = "server", !.at = 1]
    /\ clients' = clients \o newClients /\ newClients' = <<>>
    /\ UNCHANGED <<blocking, fileVars, acceptor, fds, streams, senderVars>>

\* The rest of the last record goes first; the client may be the last one.
ServerSend ==
    LET c == clients[json.at]
        rest == ~blocking /\ c.rest # NoRest
        rec == IF rest THEN c.rest.rec ELSE json.rec
        from == IF rest THEN c.rest.from ELSE 0
    IN  /\ json.pc = "server" /\ json.at \in DOMAIN clients
        /\ \E n \in 0 .. Size - from : \E out \in Outcomes(n, from) :
             /\ streams' = [streams EXCEPT ![c.fd] = Got(@, rec, from, n)]
             /\ IF out = "failed"
                THEN clients' = RemoveAt(clients, json.at) /\ fds' = [fds EXCEPT !.closed = @ \cup {c.fd}]
                ELSE clients' = [clients EXCEPT ![json.at].rest = RestOf(out, rec, from, n)]
                     /\ UNCHANGED fds
             /\ json' = [json EXCEPT !.at = IF out = "failed" \/ (rest /\ out = "ok") THEN @ ELSE @ + 1]
        /\ UNCHANGED <<blocking, fileVars, newClients, acceptor, senderVars>>

ServerDone ==
    /\ json.pc = "server" /\ json.at > Len(clients)
    /\ json' = [json EXCEPT !.pc = "sender"]
    /\ UNCHANGED <<blocking, fileVars, serverVars, senderVars>>

-----------------------------------------------------------------------------
(* The sender.  What was left of a record stays when the connection is lost. *)

Reconnect ==
    /\ json.pc = "sender" /\ ~sender.up
    /\ \/ /\ sender' = [sender EXCEPT !.up = TRUE, !.stale = sender.rest # NoRest]
          /\ received' = [NewStream EXCEPT !.sound = received.sound] /\ UNCHANGED json
       \/ json' = [json EXCEPT !.pc = "idle"] /\ UNCHANGED <<sender, received>>
    /\ UNCHANGED <<blocking, fileVars, serverVars, cutRecord>>

SenderSend ==
    LET rest == ~blocking /\ sender.rest # NoRest
        rec == IF rest THEN sender.rest.rec ELSE json.rec
        from == IF rest THEN sender.rest.from ELSE 0
    IN  /\ json.pc = "sender" /\ sender.up
        /\ \E n \in 0 .. Size - from : \E out \in Outcomes(n, from) :
             LET now == Got(received, rec, from, n)
                 cut == sender.stale /\ rest /\ n > 0
             IN  /\ received' = IF cut THEN [now EXCEPT !.sound = received.sound] ELSE now
                 /\ cutRecord' = (cutRecord \/ cut)
                 /\ sender' = [up |-> out # "failed", stale |-> sender.stale /\ n = 0,
                               rest |-> IF out = "failed" THEN sender.rest
                                        ELSE RestOf(out, rec, from, n)]
                 /\ json' = [json EXCEPT !.pc = IF rest /\ out = "ok" THEN "sender" ELSE "idle"]
        /\ UNCHANGED <<blocking, fileVars, serverVars>>

-----------------------------------------------------------------------------
NextRecord ==
    /\ json.pc = "idle" /\ json.rec < MaxRecords
    /\ json' = [json EXCEPT !.rec = @ + 1, !.pc = "file"]
    /\ UNCHANGED <<blocking, fileVars, serverVars, senderVars>>

\* ~Server: clients, then the acceptor's thread, then its new clients.
Stop ==
    /\ json.pc = "idle" /\ json' = [json EXCEPT !.pc = "stopped"]
    /\ fds' = [fds EXCEPT !.closed = @ \cup {clients[i].fd : i \in DOMAIN clients}]
    /\ clients' = <<>>
    /\ UNCHANGED <<blocking, fileVars, newClients, acceptor, streams, senderVars>>

Joined ==
    /\ json.pc = "stopped" /\ acceptor = "end" /\ json' = [json EXCEPT !.pc = "end"]
    /\ fds' = [fds EXCEPT !.closed = @ \cup {newClients[i].fd : i \in DOMAIN newClients}]
    /\ newClients' = <<>>
    /\ UNCHANGED <<blocking, fileVars, clients, acceptor, streams, senderVars>>

JsonDone == json.pc = "end" /\ UNCHANGED jsonVars

Next ==
    \/ WindowLock \/ WindowClose \/ WindowCreate \/ FileLock \/ FileWrite
    \/ AcceptClient \/ PushClient \/ AcceptorEnds \/ TakeClients \/ ServerSend \/ ServerDone
    \/ Reconnect \/ SenderSend \/ NextRecord \/ Stop \/ Joined \/ JsonDone

-----------------------------------------------------------------------------
(* Whoever is connected gets whole records, in order, on every connection,   *)
(* all of them if the outputs block, and otherwise without those that did    *)
(* not fit; except for what the sender keeps from a connection that is lost. *)
StreamsWhole == received.sound /\ \A f \in 1 .. MaxFd : streams[f].sound

(* Without the exception: the rest of a record is kept "to avoid invalid     *)
(* JSON format" (Sender.cpp:257).                                            *)
JsonStaysValid == ~cutRecord

(* A connected client is in one place, and in the end all are closed.        *)
ClientsOwned ==
    /\ \A f \in 1 .. fds.n :
         Len(SelectSeq(clients \o newClients, LAMBDA c : c.fd = f))
         + (IF acceptor = "got" /\ f = fds.n THEN 1 ELSE 0)
         + (IF f \in fds.closed THEN 1 ELSE 0) = 1
    /\ json.pc = "end" => fds.closed = 1 .. fds.n

(* A record is not written to a file that is closed meanwhile.               *)
FileInUse == fileUsed > 0 => fileOpen = fileUsed
-----------------------------------------------------------------------------
(* The records of an IPFIX message as JSON (Storage.cpp of plugins/output/json *)
(* and of its older copy json-kafka): templates, then data records, each      *)
(* converted in one buffer that all outputs are given.                        *)
CONSTANTS JsonMessages, \* [tmplts: a sequence, recs: a sequence of [id, opt, biflow]]
          MaxTexts      \* bound: texts in the buffer; json-kafka gathers those that fail

VARIABLES
    kafkaCopy,      \* it is json-kafka: the buffer is emptied behind a template
    format,         \* template_info, ignore_options and split_biflow
    jsonBuffer,     \* what the buffer holds: a sequence of texts
    handed,         \* what the outputs were given of the last message
    flushed,        \* and whether they were flushed
    jsonMsg         \* the last message
storageVars == <<kafkaCopy, format, jsonBuffer, handed, flushed, jsonMsg>>

Text(of, dir) == [of |-> of, dir |-> dir]
NoMessage == [tmplts |-> <<>>, recs |-> <<>>]
StorageInit ==
    /\ kafkaCopy \in BOOLEAN
    /\ format \in [tmplt : BOOLEAN, noOpts : BOOLEAN, split : BOOLEAN]
    /\ jsonBuffer = <<>> /\ handed = <<>> /\ flushed = FALSE /\ jsonMsg = NoMessage

-----------------------------------------------------------------------------
\* A record of a biflow has a text for each direction.
Forward(rec) == Text(rec.id, IF format.split /\ rec.biflow THEN "forward" ELSE "both")
Texts(rec) ==
    IF format.noOpts /\ rec.opt THEN <<>>
    ELSE IF format.split /\ rec.biflow THEN <<Forward(rec), Text(rec.id, "reverse")>>
    ELSE <<Forward(rec)>>
Templates(msg) ==
    IF format.tmplt THEN [n \in DOMAIN msg.tmplts |-> Text(msg.tmplts[n], "template")] ELSE <<>>
All(msg) == Templates(msg) \o FlattenSeq([n \in DOMAIN msg.recs |-> Texts(msg.recs[n])])

\* A template is appended to the buffer, a record replaces what it holds.
MUT_Converted(buf, text) == IF text.dir \in {"template", "reverse"} THEN Append(buf, text) ELSE <<text>>
Converted(buf, text) ==
    IF text.dir = "template" THEN Append(IF kafkaCopy THEN buf ELSE <<>>, text) ELSE <<text>>
Kept(buf, text) == IF kafkaCopy /\ text.dir = "template" THEN <<>> ELSE buf
Stored(state, text) ==
    LET buf == Converted(state.buf, text)
    IN [buf |-> Kept(buf, text), out |-> Append(state.out, buf)]

\* A conversion may fail, in the middle or before anything is in the buffer:
\* what follows is not converted, and the outputs are not flushed.
RecordsStore ==
    /\ \E msg \in JsonMessages : \E n \in 0 .. Len(All(msg)) :
          LET done == FoldLeft(Stored, [buf |-> jsonBuffer, out |-> <<>>], SubSeq(All(msg), 1, n))
              failed == n < Len(All(msg))
          IN /\ jsonBuffer' \in {done.buf} \cup
                    (IF failed THEN {Converted(done.buf, [All(msg)[n + 1] EXCEPT !.of = 0])} ELSE {})
             /\ Len(jsonBuffer') <= MaxTexts
             /\ handed' = done.out /\ flushed' = (~failed /\ All(msg) # <<>>)
             /\ jsonMsg' = msg
    /\ UNCHANGED <<kafkaCopy, format>>
StorageNext == RecordsStore

-----------------------------------------------------------------------------
(* An output is given one text at a time: of the templates, then of every    *)
(* record that is to be stored, in the order of the message and nothing of   *)
(* the message before (Storage.cpp: records_store), but for the first        *)
(* template of a message in json-kafka, which comes behind what was left.    *)
TextsExact ==
    /\ \A n \in DOMAIN handed :
          Len(handed[n]) = 1 \/ (kafkaCopy /\ n = 1 /\ Last(handed[n]).dir = "template")
    /\ LET given == [n \in DOMAIN handed |-> Last(handed[n])]
           all == {t \in ToSet(given) : t.dir # "template"}
           Place(id) == CHOOSE n \in DOMAIN jsonMsg.recs : jsonMsg.recs[n].id = id
       IN /\ \A m, n \in DOMAIN given :
                m < n /\ given[n].dir = "template" => given[m].dir = "template"
          /\ \A m, n \in DOMAIN given : m < n /\ {given[m], given[n]} \subseteq all =>
                \/ Place(given[m].of) < Place(given[n].of)
                \/ given[m].of = given[n].of /\ given[m].dir = "forward" /\ given[n].dir = "reverse"
          /\ flushed => \A n \in DOMAIN jsonMsg.recs :
                LET rec == jsonMsg.recs[n]
                IN {t.dir : t \in {u \in all : u.of = rec.id}} =
                       IF rec.opt /\ format.noOpts THEN {}
                       ELSE IF rec.biflow /\ format.split THEN {"forward", "reverse"} ELSE {"both"}
    /\ handed # <<>> /\ Len(handed) = Len(All(jsonMsg)) => flushed
=============================================================================
