------------------------------ MODULE FdsInput ------------------------------
(* The input of FDS files (plugins/input/fds): records that were stored with *)
(* their session, ODID, export time and snapshot of templates are packed     *)
(* into IPFIX messages again (Reader.cpp), within a size (Builder.cpp), and  *)
(* the sessions of a file are opened when first met and closed with it.      *)
EXTENDS Naturals, Sequences, FiniteSets, SequencesExt, FiniteSetsExt

CONSTANTS
    MsgHdr, SetHdr,   \* sizes of headers (16 and 4)
    MsgSize,          \* size of messages, configured
    MaxSize,          \* the largest (65535)
    Record,           \* records: [sid, odid, time, snap, set (template), size]
    FileLen,          \* bound: records of a file
    NumFiles,         \* bound: files
    Sessions

VARIABLES
    fdsFile,     \* records of the file
    fdsRest,     \* files after it
    taken,       \* records taken from it
    unproc,      \* the last one of them waits in m_unproc_data
    infos,       \* sid |-> its session, for the sids met in the file
    odids,       \* <<sid, odid>> |-> [snap, seq] for the ODIDs met
    msg,         \* the message that is filled
    fdsMade, fdsTold,
    fdsSent,     \* history: messages passed of the file, in full
    fdsPc        \* "idle", "fill", "off", "gone", "abort"

fdsVars == <<fdsFile, fdsRest, taken, unproc, infos, odids, msg, fdsMade, fdsTold, fdsSent, fdsPc>>
S == INSTANCE SessionStream WITH told <- fdsTold

NoMsg == [recs |-> <<>>, valid |-> 0]
Nobody == [x \in {} |-> 0]
Noted(f, k, v) == [x \in DOMAIN f \cup {k} |-> IF x = k THEN v ELSE f[x]]

Init ==
    /\ fdsFile \in BoundedSeq(Record, FileLen) /\ fdsRest = NumFiles - 1
    /\ taken = 0 /\ unproc = FALSE /\ infos = Nobody /\ odids = Nobody /\ msg = NoMsg
    /\ fdsMade = 0 /\ S!Init /\ fdsSent = <<>> /\ fdsPc = "idle"

-----------------------------------------------------------------------------
(* Builder: the message m after a record r, which may not fit.               *)

Empty(alloc) == [recs |-> <<>>, valid |-> MsgHdr, set |-> 0, alloc |-> alloc]
Required(m, r) == r.size + IF m.set = r.set THEN 0 ELSE SetHdr
Fits(m, r) == Required(m, r) <= m.alloc - m.valid
AddRecord(m, r) == [m EXCEPT !.recs = Append(@, r), !.valid = @ + Required(m, r), !.set = r.set]

\* A record too long for the configured size gets a message of the largest.
First(r) == AddRecord(Empty(IF Fits(Empty(MsgSize), r) THEN MsgSize ELSE MaxSize), r)

-----------------------------------------------------------------------------
(* record_get gives the same record until it is marked as processed.         *)
At == IF unproc THEN taken ELSE taken + 1
Available == At <= Len(fdsFile)
Rec == fdsFile[At]
Key(r) == <<r.sid, r.odid>>
Known == IF Key(Rec) \in DOMAIN odids THEN odids[Key(Rec)] ELSE [snap |-> 0, seq |-> 0]

\* send_batch up to its first record: a session not met before is announced, and
\* templates are sent if the ODID has not seen the snapshot.
MUT_Templates(r) == IF Key(r) \in DOMAIN odids THEN <<>>
                    ELSE <<[type |-> "templates", key |-> Key(r), snap |-> r.snap, seq |-> Known.seq]>>
Templates(r) ==
    IF Known.snap = r.snap THEN <<>>
    ELSE <<[type |-> "templates", key |-> Key(r), snap |-> r.snap, seq |-> Known.seq]>>
Met(r, passed) ==
    LET new == r.sid \notin DOMAIN infos
        ses == IF new THEN fdsMade + 1 ELSE infos[r.sid]
    IN /\ ses \in Sessions
       /\ fdsMade' = Max({fdsMade, ses})
       /\ infos' = Noted(infos, r.sid, ses)
       /\ fdsTold' = S!Say(fdsTold, ses, (IF new THEN <<"open">> ELSE <<>>) \o passed)
SendBatch ==
    /\ fdsPc = "idle" /\ Available
    /\ Met(Rec, IF Templates(Rec) = <<>> THEN <<>> ELSE <<"data">>)
    /\ odids' = Noted(odids, Key(Rec), [Known EXCEPT !.snap = Rec.snap])
    /\ fdsSent' = fdsSent \o Templates(Rec)
    /\ msg' = First(Rec)
    /\ taken' = At /\ unproc' = FALSE /\ fdsPc' = "fill"
    /\ UNCHANGED <<fdsFile, fdsRest>>

\* An exception on that way: no session of the file has the ID (then its entry
\* stays without one), no memory for the session or its message, or one of the
\* templates fails, of which some messages may have been passed before.
SendFails(kind) ==
    LET r == Rec
        new == r.sid \notin DOMAIN infos
    IN /\ fdsPc = "idle" /\ Available /\ taken' = At /\ unproc' = TRUE
       /\ CASE kind = "session" /\ new ->
                  infos' = Noted(infos, r.sid, 0) /\ UNCHANGED <<fdsTold, fdsMade>>
            [] kind = "open" /\ new /\ fdsMade + 1 \in Sessions ->
                  /\ infos' = Noted(infos, r.sid, fdsMade + 1) /\ fdsMade' = fdsMade + 1
                  /\ fdsTold' = S!Say(fdsTold, fdsMade + 1, <<"lost">>)
            [] kind = "data" /\ Known.snap # r.snap ->
                  \E passed \in {<<>>, <<"data">>} : Met(r, passed)
            [] OTHER -> FALSE
       /\ fdsPc' = "off"
       /\ UNCHANGED <<fdsFile, fdsRest, odids, msg, fdsSent>>

\* The next record, if it is of the same session, ODID, export time and snapshot
\* and fits; otherwise it waits and the message is passed.
MUT_Belongs(r) == r.sid = msg.recs[1].sid /\ r.odid = msg.recs[1].odid /\ r.time = msg.recs[1].time
Belongs(r) == /\ r.sid = msg.recs[1].sid /\ r.odid = msg.recs[1].odid
              /\ r.time = msg.recs[1].time /\ r.snap = odids[Key(r)].snap
Fill ==
    /\ fdsPc = "fill" /\ Available /\ Belongs(Rec) /\ Fits(msg, Rec)
    /\ msg' = AddRecord(msg, Rec) /\ taken' = At /\ unproc' = FALSE
    /\ UNCHANGED <<fdsFile, fdsRest, infos, odids, fdsMade, fdsTold, fdsSent, fdsPc>>
PassMessage ==
    LET k == Key(msg.recs[1])
    IN /\ fdsPc = "fill" /\ (Available => ~(Belongs(Rec) /\ Fits(msg, Rec)))
       /\ taken' = (IF Available THEN At ELSE taken) /\ unproc' = Available
       /\ odids' = [odids EXCEPT ![k].seq = @ + Len(msg.recs)]
       /\ fdsSent' = Append(fdsSent, [type |-> "data", key |-> k, seq |-> odids[k].seq,
                                      recs |-> msg.recs, len |-> msg.valid])
       /\ fdsTold' = S!Say(fdsTold, infos[k[1]], <<"data">>)
       /\ msg' = NoMsg /\ fdsPc' = "idle"
       /\ UNCHANGED <<fdsFile, fdsRest, infos, fdsMade>>
\* The file cannot be read, or there is no memory for the message: an exception.
FillFails ==
    /\ fdsPc = "fill" /\ fdsPc' = "off" /\ msg' = NoMsg
    /\ UNCHANGED <<fdsFile, fdsRest, taken, unproc, infos, odids, fdsMade, fdsTold, fdsSent>>

-----------------------------------------------------------------------------
(* ~Reader closes the sessions of the file.  It must not throw: a message    *)
(* that cannot be allocated, or an entry without a session, ends the program.*)

Farewell(s) == IF \E k \in DOMAIN infos : infos[k] = s THEN <<"close", "garbage">> ELSE <<>>
CloseFile(fails, pc) ==
    IF fails \/ 0 \in Range(infos)
    THEN /\ infos # Nobody /\ fdsPc' = "abort" /\ UNCHANGED <<fdsTold, infos, odids>>
    ELSE /\ fdsTold' = [s \in Sessions |-> fdsTold[s] \o Farewell(s)]
         /\ infos' = Nobody /\ odids' = Nobody /\ fdsPc' = pc
\* file_next at the end of the file; files that cannot be opened are skipped.
FileNext(fails) ==
    /\ fdsPc = "idle" /\ ~Available
    /\ \/ /\ fdsRest > 0 /\ fdsFile' \in BoundedSeq(Record, FileLen)
          /\ fdsRest' = fdsRest - 1 /\ CloseFile(fails, "idle")
       \/ fdsRest' = 0 /\ fdsFile' = <<>> /\ CloseFile(fails, "off")
    /\ taken' = 0 /\ unproc' = FALSE /\ msg' = NoMsg /\ fdsSent' = <<>>
    /\ UNCHANGED fdsMade
FdsDestroy(fails) ==
    /\ fdsPc \in {"idle", "off"} /\ CloseFile(fails, "gone")
    /\ UNCHANGED <<fdsFile, fdsRest, taken, unproc, msg, fdsMade, fdsSent>>
FdsGone == fdsPc \in {"gone", "abort"} /\ UNCHANGED fdsVars

Next ==
    \/ SendBatch \/ Fill \/ PassMessage \/ FillFails \/ FdsGone
    \/ \E kind \in {"session", "open", "data"} : SendFails(kind)
    \/ \E fails \in BOOLEAN : FileNext(fails) \/ FdsDestroy(fails)

Spec == Init /\ [][Next]_fdsVars
-----------------------------------------------------------------------------
Data == SelectSeq(fdsSent, LAMBDA m : m.type = "data")
RecordsOf(ms) == FlattenSeq([i \in DOMAIN ms |-> ms[i].recs])
Until(i) == SubSeq(fdsSent, 1, i - 1)

(* The messages hold the records of the file, each once and in order; those  *)
(* of a message share its session, ODID, export time and the snapshot of     *)
(* templates that its ODID was sent last; its sequence number is the number  *)
(* of records of the ODID before it (mod 2^32); and it is longer than the    *)
(* configured size only for a single record.                                 *)
FdsIsReplay ==
    /\ fdsPc = "idle" => RecordsOf(Data) = SubSeq(fdsFile, 1, IF unproc THEN taken - 1 ELSE taken)
    /\ \A i \in DOMAIN fdsSent :
         LET m == fdsSent[i]
             same == SelectSeq(Until(i), LAMBDA x : x.key = m.key)
             told == SelectSeq(same, LAMBDA x : x.type = "templates")
         IN /\ m.seq = Len(RecordsOf(SelectSeq(same, LAMBDA x : x.type = "data")))
            /\ m.type = "data" =>
                 /\ \A r \in Range(m.recs) : Key(r) = m.key /\ r.time = m.recs[1].time
                                             /\ told # <<>> /\ r.snap = Last(told).snap
                 /\ m.len <= MaxSize /\ (m.len > MsgSize => Len(m.recs) = 1)

(* Every session is in the map of the open file or has ended, unless the     *)
(* program has.                                                              *)
FdsSessionsOwned ==
    fdsPc # "abort" => \A s \in Sessions :
        (s <= fdsMade /\ ~S!Ended(fdsTold[s])) <=> s \in Range(infos)

FdsIsStream == S!Spec
=============================================================================
