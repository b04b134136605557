----------------------------- MODULE IpfixOutput -----------------------------
(* The IPFIX file output (plugins/output/ipfix): messages are copied to a    *)
(* file that is changed from time to time.  The file does not know sessions, *)
(* so an ODID belongs to one session at a time; each file, and each owner,   *)
(* needs its templates.  reader is who reads the present file.               *)
EXTENDS IpfixStream, FiniteSets

CONSTANTS
    Odids,
    Exporter,     \* sessions, each of them opened once
    None,         \* no session
    MaxIpfix,     \* bound: messages
    MaxVersion    \* bound: definitions of a template

Ids == {1, 2}     \* template IDs

VARIABLES
    preserve,     \* preserveOriginal
    windowed,     \* windowSize # 0
    ipxFile,      \* output_file is open
    ctxs,         \* odid_contexts: [session, colliding, needs, seq]; NoCtx if there is none
    reader,
    versions,     \* the exporters' template definitions, per session, ODID and ID; 0: none
    closed,       \* sessions closed so far
    messages,     \* number of messages so far
    refused,      \* sessions of which messages of an ODID were dropped
    forgotten,    \* those whose context, which would have made up for it, is gone
    unreadable,   \* data of one of those could not be decoded
    ipxPc         \* "run" or "denied" (the plugin has failed)

ipfixVars == <<preserve, windowed, ipxFile, ctxs, reader, versions, closed, messages,
               refused, forgotten, unreadable, ipxPc>>

NoCtx == [session |-> None, colliding |-> {}, needs |-> FALSE, seq |-> 0]

Init ==
    /\ preserve \in BOOLEAN /\ windowed \in BOOLEAN
    /\ ipxFile = FALSE /\ ctxs = [o \in Odids |-> NoCtx] /\ reader = NewReader(Odids)
    /\ versions = [s \in Exporter |-> [o \in Odids |-> [id \in Ids |-> 0]]]
    /\ closed = {} /\ messages = 0 /\ ipxPc = "run"
    /\ refused = [o \in Odids |-> {}] /\ forgotten = [o \in Odids |-> {}]
    /\ unreadable = FALSE

-----------------------------------------------------------------------------
(* What a session sends; a data set holds the snapshot of its record as well.*)

Def(s, v, id) == <<s, v[id]>>
Data(s, v, id) == <<"data", id, Def(s, v, id), v>>

OldSets(s, v) ==
    { <<Data(s, v, id)>> : id \in {i \in Ids : v[i] # 0} } \cup { <<<<"unknown">>>> }
NewSets(s, v, id) ==     \* id has been defined anew, and v is the snapshot with it
    LET t == <<"template", id, Def(s, v, id)>>
    IN  { <<t>>, <<t, Data(s, v, id)>>, <<<<"unknown">>, t, Data(s, v, id), Data(s, v, id)>> }

-----------------------------------------------------------------------------
\* The templates of the snapshot of the message's first record, if needed.
TemplateSets(c, s, sets) ==
    LET data == SelectSeq(sets, IsData)
    IN  IF ~c.needs \/ data = <<>> THEN <<>>
        ELSE LET v == Head(data)[4]
             IN  [k \in 1 .. Cardinality({id \in Ids : v[id] # 0}) |->
                     LET id == SetToSeq({i \in Ids : v[i] # 0})[k]
                     IN  <<"template", id, Def(s, v, id)>>]

Copied(sets) ==
    IF preserve THEN sets ELSE SelectSeq(sets, LAMBDA x : x[1] # "unknown")

\* new_file: the contexts that exist, if it is not the first file.
Marked(cs) == [o \in Odids |-> IF cs[o] = NoCtx THEN NoCtx ELSE [cs[o] EXCEPT !.needs = ipxFile]]

\* should_start_new_file
Due == IF ~ipxFile THEN {TRUE} ELSE IF windowed THEN BOOLEAN ELSE {FALSE}

\* The exporter's own sequence numbers, and those of a new context, begin anew.
Unnumbered(r, o) == [r EXCEPT !.next[o] = -1]

\* Both messages are written for session s, whose context c is, to the file of r.
Written(c, r, s, o, sets) ==
    LET begun == IF preserve THEN Unnumbered(r, o) ELSE r
        before == [odid |-> o, seq |-> c.seq, lost |-> 0, sets |-> TemplateSets(c, s, sets)]
        message == [odid |-> o, seq |-> c.seq, lost |-> 0, sets |-> Copied(sets)]
    IN  ReceiveAll(begun, <<before, message>>)

Granted(c, s) == c.session \in {None, s}

IpfixMessage(s, o) ==
    /\ ipxPc = "run" /\ s \notin closed /\ messages < MaxIpfix /\ messages' = messages + 1
    /\ \E id \in Ids : \E v \in {versions[s][o], [versions[s][o] EXCEPT ![id] = @ + 1]} :
         \E sets \in IF v = versions[s][o] THEN OldSets(s, v) ELSE NewSets(s, v, id) :
           /\ v[id] <= MaxVersion /\ versions' = [versions EXCEPT ![s][o] = v]
           /\ IF ~Granted(ctxs[o], s)
              THEN /\ ctxs' = [ctxs EXCEPT ![o].colliding = @ \cup {s}]
                   /\ refused' = [refused EXCEPT ![o] = @ \cup {s}]
                   /\ UNCHANGED <<ipxFile, reader, forgotten, unreadable, ipxPc>>
              ELSE \E new \in Due :
                   LET cs == [ctxs EXCEPT ![o].session = s]
                       opened == IF new THEN Marked(cs) ELSE cs
                       c == opened[o]
                       empty == [NewReader(Odids) EXCEPT !.sound = reader.sound]
                       read == Written(c, IF new THEN empty ELSE reader, s, o, sets)
                   IN  \/ /\ ipxFile' = TRUE /\ UNCHANGED <<ipxPc, refused, forgotten>>
                          /\ reader' = [read EXCEPT !.sound = @ \/ s \in forgotten[o]]
                          /\ unreadable' = (unreadable \/ ~read.sound)
                          /\ ctxs' = [opened EXCEPT ![o].needs = @ /\ Records(sets) = 0,
                                 ![o].seq = IF preserve THEN @ ELSE @ + Records(sets)]
                       \/ /\ new /\ ipxPc' = "denied" /\ ipxFile' = FALSE   \* no new file
                          /\ UNCHANGED <<ctxs, reader, refused, forgotten, unreadable>>
    /\ UNCHANGED <<preserve, windowed, closed>>

\* remove_session, for one context.
Removed(c, s) ==
    IF c.session # s THEN [c EXCEPT !.colliding = @ \ {s}]
    ELSE IF c.colliding = {} THEN NoCtx
    ELSE [c EXCEPT !.session = None, !.colliding = {}, !.needs = TRUE]

Erased(s) == {o \in Odids : ctxs[o].session = s /\ ctxs[o].colliding = {}}

SessionClose(s) ==
    /\ ipxPc = "run" /\ s \notin closed /\ closed' = closed \cup {s}
    /\ ctxs' = [o \in Odids |-> Removed(ctxs[o], s)]
    /\ refused' = [o \in Odids |-> refused[o] \ {s}]
    /\ forgotten' = [o \in Odids |->
           (forgotten[o] \cup (IF o \in Erased(s) THEN refused[o] ELSE {})) \ {s}]
    /\ reader' = [reader EXCEPT !.next =
           [o \in Odids |-> IF o \in Erased(s) THEN -1 ELSE @[o]]]
    /\ UNCHANGED <<preserve, windowed, ipxFile, versions, messages, unreadable, ipxPc>>

PeriodicMessage ==
    /\ ipxPc = "run" /\ TRUE \in Due
    /\ \/ /\ ipxFile' = TRUE /\ ctxs' = Marked(ctxs)
          /\ reader' = [NewReader(Odids) EXCEPT !.sound = reader.sound] /\ UNCHANGED ipxPc
       \/ /\ ipxFile' = FALSE /\ ipxPc' = "denied" /\ UNCHANGED <<ctxs, reader>>
    /\ UNCHANGED <<preserve, windowed, versions, closed, messages, refused, forgotten,
                   unreadable>>

IpxDone == (ipxPc = "denied" \/ closed = Exporter) /\ UNCHANGED ipfixVars

Next ==
    \/ \E s \in Exporter, o \in Odids : IpfixMessage(s, o)
    \/ \E s \in Exporter : SessionClose(s)
    \/ PeriodicMessage \/ IpxDone

-----------------------------------------------------------------------------
(* Every data record in a file can be decoded by the templates before it in  *)
(* the same file, with the numbers of its sequence, however files change and *)
(* sessions collide, come and go; except for those of a session that was     *)
(* refused, and whose context went with another owner before it wrote.       *)
IpfixFileDecodes == reader.sound

(* All templates are written before any data (IPFIXOutput.hpp:70): there is  *)
(* no such exception.                                                        *)
TemplatesBeforeData == ~unreadable
=============================================================================
