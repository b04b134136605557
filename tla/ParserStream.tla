---------------------------- MODULE ParserStream ----------------------------
(* What the parser does with the messages of one stream: one Transport       *)
(* Session, Observation Domain ID and stream, ipx_parser_process() in        *)
(* parser.c with its callers in plugin_parser.c.  NetFlow is converted       *)
(* first (NetFlow).  Over UDP messages are lost and reordered.    *)
(*                                                                           *)
(* The template manager is libfds (external): the templates as they are at   *)
(* each export time, a change of the past going on until the next one.       *)
EXTENDS Integers, Sequences, FiniteSets, SequencesExt

CONSTANTS
    Def,         \* definitions, all of template ID 1
    Versions,    \* the exporters there are: NetFlow 5 and 9, IPFIX (10), others
    Lifetime,    \* of a template over UDP, in seconds
    Window,      \* how long templates of the past are kept
    W, MaxTime, MaxMsgs, MaxNet,
    None, Bad

Tid == {1}
Time == 1 .. MaxTime
NF == INSTANCE NetFlow WITH MaxSet <- 200, T <- 16, MaxMsg <- 4

VARIABLES
    udp,         \* the type of the session
    exporter,    \* its version, last definition, next number, clock, messages sent
    net,         \* messages that are delayed
    ctx,         \* struct stream_ctx: type, converter, SCF_BLOCK
    info,        \* struct stream_info: SIF_SEEN, the expected number
    mgr,         \* the template manager: [now, tab]
    newest,      \* [at, seq, end] of the newest message accepted, not modulo W
    late,        \* a message has arrived behind a later one
    rejected,    \* a message was converted, or in part, and then dropped
    outdated,    \* data met another template than its exporter's in the converter
    skipped,     \* the parser did not count all records of a converted message
    garbled,     \* a record was passed on that is not what the exporter sent
    blind,       \* a converted data set found no template
    surprised    \* a converted message was out of sequence

ghosts == <<newest, late, rejected, outdated, skipped, garbled, blind, surprised>>
vars == <<udp, exporter, net, ctx, info, mgr, ghosts>>

NewCtx == [type |-> "unknown", conv |-> None, block |-> FALSE]
NewInfo == [seen |-> FALSE, seq |-> 0]
NewMgr == [now |-> 0, first |-> 0, tab |-> [t \in Time |-> None]]

Init ==
    /\ udp \in BOOLEAN
    /\ \E ver \in Versions :
          /\ ~udp => ver = 10
          /\ exporter = [ver |-> ver, def |-> None, seq |-> W - 2, time |-> 1, nr |-> 0,
                        restarted |-> FALSE]
    /\ net = <<>>
    /\ ctx = NewCtx /\ info = NewInfo /\ mgr = NewMgr
    /\ newest = [at |-> 0, seq |-> 0, end |-> 0]
    /\ late = FALSE /\ rejected = FALSE /\ outdated = FALSE /\ skipped = FALSE
    /\ garbled = FALSE /\ blind = FALSE /\ surprised = FALSE

-----------------------------------------------------------------------------
(* The exporter (external).  A byte of a field of a record is <<i, j, k>>.   *)
Raw(fields, n) ==
    FlattenSeq([i \in 1 .. n |->
        FlattenSeq([j \in 1 .. Len(fields) |-> [k \in 1 .. fields[j].len |-> <<i, j, k>>]])])

Plain(def) == [j \in 1 .. Len(def.fields) |->
    [ie |-> def.fields[j].id, en |-> "iana", len |-> def.fields[j].len]]
Withdrawal == [tid |-> 1, ies |-> <<>>]

\* The sets of a message: maybe templates, maybe n records, maybe rubbish.
Definitions(m) ==
    IF m.ver = 9 THEN <<m.def>>
    ELSE IF m.withdraw THEN <<Withdrawal, [tid |-> 1, ies |-> Plain(m.def)]>>
    ELSE <<[tid |-> 1, ies |-> Plain(m.def)]>>
Sets(m) ==
    (IF m.tset THEN <<[k |-> "tset", opts |-> m.def.scopes > 0, recs |-> Definitions(m)]>> ELSE <<>>)
    \o (IF m.n > 0 THEN <<[k |-> "dset", tid |-> 1, bytes |-> Raw(m.def.fields, m.n)]>> ELSE <<>>)
    \o (IF m.bad THEN <<Bad>> ELSE <<>>)

Message(time, def, tset, n, bad) ==
    [nr |-> exporter.nr, ver |-> exporter.ver, time |-> time, start |-> exporter.seq, def |-> def,
     n |-> n, bad |-> bad, tset |-> tset, withdraw |-> ~udp /\ exporter.def \notin {None, def}]

\* A clock may be set back; templates go out when they are new, or again.
Clock == {t \in Time : t - exporter.time \in IF udp THEN {0, 2} ELSE {0, 1, -1}}
Fresh ==
    CASE exporter.ver = 5 ->
            {Message(t, NF!V5Def, FALSE, n, b) : t \in Clock, n \in 0 .. 2, b \in BOOLEAN}
      [] exporter.ver = 7 -> {Message(t, NF!V5Def, FALSE, 0, FALSE) : t \in Clock}
      [] OTHER -> {m \in {Message(t, d, s, n, b) : t \in Clock, d \in Def, s \in BOOLEAN,
                                                   n \in 0 .. 1, b \in BOOLEAN} :
                    (m.def # exporter.def => m.tset) /\ (m.n = 0 => m.tset)}

Sent(m) ==
    /\ exporter.nr < MaxMsgs
    /\ exporter' = [exporter EXCEPT !.def = m.def, !.time = m.time, !.nr = @ + 1,
                                    !.seq = @ + IF m.ver = 9 THEN 1 ELSE m.n]

-----------------------------------------------------------------------------
(* The template manager (external): [ies, until].                            *)
Valid(entry, t) == IF entry = None THEN FALSE ELSE ~udp \/ entry.until >= t
Template(m, t) == IF Valid(m.tab[t], t) THEN m.tab[t].ies ELSE None
Change(m, t, entry) ==
    [m EXCEPT !.tab = [u \in Time |-> IF u >= t /\ \A v \in t .. u : m.tab[v] = m.tab[t]
                                      THEN entry ELSE m.tab[u]]]
SetTime(m, t) ==
    IF t >= m.now THEN [m EXCEPT !.now = t, !.first = IF m.now = 0 THEN t ELSE @] ELSE m

\* fds_tset_iter and fds_dset_iter.
Fields(ies, rec) ==
    [j \in 1 .. Len(ies) |->
        SubSeq(rec, NF!SumLen(SubSeq(ies, 1, j - 1)) + 1, NF!SumLen(SubSeq(ies, 1, j)))]
Split(ies, bytes) ==
    IF ies = None THEN <<>>
    ELSE [i \in 1 .. Len(bytes) \div NF!SumLen(ies) |->
            [ies |-> ies, fields |-> Fields(ies, NF!Records(bytes, NF!SumLen(ies))[i])]]

-----------------------------------------------------------------------------
(* parser_parse_message(): p = [rc, mgr, recs, missed] goes from set         *)
(* to set and stops at the first error.                                      *)
ParseDef(p, def, time) ==
    IF p.rc # "ok" THEN p
    ELSE IF def.ies = <<>>
    THEN IF udp THEN p ELSE [p EXCEPT !.mgr = Change(@, time, None)]
    ELSE IF ~udp /\ Template(p.mgr, time) \notin {None, def.ies} THEN [p EXCEPT !.rc = "format"]
    ELSE [p EXCEPT !.mgr = Change(@, time, [ies |-> def.ies, until |-> time + Lifetime])]

ParseTset(p, set, time) ==
    FoldLeft(LAMBDA a, d : ParseDef(a, d, time), p, set.recs)

ParseDset(p, set, time) ==
    IF Template(p.mgr, time) = None THEN [p EXCEPT !.missed = TRUE]
    ELSE IF Split(Template(p.mgr, time), set.bytes) = <<>>
    THEN [p EXCEPT !.rc = "format", !.mgr = Change(@, time, None)]
    ELSE [p EXCEPT !.recs = @ \o Split(Template(p.mgr, time), set.bytes)]

ParseSet(p, set, time) ==
    IF p.rc # "ok" THEN p
    ELSE IF set = Bad THEN [p EXCEPT !.rc = "format"]
    ELSE IF set.k = "tset" THEN ParseTset(p, set, time)
    ELSE ParseDset(p, set, time)

ParseMessage(m, msg) ==
    FoldLeft(LAMBDA p, s : ParseSet(p, s, msg.time),
             [rc |-> "ok", mgr |-> m, recs |-> <<>>, missed |-> FALSE], msg.sets)

-----------------------------------------------------------------------------
(* parser_convert(): the first message decides what the stream is.           *)
Refresh == IF udp THEN Lifetime \div 3 ELSE 0
VersionType(ver) == CASE ver = 5 -> "nf5" [] ver = 9 -> "nf9" [] ver = 10 -> "ipfix" [] OTHER -> "unknown"
StreamType(ver) == IF ctx.type = "unknown" THEN VersionType(ver) ELSE ctx.type
NewConv(type) ==
    IF type = "nf5" THEN NF!NewV5Conv(Refresh) ELSE IF type = "nf9" THEN NF!NewConv ELSE None

V5Message(m) ==
    [seq |-> m.start % W, time |-> m.time, bytes |-> Raw(m.def.fields, m.n),
     count |-> IF m.bad THEN m.n + 1 ELSE m.n]
Original(m) == [seq |-> m.start % W, time |-> m.time, sets |-> Sets(m)]
Outcome(c, result) ==
    [rc |-> IF result.ok THEN "ok" ELSE "format",
     ctx |-> [c EXCEPT !.conv = result.conv], msg |-> result.msg]
Decided(type, alloc) ==
    IF ctx.type # "unknown" THEN ctx
    ELSE [ctx EXCEPT !.type = type, !.conv = IF alloc THEN NewConv(type) ELSE None]

\* [rc, ctx, msg]; alloc: the converter can be allocated.
Converted(m, type, alloc) ==
    IF type = "unknown" \/ VersionType(m.ver) # type
    THEN [rc |-> "format", ctx |-> ctx, msg |-> Original(m)]
    ELSE IF type = "ipfix" THEN [rc |-> "ok", ctx |-> Decided(type, alloc), msg |-> Original(m)]
    ELSE IF ctx.type = "unknown" /\ ~alloc
    THEN [rc |-> "nomem", ctx |-> Decided(type, alloc), msg |-> Original(m)]
    ELSE Outcome(Decided(type, alloc),
                 IF type = "nf5" THEN NF!V5Process(Decided(type, alloc).conv, V5Message(m))
                 ELSE NF!Process(Decided(type, alloc).conv, Original(m)))

\* The sequence number: a newer one is taken over, an older one is late.
MUT_Checked(seq) ==
    IF info.seen /\ info.seq # seq THEN seq ELSE seq
Checked(seq) ==
    IF ~info.seen \/ info.seq = seq \/ NF!SeqNewer(seq, info.seq) THEN seq ELSE info.seq
IsOld(seq) == Checked(seq) # seq

\* plugin_parser.c: over UDP a malformed message is dropped, and a failed
\* allocation removes all that is known of the session, which no feedback can
\* close; otherwise the session is blocked and will be closed.
Blocks(rc) == rc \in {"format", "nomem"} /\ ~udp
Removes(rc) == rc = "nomem" /\ udp

\* What the exporter meant by record i of a definition.
Element(f, isScope) ==
    IF isScope THEN [ie |-> NF!OptsMap(f.id).ie, en |-> "iana", len |-> f.len]
    ELSE IF f.id \in {21, 22} THEN [ie |-> NF!DataMap(f.id).ie, en |-> "iana", len |-> 8]
    ELSE [ie |-> f.id % 32768, en |-> NF!Enterprise(f.id), len |-> f.len]
Value(f, isScope, i, j) ==
    IF f.id \in {21, 22} /\ ~isScope THEN [k \in 1 .. 8 |-> <<0, <<i, j, 1>>, k>>]
    ELSE [k \in 1 .. f.len |-> <<i, j, k>>]
Meaning(def, i) ==
    [ies |-> [j \in 1 .. Len(def.fields) |-> Element(def.fields[j], j <= def.scopes)],
     fields |-> [j \in 1 .. Len(def.fields) |-> Value(def.fields[j], j <= def.scopes, i, j)]]

\* The ghosts: what became of message m, converted to c and parsed to p.
Larger(a, b) == IF a > b THEN a ELSE b
Ends(m, isNetFlow) ==
    IF ~isNetFlow /\ (m.start > newest.seq \/ (m.start = newest.seq /\ m.start + m.n >= newest.end))
    THEN [at |-> Larger(newest.at, m.nr), seq |-> m.start, end |-> m.start + m.n]
    ELSE [newest EXCEPT !.at = Larger(@, m.nr)]
Outdated(m, c, p) ==
    CASE c.ctx.type = "nf9" ->
            IF c.ctx.conv.table[1] = None THEN FALSE ELSE c.ctx.conv.table[1].def # m.def
      [] c.ctx.type = "ipfix" -> p.recs # <<>> /\ p.recs[1].ies # Plain(m.def)
      [] OTHER -> FALSE
Judge(m, c, p, dropped, isNetFlow) ==
    /\ newest' = Ends(m, isNetFlow)
    /\ late' = (late \/ m.nr < newest.at \/ m.time < mgr.now)
    /\ rejected' = (rejected \/ (isNetFlow /\ dropped))
    /\ outdated' = (outdated \/ (m.n > 0 /\ Outdated(m, c, p)))
    /\ skipped' = (skipped \/ (isNetFlow /\ (dropped \/ p.missed)))
    /\ garbled' = (garbled \/ (isNetFlow /\ ~dropped /\ p.recs # <<>>
                               /\ p.recs # [i \in 1 .. m.n |-> Meaning(m.def, i)]))
    /\ blind' = (blind \/ (c.ctx.type = "nf5" /\ p.missed))
    /\ surprised' = (surprised \/ (isNetFlow /\ info.seen /\ info.seq # c.msg.seq))

\* ipx_parser_process() and parser_plugin_process_ipfix().
SessionRemove ==
    /\ ctx' = NewCtx /\ info' = NewInfo /\ mgr' = NewMgr
    /\ newest' = [newest EXCEPT !.seq = 0, !.end = 0]
    /\ UNCHANGED <<late, rejected, outdated, skipped, garbled, blind, surprised>>
Fail(c, rc) ==
    IF Removes(rc) THEN SessionRemove ELSE
    /\ ctx' = [c.ctx EXCEPT !.block = Blocks(rc)]
    /\ rejected' = (rejected \/ c.ctx.type = "nf9")
    /\ UNCHANGED <<info, mgr, newest, late, outdated, skipped, garbled, blind, surprised>>

Dropped(m, c, p, rc) ==
    /\ info' = [seen |-> TRUE, seq |-> Checked(c.msg.seq)]
    /\ ctx' = [c.ctx EXCEPT !.block = Blocks(rc)]
    /\ Judge(m, c, p, TRUE, c.ctx.type # "ipfix") /\ UNCHANGED mgr
Parsed(m, c, p) ==
    /\ mgr' = p.mgr
    /\ info' = [seen |-> TRUE,
                seq |-> IF p.rc = "ok" /\ ~IsOld(c.msg.seq)
                        THEN (c.msg.seq + Len(p.recs)) % W ELSE Checked(c.msg.seq)]
    /\ ctx' = [c.ctx EXCEPT !.block = Blocks(p.rc)]
    /\ Judge(m, c, p, p.rc # "ok", c.ctx.type # "ipfix")

\* Without UDP a time in history is denied; over UDP there may be no templates
\* for it, and no records.
Accept(m, c, t) ==
    \E p \in {ParseMessage(SetTime(mgr, t), c.msg)} :
       \/ ~udp /\ t < mgr.now /\ Dropped(m, c, p, "format")
       \/ udp /\ (t < mgr.first \/ t + Window < mgr.now) /\ Dropped(m, c, p, "ok")
       \/ /\ IF udp THEN t >= mgr.first /\ t + Window >= mgr.now ELSE t >= mgr.now
          /\ Parsed(m, c, p)

\* Behind the conversion an allocation may fail as well.
Process(m) ==
    IF ctx.block THEN UNCHANGED <<ctx, info, mgr, ghosts>>
    ELSE \E alloc \in BOOLEAN : \E c \in {Converted(m, StreamType(m.ver), alloc)} :
            IF c.rc # "ok" THEN Fail(c, c.rc)
            ELSE Accept(m, c, c.msg.time) \/ Fail(c, "nomem")

\* What is sent arrives at once; over UDP it may be lost, or delayed and
\* arrive behind later messages.  (Sending depends on nothing that the parser
\* does: no other interleaving makes a difference.)
Arrive == \E m \in Fresh : Sent(m) /\ Process(m) /\ UNCHANGED <<udp, net>>
Lose == udp /\ \E m \in Fresh : Sent(m) /\ UNCHANGED <<udp, net, ctx, info, mgr, ghosts>>
Delay ==
    /\ udp /\ Len(net) < MaxNet
    /\ \E m \in Fresh : Sent(m) /\ net' = Append(net, m)
    /\ UNCHANGED <<udp, ctx, info, mgr, ghosts>>
ArriveLate ==
    \E i \in DOMAIN net :
        net' = RemoveAt(net, i) /\ Process(net[i]) /\ UNCHANGED <<udp, exporter>>

\* Another exporter, or the same one restarted, takes the address over.
Restart ==
    /\ udp /\ exporter.nr > 0 /\ ~exporter.restarted
    /\ \E ver \in Versions :
          exporter' = [exporter EXCEPT !.ver = ver, !.def = None, !.seq = 0, !.restarted = TRUE]
    /\ UNCHANGED <<udp, net, ctx, info, mgr, ghosts>>

Done == exporter.nr = MaxMsgs /\ UNCHANGED vars

Next == Arrive \/ Lose \/ Delay \/ ArriveLate \/ Restart \/ Done

Spec == Init /\ [][Next]_vars

-----------------------------------------------------------------------------
(* While nothing is lost between converter and template manager, and nothing *)
(* arrives late, every record that is passed on is what the exporter sent.   *)
StreamInStep == garbled => late \/ rejected \/ outdated

(* The numbers of converted messages go with the records the parser counts:  *)
(* a jump means that records were dropped, or cut up wrongly, in between.    *)
NumbersInStep == surprised => skipped \/ garbled

(* A converter is there when it is used.                                     *)
ConverterExists == ctx.type \in {"nf5", "nf9"} /\ ~ctx.block => ctx.conv # None

(* The template of NetFlow v5 is refreshed before it expires.                *)
NeverBlind == blind => late

(* The expected number is inside or at the ends of the newest message,       *)
(* whatever is late, lost or malformed.                                      *)
ExpectsNewest ==
    info.seen /\ ctx.type = "ipfix" /\ ~exporter.restarted /\ ~outdated =>
        \E d \in 0 .. newest.end - newest.seq : info.seq = (newest.seq + d) % W
=============================================================================
