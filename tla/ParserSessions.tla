---------------------------- MODULE ParserSessions ----------------------------
(* What the parser of an input knows about transport sessions (parser.c,     *)
(* plugin_parser.c), and the life of the sessions around it: the input opens *)
(* and closes them, the parser blocks or forgets them when a message cannot  *)
(* be parsed and asks the input to close them, and what they own is freed by *)
(* garbage messages at the end of the pipeline.                              *)
(*                                                                           *)
(* A session is known by the address of its structure only, and an address   *)
(* may be used again; <<a, g>> is the g-th session at the address a.  The     *)
(* parser finds its records by a binary search in a sorted array.             *)
EXTENDS Naturals, Sequences, FiniteSets, SequencesExt

CONSTANTS
    Addr,       \* addresses of session structures, numbers
    Odid,       \* Observation Domain IDs
    Transports, \* the inputs there may be
    Kind,       \* what may become of a message in the parser
    DefRecs,    \* records there is room for at first
    MaxGen,     \* bound: sessions per address
    MaxMsg,     \* bound: IPFIX messages
    RingCap     \* bound: capacity of both rings

ASSUME BoundsAssumption ==
    /\ Transports \subseteq {"tcp", "udp", "file"}
    /\ Kind \subseteq {"ok", "malformed", "nomem", "norec", "norequest"}
    /\ Addr \subseteq Nat /\ Odid \subseteq Nat /\ DefRecs \in Nat \ {0}
    /\ MaxGen \in Nat /\ MaxMsg \in Nat /\ RingCap \in Nat \ {0, 1}

Session == Addr \X (1 .. MaxGen)
Ctx == 1 .. MaxMsg              \* stream contexts (template managers)

(* The kinds of messages: well formed, malformed, no memory while it is      *)
(* parsed, no memory for the record of its session, malformed and no memory  *)
(* for the request to close the session.                                     *)
Ipfix(s, o, k) == [type |-> "ipfix", session |-> s, odid |-> o, kind |-> k]
Parsed(s, c) == [type |-> "parsed", session |-> s, ctxs |-> {c}]
CloseMsg(s) == [type |-> "close", session |-> s]
SessionGarbage(s) == [type |-> "garbage", session |-> s]
CtxGarbage(s, cs, c) == [type |-> "tmplts", session |-> s, ctxs |-> cs, closing |-> c]

VARIABLES
    transport, \* of the sessions of this input
    gen,       \* sessions allocated at each address so far
    alloc,     \* sessions whose structure is allocated
    open,      \* sessions the input knows
    ipc,       \* the input looks into its feedback pipe, or calls its getter
    ring,      \* from the input to the parser
    recs,      \* records of the parser, [session, odid, ctx, blocked] in order
    room,      \* how many there may be before the array grows
    fpipe,     \* requests to close a session
    down,      \* from the parser to the end of the pipeline
    ctxs,      \* stream contexts created so far
    freed,     \* stream contexts destroyed
    lost,      \* and those lost because no garbage message could be allocated
    sent,      \* IPFIX messages so far
    bad,       \* history: sessions the parser has asked to close
    hit        \* history: <<session asked for, session closed>>

vars == <<transport, gen, alloc, open, ipc, ring, recs, room, fpipe, down, ctxs, freed, lost, sent, bad, hit>>

\* The input can close a session on request; a malformed datagram is ignored.
Feedback == transport = "tcp"
Udp == transport = "udp"

Init ==
    /\ transport \in Transports /\ gen = [a \in Addr |-> 0] /\ alloc = {} /\ open = {} /\ ipc = "poll"
    /\ ring = <<>> /\ recs = <<>> /\ room = DefRecs
    /\ fpipe = <<>> /\ down = <<>>
    /\ ctxs = 0 /\ freed = {} /\ lost = {} /\ sent = 0
    /\ bad = {} /\ hit = {}

-----------------------------------------------------------------------------
(* The input.  Every turn of its loop looks into the feedback pipe, handles  *)
(* at most one request, and then calls the getter.                           *)

inputIdle == <<transport, recs, room, down, ctxs, freed, lost, bad>>

MUT_CloseSession(s) ==
    /\ Len(ring) + 2 <= RingCap
    /\ ring' = ring \o <<CloseMsg(s), SessionGarbage(s)>>
    /\ UNCHANGED open
CloseSession(s) ==
    /\ Len(ring) + 2 <= RingCap
    /\ open' = open \ {s}
    /\ ring' = ring \o <<CloseMsg(s), SessionGarbage(s)>>

\* The request is taken, but ts_close() is not called.
MUT_Poll ==
    /\ ipc = "poll" /\ ipc' = "get"
    /\ fpipe' = IF fpipe = <<>> THEN fpipe ELSE Tail(fpipe)
    /\ UNCHANGED <<open, ring, hit, gen, alloc, sent, inputIdle>>
\* ts_close() compares the address with those of the sessions it knows.
Poll ==
    /\ ipc = "poll" /\ ipc' = "get"
    /\ IF fpipe = <<>> THEN UNCHANGED <<open, ring, fpipe, hit>>
       ELSE /\ fpipe' = Tail(fpipe)
            /\ IF \E s \in open : s[1] = Head(fpipe)[1]
               THEN \E s \in open : /\ s[1] = Head(fpipe)[1]
                                    /\ CloseSession(s)
                                    /\ hit' = hit \cup {<<Head(fpipe), s>>}
               ELSE UNCHANGED <<open, ring, hit>>
    /\ UNCHANGED <<gen, alloc, sent, inputIdle>>

GetOpen(a) ==
    /\ ipc = "get" /\ ipc' = "poll"
    /\ gen[a] < MaxGen /\ \A s \in alloc : s[1] # a
    /\ gen' = [gen EXCEPT ![a] = @ + 1]
    /\ alloc' = alloc \cup {<<a, gen[a] + 1>>}
    /\ open' = open \cup {<<a, gen[a] + 1>>}
    /\ UNCHANGED <<ring, fpipe, sent, hit, inputIdle>>

GetMessage(s, o, k) ==
    /\ ipc = "get" /\ ipc' = "poll"
    /\ s \in open /\ sent < MaxMsg /\ Len(ring) < RingCap
    /\ ring' = Append(ring, Ipfix(s, o, k))
    /\ sent' = sent + 1
    /\ UNCHANGED <<gen, alloc, open, fpipe, hit, inputIdle>>

GetClose(s) ==
    /\ ipc = "get" /\ ipc' = "poll"
    /\ s \in open
    /\ CloseSession(s)
    /\ UNCHANGED <<gen, alloc, fpipe, sent, hit, inputIdle>>

\* The input is destroyed when its sessions are.
InputEnd ==
    /\ ipc = "get" /\ open = {} /\ ipc' = "ended"
    /\ UNCHANGED <<gen, alloc, open, ring, fpipe, sent, hit, inputIdle>>

GetNothing ==
    /\ ipc = "get" /\ ipc' = "poll"
    /\ UNCHANGED <<gen, alloc, open, ring, fpipe, sent, hit, inputIdle>>

-----------------------------------------------------------------------------
(* The parser.                                                               *)

parserIdle == <<transport, gen, alloc, open, ipc, freed, sent, hit>>

\* parser_rec_cmp, and bsearch() in the array of records.
Precedes(r, q) ==
    r.session[1] < q.session[1] \/ (r.session[1] = q.session[1] /\ r.odid < q.odid)
Found(rs, key) ==
    LET Search[range \in (1 .. Len(rs) + 1) \X (0 .. Len(rs))] ==
            LET lo == range[1]
                hi == range[2]
                mid == (lo + hi) \div 2
            IN IF lo > hi THEN 0
               ELSE IF Precedes(key, rs[mid]) THEN Search[<<lo, mid - 1>>]
               ELSE IF Precedes(rs[mid], key) THEN Search[<<mid + 1, hi>>] ELSE mid
    IN Search[<<1, Len(rs)>>]

\* The records of the session at the address of s: from its first one to the
\* next record of another session.
IsOf(s, r) == r.session[1] = s[1]
First(s, rs) == SelectInSeq(rs, LAMBDA r : IsOf(s, r))
OfSession(s, rs) ==
    LET first == First(s, rs)
    IN IF first = 0 THEN {} ELSE {i \in first .. Len(rs) : \A j \in first .. i : IsOf(s, rs[j])}
CtxsOf(s, rs) == {rs[i].ctx : i \in OfSession(s, rs)}

\* ipx_parser_session_remove: the records go, their contexts become garbage,
\* or are lost.
MUT_SessionRemove(s, rs) == IF First(s, rs) = 0 THEN rs ELSE RemoveAt(rs, First(s, rs))
SessionRemove(s, rs) ==
    LET n == Cardinality(OfSession(s, rs))
    IN IF n = 0 THEN rs ELSE SubSeq(rs, 1, First(s, rs) - 1) \o SubSeq(rs, First(s, rs) + n, Len(rs))
Garbage(s, rs, closing) ==
    IF OfSession(s, rs) = {} THEN <<>> ELSE <<CtxGarbage(s, CtxsOf(s, rs), closing)>>

\* ipx_parser_session_block
SessionBlock(s, rs) ==
    [i \in DOMAIN rs |-> IF i \in OfSession(s, rs) THEN [rs[i] EXCEPT !.blocked = TRUE] ELSE rs[i]]

\* What follows a message, and what follows a close message.
MUT_WithGarbage(m, garbage) == garbage \o m
WithGarbage(m, garbage) == m \o garbage

\* parser_plugin_remove_session: forget the session, or block it and ask for its end.
RemoveSession(s, rs, request, memory) ==
    IF Feedback /\ request
    THEN /\ recs' = SessionBlock(s, rs)
         /\ fpipe' = Append(fpipe, s)
         /\ bad' = bad \cup {s}
         /\ UNCHANGED <<down, lost>>
    ELSE /\ recs' = SessionRemove(s, rs)
         /\ down' = IF memory THEN down \o Garbage(s, rs, FALSE) ELSE down
         /\ lost' = IF memory THEN lost ELSE lost \cup CtxsOf(s, rs)
         /\ UNCHANGED <<fpipe, bad>>

\* parser_rec_get: find the record of a message, or add one.
Key(m) == [session |-> m.session, odid |-> m.odid]
IsNew(m) == Found(recs, Key(m)) = 0 /\ m.kind # "norec"
Sorted(rs) ==   \* qsort()
    CHOOSE qs \in [DOMAIN rs -> ToSet(rs)] :
        ToSet(qs) = ToSet(rs) /\ \A i, j \in DOMAIN qs : i < j => ~Precedes(qs[j], qs[i])
NewCtx(m) == [session |-> m.session, odid |-> m.odid, ctx |-> ctxs + 1, blocked |-> FALSE]
RecGet(m) == IF IsNew(m) THEN Sorted(Append(recs, NewCtx(m))) ELSE recs

Malformed(m) == m.kind \in {"malformed", "norequest"}

\* ipx_parser_process and parser_plugin_process_ipfix.
ParseMessage(memory) ==
    /\ ring # <<>> /\ Head(ring).type = "ipfix" /\ Len(down) + 2 <= RingCap
    /\ ring' = Tail(ring)
    /\ LET m == Head(ring)
           s == m.session
           rs == RecGet(m)
           at == Found(rs, Key(m))
       IN
       /\ ctxs' = IF IsNew(m) THEN ctxs + 1 ELSE ctxs
       /\ room' = IF Len(rs) > room THEN 2 * room ELSE room
       /\ CASE at # 0 /\ rs[at].blocked ->
                 recs' = rs /\ UNCHANGED <<down, fpipe, bad, lost>>
            [] m.kind = "norec" /\ at = 0 -> RemoveSession(s, rs, TRUE, memory)
            [] Malformed(m) /\ Udp -> recs' = rs /\ UNCHANGED <<down, fpipe, bad, lost>>
            [] m.kind = "nomem" \/ (Malformed(m) /\ ~Udp) ->
                 RemoveSession(s, rs, m.kind # "norequest", memory)
            [] OTHER -> /\ recs' = rs
                        /\ down' = Append(down, Parsed(s, rs[at].ctx))
                        /\ UNCHANGED <<fpipe, bad, lost>>
    /\ UNCHANGED parserIdle

\* parser_plugin_process_session
ParseClose(memory) ==
    /\ ring # <<>> /\ Head(ring).type = "close" /\ Len(down) + 2 <= RingCap
    /\ ring' = Tail(ring)
    /\ LET s == Head(ring).session IN
       /\ recs' = SessionRemove(s, recs)
       /\ down' = down \o WithGarbage(<<Head(ring)>>, IF memory THEN Garbage(s, recs, TRUE) ELSE <<>>)
       /\ lost' = IF memory THEN lost ELSE lost \cup CtxsOf(s, recs)
    /\ UNCHANGED <<room, fpipe, ctxs, bad, parserIdle>>

PassGarbage ==
    /\ ring # <<>> /\ Head(ring).type = "garbage" /\ Len(down) < RingCap
    /\ ring' = Tail(ring)
    /\ down' = Append(down, Head(ring))
    /\ UNCHANGED <<recs, room, fpipe, ctxs, lost, bad, parserIdle>>

\* ipx_plugin_parser_destroy: the parser with all it has left becomes garbage.
NoSession == <<0, 0>>
Destroy(memory) ==
    /\ ipc = "ended" /\ ring = <<>> /\ Len(down) < RingCap /\ ipc' = "gone" /\ recs' = <<>>
    /\ LET left == {recs[i].ctx : i \in DOMAIN recs}
       IN IF memory THEN down' = Append(down, CtxGarbage(NoSession, left, FALSE)) /\ UNCHANGED lost
          ELSE lost' = lost \cup left /\ UNCHANGED down
    /\ UNCHANGED <<transport, gen, alloc, open, ring, room, fpipe, ctxs, freed, sent, bad, hit>>

-----------------------------------------------------------------------------
(* The end of the pipeline destroys every message, and garbage what it holds.*)

Consume ==
    /\ down # <<>> /\ down' = Tail(down)
    /\ alloc' = IF Head(down).type = "garbage" THEN alloc \ {Head(down).session} ELSE alloc
    /\ freed' = IF Head(down).type = "tmplts" THEN freed \cup Head(down).ctxs ELSE freed
    /\ UNCHANGED <<transport, gen, open, ipc, ring, recs, room, fpipe, ctxs, lost, sent, bad, hit>>

-----------------------------------------------------------------------------
Input ==
    \/ Poll \/ GetNothing \/ InputEnd
    \/ \E a \in Addr : GetOpen(a)
    \/ \E s \in Session : GetClose(s) \/ \E o \in Odid, k \in Kind : GetMessage(s, o, k)
Parser == PassGarbage \/ \E memory \in BOOLEAN : ParseMessage(memory) \/ ParseClose(memory) \/ Destroy(memory)
Gone == ipc = "gone" /\ down = <<>> /\ UNCHANGED vars

Next == Input \/ Parser \/ Consume \/ Gone

Spec == Init /\ [][Next]_vars

(* The three threads run for ever; the input keeps polling its pipe.         *)
FairSpec == Spec /\ WF_vars(Poll) /\ WF_vars(Input) /\ WF_vars(Parser) /\ WF_vars(Consume)

-----------------------------------------------------------------------------
(* Properties.                                                               *)

Rec == [session : Session, odid : Odid, ctx : Ctx, blocked : BOOLEAN]

TypeOK ==
    /\ transport \in Transports /\ gen \in [Addr -> 0 .. MaxGen]
    /\ alloc \subseteq Session /\ open \subseteq alloc
    /\ ipc \in {"poll", "get", "ended", "gone"}
    /\ Len(ring) <= RingCap /\ Len(down) <= RingCap
    /\ recs \in Seq(Rec) /\ Len(recs) <= room
    /\ \A k \in DOMAIN fpipe : fpipe[k] \in Session
    /\ ctxs \in 0 .. MaxMsg /\ freed \cup lost \subseteq 1 .. ctxs
    /\ sent \in 0 .. MaxMsg /\ bad \subseteq Session

(* A parsed message on its way refers to a session and a template manager    *)
(* that are both still there when it is processed, whatever garbage is ahead *)
(* of it.                                                                    *)
RefersToLiving ==
    \A j \in DOMAIN down : down[j].type = "parsed" =>
        /\ down[j].session \in alloc /\ down[j].ctxs \cap freed = {}
        /\ \A i \in 1 .. j - 1 :
              /\ down[i].type = "garbage" => down[i].session # down[j].session
              /\ down[i].type = "tmplts" => down[i].ctxs \cap down[j].ctxs = {}

(* The parser never keeps a record of a session that is gone: templates of   *)
(* one session cannot be used for another one at the same address; and there *)
(* is one record of a session and an ODID, or their templates would be split. *)
NoStaleRecord ==
    \A k \in DOMAIN recs :
        /\ recs[k].session \in alloc
        /\ recs[k].ctx \notin freed
        /\ \A i \in DOMAIN ring : ring[i].type = "ipfix" /\ IsOf(ring[i].session, recs[k])
              => ring[i].session = recs[k].session
        /\ Found(recs, recs[k]) = k

(* A template manager is in the records or on its way to be destroyed, or it *)
(* has been destroyed: none is lost unless memory is, none is destroyed twice.*)
ContextsAccounted ==
    LET kept == {recs[k].ctx : k \in DOMAIN recs}
        going == {j \in DOMAIN down : down[j].type = "tmplts"}
    IN /\ kept \cup freed \cup lost \cup UNION {down[j].ctxs : j \in going} = 1 .. ctxs
       /\ lost \cap (kept \cup freed) = {} /\ Cardinality(kept) = Len(recs)
       /\ \A j \in going : down[j].ctxs \cap (kept \cup freed \cup lost) = {}
       /\ \A i, j \in going : i # j => down[i].ctxs \cap down[j].ctxs = {}

(* plugin_parser.c: templates that go with a close message are destroyed     *)
(* after it, because other plugins may keep references to them until they    *)
(* hear of the close.                                                        *)
TemplatesOutliveClose ==
    \A i \in DOMAIN down : down[i].type = "tmplts" /\ down[i].closing =>
        /\ down[i].session \notin open
        /\ \A j \in DOMAIN ring : ring[j] # CloseMsg(down[i].session)
        /\ \A j \in i .. Len(down) : down[j] # CloseMsg(down[i].session)

(* A session the parser has asked to close is closed.                        *)
BadSessionCloses == \A s \in Session : s \in bad ~> s \notin open

(* parser.h, ipx_parser_session_block: all Observation Domain IDs will be    *)
(* blocked until the session is removed.                                     *)
BlockedStaysBlocked ==
    [][\A s \in bad : (\E k \in DOMAIN recs : recs[k].session = s /\ recs[k].blocked)
           => \A j \in DOMAIN down' \ DOMAIN down :
                  ~(down'[j].type = "parsed" /\ down'[j].session = s)]_vars

(* plugins.h, ipx_plugin_session_close: the core uses it to close a session  *)
(* that has sent a malformed message.                                        *)
ClosesTheRequested == \A p \in hit : p[1] = p[2]
=============================================================================
