---------------------------- MODULE RecordPlugins ----------------------------
(* The small plugins in one chain: the input dummy or another one, the       *)
(* filter, the anonymization and the outputs dummy and timecheck (filter.c,  *)
(* msg_builder.h, anonymization.c, panonymizer.c, dummy.c, timecheck.c).     *)
(* A packet is a sequence of units: its header, headers of sets, templates,  *)
(* fields of records and padding.  Its sets and records are known by their   *)
(* positions, as the pointers of the program are.                            *)
EXTENDS Integers, Sequences, SequencesExt, FiniteSetsExt

CONSTANTS
    Contents,       \* what messages may consist of: sequences of sets
    Cipher(_, _),   \* the first bit that a key makes of the bits of a block
    Pad(_),         \* m_pad of a key, a block of bits
    Keys,           \* keys of the instances of the anonymization
    Byte,           \* bits of a byte
    DevPast, DevFuture, Times,  \* timecheck: tolerances, and the times it may be
    Bad,            \* what no number can be read from
    MaxMessages     \* bound

VARIABLES
    anonMode,       \* "trunc" or "cryptopan"
    panKey,         \* m_key and m_pad are static: the key of the last instance
    chainPc,        \* the plugin that is next
    session,        \* the session of the input dummy
    passed,         \* types of the messages the input has passed
    content,        \* what the message under way consisted of
    packet,         \* and the message itself
    stats,          \* of the output dummy
    exact,          \* what they should be
    violations      \* when timecheck saw the last message, and what it printed
chainVars == <<anonMode, panKey, chainPc, session, passed, content, packet, stats, exact, violations>>

-----------------------------------------------------------------------------
(* Packets, as the parser describes them.                                    *)

MinDset == 256
Header(len) == [what |-> "message", len |-> len]
SetHeader(id, len) == [what |-> "set", id |-> id, len |-> len]
RecRef(rec, at) == [at |-> at, size |-> Len(rec.fields), opts |-> rec.opts, biflow |-> rec.biflow,
                    matches |-> rec.matches]
Start == [buf |-> <<Header(1)>>, sets |-> <<>>, recs |-> <<>>]

\* A set, its records and the padding (or the templates) behind them.
Laid(packed, set) ==
    LET at == Len(packed.buf) + 1
        inner == FlattenSeq([i \in DOMAIN set.recs |-> set.recs[i].fields]) \o set.rest
        Ahead(i) == FoldLeft(LAMBDA n, rec : n + Len(rec.fields), 0, SubSeq(set.recs, 1, i - 1))
    IN [buf |-> packed.buf \o <<SetHeader(set.id, 1 + Len(inner))>> \o inner,
        sets |-> Append(packed.sets, at),
        recs |-> packed.recs \o [i \in DOMAIN set.recs |-> RecRef(set.recs[i], at + 1 + Ahead(i))]]
WithLength(packed) == [packed EXCEPT !.buf[1] = Header(Len(packed.buf))]
Layout(sets) == WithLength(FoldLeft(Laid, Start, sets))

-----------------------------------------------------------------------------
(* The filter builds a new message from the old one.                         *)

Belongs(old, set, i) ==
    old.recs[i].at >= set /\ old.recs[i].at < set + old.buf[set].len

\* msg_builder_copy_set, _begin_dset, _copy_drec and _end_dset
CopySet(mb, old, set) ==
    [mb EXCEPT !.sets = Append(@, Len(mb.buf) + 1),
               !.buf = @ \o SubSeq(old.buf, set, set + old.buf[set].len - 1)]
BeginDset(mb, id) == [mb EXCEPT !.buf = Append(@, SetHeader(id, 0))]
MUT_CopyDrec(mb, old, rec) ==
    [mb EXCEPT !.recs = Append(@, rec), !.buf = @ \o SubSeq(old.buf, rec.at, rec.at + rec.size - 1)]
CopyDrec(mb, old, rec) ==
    [mb EXCEPT !.recs = Append(@, [rec EXCEPT !.at = Len(mb.buf) + 1]),
               !.buf = @ \o SubSeq(old.buf, rec.at, rec.at + rec.size - 1)]
EndDset(mb, begin) ==
    LET len == Len(mb.buf) - begin + 1
    IN IF len <= 1 THEN [mb EXCEPT !.buf = SubSeq(@, 1, begin - 1)]
       ELSE [mb EXCEPT !.buf[begin].len = len, !.sets = Append(@, begin)]

\* The records of a set are those from the next one on that lie within it.
RunOf(old, set, next) ==
    {i \in next .. Len(old.recs) : \A j \in next .. i : Belongs(old, set, j)}
Matching(old, run) == SelectSeq(SetToSortSeq(run, <), LAMBDA i : old.recs[i].matches)

FilterSet(old, state, set) ==
    IF old.buf[set].id < MinDset THEN [state EXCEPT !.mb = CopySet(@, old, set)]
    ELSE LET run == RunOf(old, set, state.next)
             Copy(mb, i) == CopyDrec(mb, old, old.recs[i])
             records == FoldLeft(Copy, BeginDset(state.mb, old.buf[set].id), Matching(old, run))
         IN [mb |-> EndDset(records, Len(state.mb.buf) + 1), next |-> state.next + Cardinality(run)]
Filtered(old) ==
    WithLength(FoldLeft(LAMBDA state, set : FilterSet(old, state, set),
                        [mb |-> [Start EXCEPT !.buf = <<old.buf[1]>>], next |-> 1], old.sets).mb)
IsEmpty(mb) == Len(mb.buf) <= 1

-----------------------------------------------------------------------------
(* The anonymization.  An address is a sequence of bits.                     *)

Truncated(bits) == [i \in DOMAIN bits |-> IF i <= Len(bits) \div 2 THEN bits[i] ELSE 0]
Xor(a, b) == (a + b) % 2
Or(a, b) == IF a + b > 0 THEN 1 ELSE 0

\* anonymize(): of the prefixes of an IPv4 address, padded, a bit each.
Padded(bits, n, key) == [i \in DOMAIN Pad(key) |-> IF i <= n THEN bits[i] ELSE Pad(key)[i]]
Anonymize(bits, key) ==
    [i \in DOMAIN bits |-> Xor(bits[i], Cipher(key, Padded(bits, i - 1, key)))]

\* anonymize_v6(): a byte keeps a bit more than that, is united with the byte
\* of the pad, and gets its bits from the lowest to the highest.
Block6(bits, pos, key) ==
    LET begin == (pos \div Byte) * Byte
    IN [i \in DOMAIN Pad(key) |->
           IF i <= begin THEN bits[i]
           ELSE IF i > begin + Byte THEN Pad(key)[i]
           ELSE Or(IF i - begin <= (pos % Byte) + 1 THEN bits[i] ELSE 0, Pad(key)[i])]
PosOf(i) == ((i - 1) \div Byte) * Byte + (Byte - 1 - ((i - 1) % Byte))
AnonymizeV6(bits, key) ==
    [i \in DOMAIN bits |-> Xor(bits[i], Cipher(key, Block6(bits, PosOf(i), key)))]

CryptoPan(unit) ==
    IF unit.size = 4 THEN Anonymize(unit.value, panKey) ELSE AnonymizeV6(unit.value, panKey)
IsAddress(unit) == unit.what = "field" /\ unit.type = "ip" /\ unit.size \in {4, 16}
FieldsOf(p) == UNION {p.recs[i].at .. p.recs[i].at + p.recs[i].size - 1 : i \in DOMAIN p.recs}
Anonymized(p) ==
    [p EXCEPT !.buf = [i \in DOMAIN @ |->
        IF i \in FieldsOf(p) /\ IsAddress(@[i])
        THEN [@[i] EXCEPT !.value = IF anonMode = "trunc" THEN Truncated(@) ELSE CryptoPan(p.buf[i])]
        ELSE @[i]]]

-----------------------------------------------------------------------------
(* The outputs.                                                              *)

Unchecked == [now |-> Bad, found |-> {}]
NoStats == [data |-> 0, opts |-> 0, bytes |-> 0, pkts |-> 0]
\* fds_drec_find and fds_get_uint_be: the first of its fields, if it is a number.
ValueOf(p, rec, ie) ==
    LET at == {i \in rec.at .. rec.at + rec.size - 1 : p.buf[i].ie = ie}
    IN IF at = {} \/ p.buf[Min(at)].value = Bad THEN 0 ELSE p.buf[Min(at)].value
StatsUpdate(p, before) ==
    LET Count(s, rec) ==
            IF rec.opts THEN [s EXCEPT !.opts = @ + 1]
            ELSE LET Both(ie, reverse) ==
                         ValueOf(p, rec, ie) + (IF rec.biflow THEN ValueOf(p, rec, reverse) ELSE 0)
                 IN [s EXCEPT !.data = @ + 1, !.bytes = @ + Both("octets", "octets reverse"),
                              !.pkts = @ + Both("packets", "packets reverse")]
    IN FoldLeft(Count, before, p.recs)

\* timestamp_check: a time in milliseconds against the present in seconds.
IsTime(unit) == unit.ie = "time"
Spread(diff) == [days |-> diff \div 86400, hours |-> (diff \div 3600) % 24,
                 minutes |-> (diff \div 60) % 60, seconds |-> diff % 60]
TimestampCheck(unit, now) ==
    IF unit.value = Bad THEN {}
    ELSE LET ts == unit.value \div 1000
         IN IF ts <= now
            THEN IF now - ts <= DevPast THEN {} ELSE {<<"past", Spread(now - ts)>>}
            ELSE IF ts - now <= DevFuture THEN {} ELSE {<<"future", Spread(ts - now)>>}
TimeCheck(p, now) ==
    UNION {TimestampCheck(p.buf[i], now) : i \in {j \in FieldsOf(p) : IsTime(p.buf[j])}}

-----------------------------------------------------------------------------
(* The chain: one message after another goes through all plugins.            *)

Init ==
    /\ anonMode \in {"trunc", "cryptopan"} /\ panKey = Bad /\ chainPc = "init"
    /\ session = "none" /\ passed = <<>> /\ content = <<>> /\ packet = Start
    /\ stats = NoStats /\ exact = NoStats /\ violations = Unchecked

\* Every instance in that mode initialises the key of all of them.
AnonInit ==
    /\ chainPc = "init" /\ chainPc' = "get"
    /\ IF anonMode = "cryptopan" THEN panKey' \in Keys ELSE UNCHANGED panKey
    /\ UNCHANGED <<anonMode, session, passed, content, packet, stats, exact, violations>>

Passes(sets) ==
    /\ content' = sets /\ packet' = Layout(sets) /\ chainPc' = "filter" /\ violations' = Unchecked
    /\ UNCHANGED <<anonMode, panKey, stats, exact>>

\* The input dummy opens its session once; without memory it skips a message.
MUT_Opens == <<"open">>
Opens == IF session = "none" THEN <<"open">> ELSE <<>>
DummyGet ==
    /\ chainPc = "get" /\ Len(passed) < MaxMessages /\ session' = "open"
    /\ \/ passed' = passed \o Opens \o <<"ipfix">> /\ Passes(<<>>)
       \/ /\ passed' = passed \o Opens
          /\ UNCHANGED <<anonMode, panKey, chainPc, content, packet, stats, exact, violations>>
OtherGet ==
    /\ chainPc = "get" /\ Len(passed) < MaxMessages /\ passed' = Append(passed, "other")
    /\ \E sets \in Contents : Passes(sets)
    /\ UNCHANGED session

\* A message of which nothing is left is destroyed; one that cannot be built
\* stays with the filter, which gets no other.
FilterProcess ==
    /\ chainPc = "filter" /\ packet' = Filtered(packet)
    /\ chainPc' \in {IF IsEmpty(Filtered(packet)) THEN "get" ELSE "anonymization", "failed"}
    /\ UNCHANGED <<anonMode, panKey, session, passed, content, stats, exact, violations>>
AnonProcess ==
    /\ chainPc = "anonymization" /\ chainPc' = "outputs" /\ packet' = Anonymized(packet)
    /\ UNCHANGED <<anonMode, panKey, session, passed, content, stats, exact, violations>>

\* What is to be counted, by the records themselves.
Kept(sets) ==
    LET Left(set) ==
            IF set.id < MinDset THEN set
            ELSE [set EXCEPT !.recs = SelectSeq(@, LAMBDA rec : rec.matches), !.rest = <<>>]
    IN SelectSeq([i \in DOMAIN sets |-> Left(sets[i])],
                 LAMBDA set : set.id < MinDset \/ set.recs # <<>>)
RecordsOf(sets) == FlattenSeq([i \in DOMAIN Kept(sets) |-> Kept(sets)[i].recs])
FirstOf(rec, ie) ==
    LET all == SelectSeq(rec.fields, LAMBDA f : f.ie = ie)
    IN IF all = <<>> \/ Head(all).value = Bad THEN 0 ELSE Head(all).value
Sum(recs, Of(_)) == FoldLeft(LAMBDA n, rec : n + Of(rec), 0, recs)
Counted(sets) ==
    LET all == RecordsOf(sets)
        flows == SelectSeq(all, LAMBDA rec : ~rec.opts)
        Bytes(rec) == FirstOf(rec, "octets") + IF rec.biflow THEN FirstOf(rec, "octets reverse") ELSE 0
        Pkts(rec) == FirstOf(rec, "packets") + IF rec.biflow THEN FirstOf(rec, "packets reverse") ELSE 0
    IN [data |-> Len(flows), opts |-> Len(all) - Len(flows), bytes |-> Sum(flows, Bytes), pkts |-> Sum(flows, Pkts)]

OutputsProcess ==
    /\ chainPc = "outputs" /\ chainPc' = "get" /\ stats' = StatsUpdate(packet, stats)
    /\ exact' = [e \in DOMAIN exact |-> exact[e] + Counted(content)[e]]
    /\ \E now \in Times : violations' = [now |-> now, found |-> TimeCheck(packet, now)]
    /\ UNCHANGED <<anonMode, panKey, session, passed, content, packet>>

Destroy ==
    /\ chainPc = "get" /\ chainPc' = "end"
    /\ IF session = "none" THEN UNCHANGED <<session, passed>>
       ELSE session' = "closed" /\ passed' = passed \o <<"close", "garbage">>
    /\ UNCHANGED <<anonMode, panKey, content, packet, stats, exact, violations>>
End == chainPc \in {"end", "failed"} /\ UNCHANGED chainVars

Next ==
    AnonInit \/ DummyGet \/ OtherGet \/ FilterProcess \/ AnonProcess \/ OutputsProcess \/ Destroy \/ End
Spec == Init /\ [][Next]_chainVars

-----------------------------------------------------------------------------
(* The filter hands on the message that consists of the sets of templates    *)
(* and the records that match, in their order, and of nothing else: every    *)
(* position in the new message is right, lengths included, and no set is     *)
(* left without a record (filter.c: ipx_plugin_process).                     *)
FilterExact == chainPc = "anonymization" => packet = Layout(Kept(content))

(* Nothing but addresses is changed.  A truncated one has lost its second    *)
(* half and nothing else; two addresses that begin with the same bits, bytes *)
(* in IPv6, still do, and addresses of IPv4 that differ still do             *)
(* (anonymization.c, panonymizer.c).                                         *)
Agree(a, b, n) == \A i \in 1 .. n : a[i] = b[i]
AnonymityKeepsPrefixes ==
    chainPc = "outputs" =>
    LET plain == Layout(Kept(content))
        at == {i \in FieldsOf(plain) : IsAddress(plain.buf[i])}
        Old(i) == plain.buf[i].value
        New(i) == packet.buf[i].value
    IN  /\ [packet EXCEPT !.buf = <<>>] = [plain EXCEPT !.buf = <<>>]
        /\ \A i \in DOMAIN plain.buf \ at : packet.buf[i] = plain.buf[i]
        /\ \A i, j \in at : plain.buf[i].size = plain.buf[j].size =>
              \A n \in 0 .. Len(Old(i)) :
                  Agree(Old(i), Old(j), n) =>
                      Agree(New(i), New(j), IF plain.buf[i].size = 4 THEN n ELSE (n \div Byte) * Byte)
        /\ anonMode = "trunc" => \A i \in at : \A n \in DOMAIN New(i) :
              New(i)[n] = IF n > Len(New(i)) \div 2 THEN 0 ELSE Old(i)[n]
        /\ anonMode = "cryptopan" => \A i, j \in at :
              plain.buf[i].size = 4 /\ plain.buf[j].size = 4 /\ New(i) = New(j) => Old(i) = Old(j)

(* The numbers the output dummy prints are those of the records that match,  *)
(* both directions of a biflow once (dummy.c: stats_update).                 *)
StatsExact == stats = exact

(* A time is reported if and only if it is too far away, and so far as it is *)
(* printed to be, the right way (timecheck.c: timestamp_check).              *)
Seconds(spread) == spread.days * 86400 + spread.hours * 3600 + spread.minutes * 60 + spread.seconds
FarTimes(sets, now) ==
    LET times == {f.value \div 1000 : f \in UNION {{rec.fields[i] : i \in {j \in DOMAIN rec.fields :
                     rec.fields[j].ie = "time" /\ rec.fields[j].value # Bad}} : rec \in ToSet(RecordsOf(sets))}}
    IN {<<"past", now - t>> : t \in {t \in times : now - t > DevPast}}
       \cup {<<"future", t - now>> : t \in {t \in times : t - now > DevFuture}}
TimesReported ==
    violations # Unchecked =>
        {<<v[1], Seconds(v[2])>> : v \in violations.found} = FarTimes(content, violations.now)

(* The session of the input dummy opens before its first message and closes  *)
(* once, behind the last, and only then is it garbage (dummy.c).             *)
SessionOrdered ==
    LET own == SelectSeq(passed, LAMBDA type : type # "other")
        ends == chainPc = "end"
    IN  /\ session = "none" <=> own = <<>>
        /\ \A n \in DOMAIN own :
              own[n] = IF n = 1 THEN "open" ELSE IF ~ends \/ n < Len(own) - 1 THEN "ipfix"
                       ELSE IF n = Len(own) THEN "garbage" ELSE "close"

ChainExact == FilterExact /\ AnonymityKeepsPrefixes /\ StatsExact /\ TimesReported /\ SessionOrdered
=============================================================================
