------------------------------ MODULE MCOutputs ------------------------------
(* Instances of the outputs for TLC, and of the small plugins in a chain     *)
(* with an output at its end.  A behaviour is one of one output or chain,    *)
(* chosen at the beginning; the variables of the others stay as they are.    *)
(* The forwarder has two instances: two ODIDs and a host, two hosts and one. *)
EXTENDS Integers, Sequences, SequencesExt

CONSTANTS
    Block, Inserter, Threshold, MaxRows, Null,      \* ClickHouse
    SetMax, ResendPkts, MaxSnap,                    \* forwarder
    Host, Premade, MaxFuture,                       \* its connector
    Exporter, None, MaxIpfix, MaxVersion,           \* IPFIX files
    SesAddress, SnapAddress, MaxLives, MaxDefs,     \* FDS files
    Size, MaxRecords, MaxFd, MaxWindows,            \* JSON
    LnfSize, Day, LnfStart, LnfEnd, LnfTop, FirstEstimate, NoName,       \* LNF files
    UrInstance, Bad, NoRecord,                      \* UniRec
    MaxLogs, QueueMax, MaxProduced, MaxTexts,       \* syslog, Kafka, texts in JSON
    Byte, DevPast, DevFuture, MaxMessages           \* the small plugins

VARIABLES kind,
    nonblocking, cur, avail, filled, rows, ins, made, stored, pending, stopping, late, report, chPc,
    toAll, tcp, snap, given, work, rr, link, queue, senders, peer, fwdPc,
    asked, futures, newRequests, requests, tasks, untried, conPc,
    preserve, windowed, ipxFile, ctxs, reader, versions, closed, messages, refused, forgotten,
    unreadable, ipxPc,
    selecting, fdsOpen, params, contexts, faithful, live, lives, defs, reused,
    blocking, json, fileLock, fileOpen, fileUsed, window, newClients, clients, acceptor, fds,
    sender, streams, received, cutRecord,
    align, indexed, autosize, now, windowStart, lnfFile, filter, lnfRec, written, content,
    uncovered, created, overwritten, last, lnfPc,
    registry, instances, urConf, urState, urRec, sent,
    transport, logged, up, recent, buffer, wire, gone, counted, dropped,
    waits, produced, plugin, poller, outstanding, answered, deliveries, printed, served, error,
    refusals, told,
    kafkaCopy, format, jsonBuffer, handed, flushed, jsonMsg,
    anonMode, panKey, chainPc, session, passed, entire, packet, stats, exact, violations

chVars == <<nonblocking, cur, avail, filled, rows, ins, made, stored, pending, stopping, late,
            report, chPc>>
fwdVars == <<toAll, tcp, snap, given, work, rr, link, queue, senders, peer, fwdPc>>
conVars == <<asked, futures, newRequests, requests, tasks, untried, conPc>>
ipxVars == <<preserve, windowed, ipxFile, ctxs, reader, versions, closed, messages, refused,
             forgotten, unreadable, ipxPc>>
fdsVars == <<selecting, fdsOpen, params, contexts, faithful, live, lives, defs, reused>>
jsonVars == <<blocking, json, fileLock, fileOpen, fileUsed, window, newClients, clients, acceptor,
              fds, sender, streams, received, cutRecord>>
lnfVars == <<align, indexed, autosize, now, windowStart, lnfFile, filter, lnfRec, written, content,
             uncovered, created, overwritten, last, lnfPc>>
urVars == <<registry, instances, urConf, urState, urRec, sent>>
logVars == <<transport, logged, up, recent, buffer, wire, gone, counted, dropped>>
kafkaVars == <<waits, produced, plugin, poller, outstanding, answered, deliveries, printed, served,
               error, refusals, told>>
textVars == <<kafkaCopy, format, jsonBuffer, handed, flushed, jsonMsg>>
chainVars == <<anonMode, panKey, chainPc, session, passed, entire, packet, stats, exact, violations>>

Ch == INSTANCE ClickHouse
Fwd == INSTANCE Forwarder WITH Hdr <- 1, NHosts <- 1, Odids <- {1, 2}, MaxMsgs <- 3
Two == INSTANCE Forwarder WITH Hdr <- 1, NHosts <- 2, Odids <- {1}, MaxMsgs <- 2
\* One host has two addresses.
Con == INSTANCE Connector WITH
    Addresses <- [h \in Host |-> IF h = CHOOSE first \in Host : TRUE THEN 2 ELSE 1]
Ipx == INSTANCE IpfixOutput WITH Hdr <- 1, Odids <- {1}
Fds == INSTANCE FdsOutput

\* One flow, a biflow whose forward fields name their source twice, and one of
\* which the forward direction cannot be converted.
Field(to, unit, value) == [to |-> to, unit |-> unit, value |-> value, fits |-> TRUE]
Flow(biflow, fwd, rev) == [biflow |-> biflow, dirs |-> <<fwd, rev>>]
LnfFlows == {
    Flow(FALSE, <<Field("src", "ip", 1), Field("dst", "ip", 2), Field("flags", "flags", 9)>>, <<>>),
    Flow(TRUE, <<Field("src", "ip", 3), Field("dst", "ip", 4), Field("src", "ip", 4), Field("start", "s", 2)>>,
         <<Field("src", "ip", 4), Field("dst", "ip", 3), Field("bytes", "uint", 99)>>),
    Flow(TRUE, <<[Field("src", "ip", 3) EXCEPT !.fits = FALSE]>>, <<Field("dst", "ip", 3)>>)}
Lnf == INSTANCE LnfStore

\* Numbers of two and of four bits, an array of the former, and other types.
Number(min, max, bits, array) ==
    [base |-> "int", min |-> min, max |-> max, bits |-> bits, array |-> array]
Opaque(base) == [base |-> base, min |-> 0, max |-> 0, bits |-> 0, array |-> FALSE]
Small == Number(0, 3, 2, FALSE)
Signed == Number(-2, 1, 2, FALSE)
OdidType == Number(0, 15, 4, FALSE)
Array == Number(0, 3, 2, TRUE)
Element(id, type, sem) == [id |-> id, type |-> type, sem |-> sem]
Octets == Element(1, "uint", "number")
Flags == Element(2, "uint", "flags")
Time == Element(3, "time", "none")
List == Element(9, "list", "none")
Ingress == Element(10, "uint", "identifier")
Line(name, type, source, ies) == [name |-> name, type |-> type, source |-> source, ies |-> ies]
\* Several elements of a field, lists and internal functions; a list and its head
\* with an element mapped twice; a direction beside its own element.
Mappings == {
    <<Line("X", Small, "ipfix", <<Octets>>), Line("X", Small, "ipfix", <<Flags>>),
      Line("T", Opaque("time"), "ipfix", <<Time>>), Line("D", Small, "dbf", <<>>),
      Line("O", OdidType, "odid", <<>>)>>,
    <<Line("X", Small, "ipfix", <<Octets>>), Line("V", Array, "ipfix", <<List, Octets>>),
      Line("V", Array, "ipfix", <<List, Flags>>), Line("B", OdidType, "lbf", <<>>),
      Line("E", Opaque("ip"), "exporter", <<>>)>>,
    <<Line("X", Signed, "ipfix", <<Flags>>), Line("Y", Small, "ipfix", <<Flags, Octets>>),
      Line("Z", Signed, "ipfix", <<Flags>>)>>,
    <<Line("X", Signed, "ipfix", <<Flags>>), Line("Z", Signed, "ipfix", <<Ingress>>),
      Line("D", Small, "dbf", <<>>)>>}
Must(name) == [name |-> name, opt |-> FALSE]
May(name) == [name |-> name, opt |-> TRUE]
Templates == {<<Must("X"), May("O"), May("D")>>, <<May("X"), May("V"), Must("B"), May("E")>>,
              <<May("X"), Must("T")>>, <<Must("X"), May("Z")>>}
Datum(ies, value) == [ies |-> ies, value |-> value]
UrFlows == {
    [biflow |-> FALSE, fwd |-> <<>>, rev |-> <<>>,
     whole |-> <<Datum(<<1>>, 9), Datum(<<2>>, 6), Datum(<<2>>, Bad), Datum(<<10>>, 3)>>],
    [biflow |-> TRUE,
     fwd |-> <<Datum(<<9, 1>>, <<1, 7>>), Datum(<<1>>, 1), Datum(<<9, 2>>, <<5>>)>>,
     rev |-> <<Datum(<<9, 2>>, <<2, Bad>>), Datum(<<9, 1>>, <<1>>), Datum(<<3>>, 5)>>,
     whole |-> <<Datum(<<9, 1>>, <<1, 7>>), Datum(<<1>>, 1), Datum(<<9, 2>>, <<2, Bad>>),
                 Datum(<<9, 1>>, <<1>>)>>]}
Contexts == {[odid |-> 6, exporter |-> 5], [odid |-> 1, exporter |-> Bad]}
Ur == INSTANCE UniRec

Log == INSTANCE SyslogOutput
Kaf == INSTANCE KafkaOutput
Datas(id, opt, biflow) == [id |-> id, opt |-> opt, biflow |-> biflow]
JsonMessages == {
    [tmplts |-> <<11, 12>>, recs |-> <<Datas(1, FALSE, TRUE), Datas(2, TRUE, FALSE)>>],
    [tmplts |-> <<>>, recs |-> <<Datas(3, FALSE, FALSE)>>],
    [tmplts |-> <<12>>, recs |-> <<>>]}
Jsn == INSTANCE JsonOutput

\* Messages with sets of templates, padding, unknown records, options, biflows,
\* and fields that occur twice, have a wrong size or no value.
Cell(ie, type, size, value) == [what |-> "field", ie |-> ie, type |-> type, size |-> size, value |-> value]
Addr4(bits) == Cell("address", "ip", 4, bits)
Addr6(bits) == Cell("address", "ip", 16, bits)
Count(ie, n) == Cell(ie, "uint", 4, n)
At(ms) == Cell("time", "time", 8, ms)
Rec(matches, opts, biflow, fields) == [matches |-> matches, opts |-> opts, biflow |-> biflow, fields |-> fields]
Set(id, recs, rest) == [id |-> id, recs |-> recs, rest |-> rest]
Unit(name) == [what |-> name]
TemplateSet == Set(2, <<>>, <<Unit("template"), Unit("template")>>)
Twice == Rec(TRUE, FALSE, FALSE, <<Addr4(<<0, 1, 1, 0>>), Count("octets", 5), Addr4(<<0, 1, 0, 0>>), Count("octets", 7)>>)
Unwanted == Rec(FALSE, FALSE, FALSE, <<Addr4(<<1, 1, 1, 0>>)>>)
TwoWay ==
    Rec(TRUE, FALSE, TRUE, <<Addr6(<<0, 1, 1, 0>>), Count("packets", 2), Count("octets reverse", Bad), Count("packets reverse", 3),
                             Addr6(<<0, 1, 0, 1>>), Cell("address", "ip", 5, <<1, 1>>), At(1000 * 90061)>>)
Timed ==
    Rec(TRUE, FALSE, FALSE, <<At(1000 * 200000 + 999), At(Bad), Count("octets reverse", 9), Count("packets", 1),
                              Addr4(<<1, 0, 1, 1>>), Addr4(<<0, 1, 1, 1>>)>>)
Scope == Rec(TRUE, TRUE, FALSE, <<Count("octets", 100)>>)
ChainContents ==
    {<<TemplateSet, Set(256, <<Twice, Unwanted, Twice>>, <<Unit("padding")>>), Set(257, <<Timed>>, <<>>)>>,
     <<Set(256, <<Unwanted>>, <<>>), Set(300, <<>>, <<Unit("unknown")>>),
       Set(258, <<Unwanted, TwoWay>>, <<Unit("padding")>>), TemplateSet, Set(259, <<Scope>>, <<>>)>>,
     <<Set(256, <<Unwanted, Unwanted>>, <<>>), Set(300, <<>>, <<Unit("unknown")>>)>>,
     <<Set(257, <<Timed, [Timed EXCEPT !.matches = FALSE], Twice>>, <<>>),
       Set(257, <<[TwoWay EXCEPT !.biflow = FALSE]>>, <<>>)>>}
Chain == INSTANCE RecordPlugins WITH
    Contents <- ChainContents, Keys <- {1, 2, 3}, Times <- {90000, 90100, 200000}, content <- entire,
    Pad <- LAMBDA key : [i \in 1 .. 6 |-> (i * key) % 2],
    Cipher <- LAMBDA key, bits :
        (FoldLeft(LAMBDA n, i : n + bits[i] * (i * i + key), key, [i \in DOMAIN bits |-> i]) \div 2) % 2

Init ==
    /\ kind \in {"clickhouse", "forwarder", "two hosts", "connector", "ipfix", "fds", "json", "lnf", "unirec",
                "syslog", "kafka", "texts", "chain"}
    /\ Ch!Init /\ (kind # "clickhouse" => nonblocking)
    /\ IF kind = "two hosts" THEN Two!Init ELSE Fwd!Init /\ (kind # "forwarder" => toAll /\ tcp)
    /\ Con!Init
    /\ Ipx!Init /\ (kind # "ipfix" => preserve /\ windowed)
    /\ Fds!Init /\ (kind # "fds" => selecting)
    /\ Jsn!Init /\ (kind # "json" => blocking /\ sender.up)
    /\ Lnf!Init /\ (kind # "lnf" => align /\ autosize)
    /\ Ur!Init
    /\ Log!Init /\ (kind # "syslog" => transport = "blocking" /\ up)
    /\ Kaf!Init /\ (kind # "kafka" => waits)
    /\ Jsn!StorageInit /\ (kind # "texts" => kafkaCopy /\ format.tmplt /\ format.noOpts /\ format.split)
    /\ Chain!Init /\ (kind # "chain" => anonMode = "trunc")

\* What the others keep.
most == <<chVars, fwdVars, conVars, ipxVars, fdsVars>>
new == <<logVars, kafkaVars, textVars, chainVars>>
vars == <<kind, most, jsonVars, lnfVars, urVars, new>>

Next ==
    /\ UNCHANGED kind
    /\ \/ kind = "clickhouse" /\ Ch!Next
          /\ UNCHANGED <<fwdVars, conVars, ipxVars, fdsVars, jsonVars, lnfVars, urVars, new>>
       \/ kind = "forwarder" /\ Fwd!Next
          /\ UNCHANGED <<chVars, conVars, ipxVars, fdsVars, jsonVars, lnfVars, urVars, new>>
       \/ kind = "two hosts" /\ Two!Next
          /\ UNCHANGED <<chVars, conVars, ipxVars, fdsVars, jsonVars, lnfVars, urVars, new>>
       \/ kind = "connector" /\ Con!Next
          /\ UNCHANGED <<chVars, fwdVars, ipxVars, fdsVars, jsonVars, lnfVars, urVars, new>>
       \/ kind = "ipfix" /\ Ipx!Next
          /\ UNCHANGED <<chVars, fwdVars, conVars, fdsVars, jsonVars, lnfVars, urVars, new>>
       \/ kind = "fds" /\ Fds!Next
          /\ UNCHANGED <<chVars, fwdVars, conVars, ipxVars, jsonVars, lnfVars, urVars, new>>
       \/ kind = "json" /\ Jsn!Next /\ UNCHANGED <<most, lnfVars, urVars, new>>
       \/ kind = "lnf" /\ Lnf!Next /\ UNCHANGED <<most, jsonVars, urVars, new>>
       \/ kind = "unirec" /\ Ur!Next /\ UNCHANGED <<most, jsonVars, lnfVars, new>>
       \/ kind = "syslog" /\ Log!Next
          /\ UNCHANGED <<most, jsonVars, lnfVars, urVars, kafkaVars, textVars, chainVars>>
       \/ kind = "kafka" /\ Kaf!Next
          /\ UNCHANGED <<most, jsonVars, lnfVars, urVars, logVars, textVars, chainVars>>
       \/ kind = "texts" /\ Jsn!StorageNext
          /\ UNCHANGED <<most, jsonVars, lnfVars, urVars, logVars, kafkaVars, chainVars>>
       \/ kind = "chain" /\ Chain!Next
          /\ UNCHANGED <<most, jsonVars, lnfVars, urVars, logVars, kafkaVars, textVars>>

Spec == Init /\ [][Next]_vars

-----------------------------------------------------------------------------
(* What is shared or handed on is in exactly one place: the blocks of the    *)
(* ClickHouse output, the transfers of a connection, the connector's         *)
(* requests, the server's clients, and the file a record is written to.      *)
OutputsOwn ==
    /\ Ch!BlocksOwned
    /\ IF kind = "two hosts" THEN Two!TransfersInOrder ELSE Fwd!TransfersInOrder
    /\ Con!RequestsExact /\ Fds!ContextsInStep /\ Jsn!ClientsOwned /\ Jsn!FileInUse

(* Whatever a host, a file or a client gets can be read: data behind its     *)
(* templates, with its session, and records whole, in order and of no other  *)
(* flow, across lost connections, new files, colliding sessions, partial     *)
(* writes, failed indexes and conversions, and instances that come and go.   *)
(* Behind a filter and an anonymization a message has the records that match, *)
(* and outputs that count or judge them do so exactly.                        *)
ReceiversDecode ==
    /\ IF kind = "two hosts" THEN Two!HostsDecode ELSE Fwd!HostsDecode
    /\ Ipx!IpfixFileDecodes /\ Fds!RecordsKeepContext /\ Jsn!StreamsWhole /\ Lnf!LnfFilesDecode
    /\ Ur!UniRecExact /\ Log!SyslogExact /\ Jsn!TextsExact /\ Chain!ChainExact

(* Nothing is forgotten: the ClickHouse output stores or reports every row,  *)
(* for every request of the forwarder a connection is under way, the filter  *)
(* of an LNF window has room for what the window before had, and the output  *)
(* to Kafka has a report for every record, or an error, and waits for none.  *)
NothingForgotten ==
    /\ Ch!RowsAccounted /\ Con!NoRequestStarves /\ Lnf!FilterFits
    /\ Kaf!KafkaAccounted /\ Kaf!WaitsForThread
=============================================================================
