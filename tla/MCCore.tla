-------------------------------- MODULE MCCore --------------------------------
(* Instances for TLC of the core's parts that are not the pipeline itself,   *)
(* the extensions of records, the ODID filter of an output, the start and    *)
(* end of the collector, and of the tools beside it, fdsdump and ipfixsend.  *)
(* A behaviour is one of one part, chosen at the beginning; the variables of *)
(* the others stay as they are.                                              *)
EXTENDS Naturals, Sequences, SequencesExt

CONSTANTS
    NInter, NOut, NExt, Sizes, Bits, RecDef, MaxRecs, MaxItems,  \* extensions
    Top, Empty, Bad, MaxTokens,                                  \* ODID filters
    NIn, NDest,                                                  \* start: inputs, outputs
    NoValue, Wide,                                               \* fdsdump: tables
    Worker1, Worker2, NoFile,                                    \* its threads
    Slots, FirstBlocks,                                          \* its hash table
    Endless, MaxLoops, RpWidth, SeqNumInc, UdpMax,               \* ipfixsend
    Refused, Unreadable                                          \* configurations

VARIABLES kind,
    items, address, handle, phase, running, recs, done, filled, wrong,
    expr, nodes, rc,
    step, todo, ctxs, ring, dst, multi, cnt, refs, perms, selected, early, inited, ended, asked,
    handed, released,
    view, tables, row, result, queue, topPc,
    flist, sorts, rest, reading, table, wstate, wpc, cancelled, started, told, runPc, merged,
    state, mainPc,
    blocks, listed,
    defined, query, given, flows, tabs, grouped, grpPc,
    input, mode, remains, ready, pos, storage, printed, lstPc,
    source, how, at, update, loop, rpPc, hdr, left, grp, wire, clock, halt,
    disk, pluginCache, loaded, unload, held, wanted, opened, stays, gets, changes, shown, mgrPc,
    file, directory, random, unread, model, configured, cfgPc

extVars == <<items, address, handle, phase, running, recs, done, filled, wrong>>
filterVars == <<expr, nodes, rc>>
startVars == <<step, todo, ctxs, ring, dst, multi, cnt, refs, perms, selected, early, inited, ended, asked,
    handed, released>>
mgrVars == <<disk, pluginCache, loaded, unload, held, wanted, opened, stays, gets, changes, shown, mgrPc>>
cfgVars == <<file, directory, random, unread, model, configured, cfgPc>>
coreVars == <<extVars, filterVars, startVars, mgrVars, cfgVars>>
topVars == <<view, tables, row, result, queue, topPc>>
aggVars == <<flist, sorts, rest, reading, table, wstate, wpc, cancelled, started, told, runPc,
             merged, state, mainPc>>
tabVars == <<blocks, listed>>
grpVars == <<defined, query, given, flows, tabs, grouped, grpPc>>
listVars == <<input, mode, remains, ready, pos, storage, printed, lstPc>>
replayVars == <<source, how, at, update, loop, rpPc, hdr, left, grp, wire, clock, halt>>
toolVars == <<topVars, aggVars, tabVars, grpVars, listVars, replayVars>>

Ext == INSTANCE Extensions WITH Ext <- 1 .. NExt
Odid == INSTANCE OdidFilter
Go == INSTANCE Startup WITH phase <- step, ctx <- ctxs, NOut <- NDest

\* Libraries of two types and names, one too old and one that is none.
Lib(type, name, info, version) ==
    [type |-> type, name |-> name, info |-> info, symbols |-> TRUE, version |-> version]
Libraries == {Lib("input", 2, TRUE, <<2, 3, 4>>), Lib("output", 2, TRUE, <<2, 3, 4>>), Lib("input", 1, TRUE, <<2, 3, 4>>),
              Lib("input", 2, TRUE, <<2, 4, 1>>), Lib("input", 2, TRUE, <<>>), Lib("other", 2, FALSE, <<2, 3, 4>>)}
Mgr == INSTANCE PluginMgr WITH Version <- <<2, 4, 0>>, Libs <- Libraries, NFiles <- 2, NRefs <- 2,
                MaxChanges <- 1, MaxGets <- 2

-----------------------------------------------------------------------------
\* Elements and aliases of fdsdump, and its short units.
AType(k, bits) == [kind |-> k, bits |-> bits]
FlowElements ==
    [src4 |-> AType("ipv4", 2), dst4 |-> AType("ipv4", 2), src6 |-> AType("ipv6", 3),
     start |-> AType("time", 64), bytes |-> AType("unsigned", 64)]
FlowAliases ==
    [ip |-> <<"src4", "dst4">>, ip4 |-> <<"dst4", "src4">>, srcip |-> <<"src4">>, dstip |-> <<"dst4">>,
     both |-> <<"src4", "src6">>, mixed |-> <<"src4", "bytes">>]
Millis == [s |-> 1, m |-> 3, h |-> 6]

\* Views of fdsdump: a value aggregated in one way and an order by it or by
\* the key, and sums with a second order.  What is not among them is ordered
\* first by the best of two values, where the threshold is too low.
One == {<<1>>, <<2>>, <<3>>}
Pair == {<<1, 1>>, <<1, 2>>, <<2, 1>>}
Agg(kinds) == [i \in DOMAIN kinds |-> [agg |-> kinds[i], inout |-> FALSE]]
Order(fields, dir) == [i \in DOMAIN fields |-> [f |-> fields[i], dir |-> dir[i]]]
View(kinds, order, k, v) == [aggs |-> Agg(kinds), order |-> order, k |-> k, v |-> v, keys |-> 1 .. 2]
Views ==
    {View(<<g>>, Order(<<1>>, <<d>>), k, One)
        : g \in {"sum", "min", "max"}, d \in {"asc", "desc"}, k \in {1, 2}}
    \cup {View(<<"sum">>, Order(<<0>>, <<d>>), 1, One) : d \in {"asc", "desc"}}
    \cup {View(<<"sum">>, <<>>, 1, {<<1>>})}
    \cup {View(<<"sum", "max">>, Order(<<1, 2>>, <<"desc", d>>), 1, Pair)
             : d \in {"asc", "desc"}}
    \cup {[View(<<"sum">>, Order(<<1>>, <<d>>), 1, {<<2>>, <<3>>}) EXCEPT !.keys = 1 .. 3]
             : d \in {"asc", "desc"}}
TopOf == INSTANCE TopK WITH Cases <- Views, IntWide <- 16, LenWide <- 8,
             Elements <- FlowElements, Sources <- FlowAliases, UnitMillis <- Millis

\* Files with flows, one that cannot be opened, one with a broken end.
AFile(n, opens, sound) == [flows |-> n, opens |-> opens, sound |-> sound]
Sound(n) == AFile(n, TRUE, TRUE)
FlowFiles == {<<Sound(2), Sound(1)>>, <<Sound(1), AFile(1, FALSE, TRUE), Sound(1)>>,
              <<Sound(1), AFile(1, TRUE, FALSE)>>}

\* Keys whose blocks and tags collide, before the table has grown and after.
AKey(tag, home, id) == [tag |-> tag, home |-> home, id |-> id]
AllKeys == {AKey(1, 0, 1), AKey(1, 0, 2), AKey(1, 2, 3), AKey(2, 1, 4), AKey(2, 3, 5),
            AKey(1, 3, 6)}
Thr == INSTANCE Aggregation WITH Worker <- <<Worker1, Worker2>>, FileLists <- FlowFiles,
                                     todo <- rest, Key <- AllKeys, NoTag <- Empty

\* Flows of one or both directions that lack elements, and views of all kinds
\* of keys and values, well defined or not.
AFlow(dirs, from, to, start, bytes) ==
    [dirs |-> dirs,
     el |-> [fwd |-> [src4 |-> from, dst4 |-> to, start |-> start, bytes |-> bytes],
             rev |-> [src4 |-> to, dst4 |-> from, start |-> NoValue, bytes |-> bytes]]]
GroupedFlows ==
    {AFlow({"fwd"}, 1, 2, 3, 13), AFlow({"fwd", "rev"}, 2, 1, 2, 14),
     AFlow({"rev"}, NoValue, 1, 1, 12), AFlow({"fwd"}, 1, 1, NoValue, NoValue)}
Def(func, dir, name) == [func |-> func, dir |-> dir, name |-> name, time |-> <<>>, len |-> <<>>]
Name(name) == Def("", "", name)
Window(name, time) == [Def("timewindow", "", name) EXCEPT !.time = time]
Subnet(name, n) == [Name(name) EXCEPT !.len = <<n>>]
ViewOf(keys, values) == [keys |-> keys, values |-> values, order |-> <<>>]
Bytes == Name("bytes")
Flowcount == Name("flows")
GroupQueries ==
    {ViewOf(<<Name("src4")>>, <<Bytes, Def("min", "", "bytes")>>),
     [ViewOf(<<Name("ip")>>, <<Def("sum", "in", "bytes"), Def("max", "out", "bytes"), Flowcount>>)
         EXCEPT !.order = <<[field |-> Flowcount, dir |-> "desc"], [field |-> Name("ip"), dir |-> ""]>>],
     ViewOf(<<Name("ip4"), Name("direction")>>, <<Flowcount>>),
     ViewOf(<<Window("start", <<2, "s">>), Subnet("dst4", 1)>>, <<Def("min", "", "bytes")>>),
     ViewOf(<<Subnet("ip4", 1)>>, <<Def("", "out", "bytes")>>),
     \* out of range
     ViewOf(<<Window("start", <<3, "m">>), Subnet("src4", -7)>>, <<Flowcount>>),
     \* a subnet of a field that is the same in both directions
     ViewOf(<<Subnet("src4", 1)>>, <<Def("", "in", "bytes")>>)}
    \cup {ViewOf(<<key>>, <<Flowcount>>) :
            key \in {Name("none"), Name("mixed"), Subnet("both", 1), Subnet("src4", 3),
                     Subnet("src4", NoValue), Window("bytes", <<1, "s">>), Window("start", <<0, "s">>),
                     Window("start", <<NoValue, "h">>), Window("start", <<>>), Def("sum", "", "src4")}}
    \cup {ViewOf(<<Name("src4")>>, <<value>>) :
            value \in {Name("none"), Name("start"), Def("sum", "", "start"), Def("avg", "", "bytes"),
                       Def("max", "", "src4"), Def("max", "", "start")}}
    \cup {[ViewOf(<<Subnet("src4", 1)>>, <<Bytes>>) EXCEPT !.order = <<[field |-> f, dir |-> d]>>] :
            f \in {Bytes, Subnet("src4", 1), Name("none")}, d \in {"asc", "up"}}
Groups == INSTANCE Grouping WITH Flows <- GroupedFlows, Queries <- GroupQueries, Threads <- 1 .. 2,
              asked <- defined, Wide <- 32, IntWide <- 16, LenWide <- 8,
              Elements <- FlowElements, Sources <- FlowAliases, UnitMillis <- Millis

\* Records with fields once, twice, in one direction only or not at all.
Vals(time, name, n) ==
    [time |-> time, name |-> name, count |-> n, small |-> n, flag |-> <<>>,
     id |-> [i \in DOMAIN name |-> IF Len(name[i]) = 1 THEN Append(name[i], 0) ELSE name[i]], mixed |-> <<>>]
NoVals == Vals(<<>>, <<>>, <<>>)
ARec(biflow, match, empty, fwd, rev) ==
    [biflow |-> biflow, match |-> match, empty |-> empty, has |-> [fwd |-> fwd, rev |-> rev]]
Both == {"fwd", "rev"}
ListedRecs ==
    {ARec(FALSE, {"fwd"}, {"fwd"}, NoVals, NoVals),
     ARec(TRUE, Both, {}, Vals(<<<<1, 2>>, <<3, 1>>>>, <<<<1>>, <<2>>>>, <<2, 5>>),
                          [Vals(<<<<2, 1>>>>, <<<<2>>>>, <<5>>) EXCEPT !.flag = <<TRUE, FALSE>>]),
     ARec(TRUE, Both, {"rev"}, [Vals(<<<<1, 1>>, <<1, 2>>>>, <<<<1, 1>>>>, <<9>>) EXCEPT !.flag = <<FALSE>>],
                               Vals(<<<<4, 1>>>>, <<<<2, 1>>, <<2, 0>>>>, <<0>>)),
     ARec(TRUE, {"rev"}, {"fwd"}, Vals(<<<<3, 1>>>>, <<>>, <<1>>),
                                  [Vals(<<<<2, 1>>, <<1, 1>>>>, <<<<2>>>>, <<-3, 7>>) EXCEPT !.flag = <<TRUE>>, !.count = <<7>>])}
ListFiles ==
    {<<[recs |-> <<a, b>>, opens |-> TRUE, sound |-> TRUE],
       [recs |-> <<c>>, opens |-> o, sound |-> s]>>
        : a \in ListedRecs, b \in ListedRecs, c \in ListedRecs, o \in BOOLEAN, s \in BOOLEAN}
Distinct(f) == f[1].recs[1] # f[1].recs[2] /\ f[2].recs[1] \notin {f[1].recs[1], f[1].recs[2]}
ByField(field, order) == [field |-> field, order |-> order]
Orders ==
    {<<ByField("time", "asc")>>, <<ByField("time", "")>>, <<ByField("name", "a"), ByField("count", "d")>>,
     <<ByField("small", "asc")>>, <<ByField("flag", "desc"), ByField("id", "asc")>>, <<ByField("flag", "asc"), ByField("small", "")>>,
     <<ByField("time", "up")>>, <<ByField("mixed", "asc")>>}
ListModes ==
    [autoignore : BOOLEAN, split : BOOLEAN, order : {<<>>}, limit : 0 .. 2]
    \cup [autoignore : BOOLEAN, split : {TRUE}, order : Orders, limit : 0 .. 2]
FieldTypes == [time |-> "datetime", name |-> "string", count |-> "uint", small |-> "int", flag |-> "bool", id |-> "ip",
               mixed |-> "none"]
List == INSTANCE FlowLister WITH FileLists <- {f \in ListFiles : Distinct(f)}, Modes <- ListModes,
                                 FieldType <- FieldTypes, IntTop <- 9

\* Files to replay: none, of one order or out of it, with numbers that wrap,
\* with datagrams that are too long, and cut in a header or in a body.
Pkt(exp, seq, len) == [exp |-> exp, seq |-> seq, len |-> len]
ReplayFile(pkts, cut) == [pkts |-> pkts, cut |-> cut]
ReplayFiles ==
    {ReplayFile(<<>>, "no"),
     ReplayFile(<<Pkt(5, 3, 1), Pkt(5, 4, 2), Pkt(8, 6, 1)>>, "no"),
     ReplayFile(<<Pkt(31, 30, 1), Pkt(30, 1, 2), Pkt(1, 0, 1)>>, "no"),
     ReplayFile(<<Pkt(3, 0, 3), Pkt(4, 2, 1)>>, "body"),
     ReplayFile(<<Pkt(3, 0, 1), Pkt(4, 2, 1)>>, "header")}
ReplayModes ==
    [preload : BOOLEAN, loops : {0, 1, 2, Endless}, realtime : BOOLEAN, type : {"UDP", "TCP"}]
Replays == INSTANCE Replay WITH RpFiles <- ReplayFiles, RpModes <- ReplayModes

\* The parts of the tools in a behaviour that is not theirs.
NoTop == INSTANCE TopK WITH Cases <- {[View(<<"sum">>, <<>>, 1, {<<1>>}) EXCEPT !.keys = {}]},
             IntWide <- 16, LenWide <- 8,
             Elements <- FlowElements, Sources <- FlowAliases, UnitMillis <- Millis
NoThr == INSTANCE Aggregation WITH Worker <- <<>>, FileLists <- {<<>>}, todo <- rest, Key <- {}, NoTag <- Empty
NoGroups == INSTANCE Grouping WITH Flows <- {}, Queries <- {ViewOf(<<Name("src4")>>, <<Bytes>>)}, Threads <- {1},
                asked <- defined, Wide <- 32, IntWide <- 16, LenWide <- 8,
                Elements <- FlowElements, Sources <- FlowAliases, UnitMillis <- Millis
NoList == INSTANCE FlowLister WITH FileLists <- {<<>>},
              Modes <- {CHOOSE m \in ListModes : m.order = <<>>}, FieldType <- FieldTypes, IntTop <- 9
NoReplay == INSTANCE Replay WITH RpFiles <- {ReplayFile(<<>>, "no")},
                RpModes <- {CHOOSE m \in ReplayModes : m.loops = 0 /\ ~m.preload}
NoMgr == INSTANCE PluginMgr WITH
             Version <- <<2, 4, 0>>, Libs <- {Lib("other", 2, FALSE, <<2, 3, 4>>)},
             NFiles <- 2, NRefs <- 2, MaxChanges <- 1, MaxGets <- 2

-----------------------------------------------------------------------------
\* Documents: of every plugin one that is good, and its variations: an element
\* less, one twice, one with another value, two that have changed places.
Txt(e, w) == [e |-> e, word |-> w, num |-> {}, sub |-> <<>>]
Nm(e, n) == [e |-> e, word |-> "number", num |-> {n}, sub |-> <<>>]
Nd(e, s) == [e |-> e, word |-> "", num |-> {}, sub |-> s]
Yes(e) == Txt(e, "true")
ConfigTokens ==
    [w \in {"a:b", "ns:dummy", "ns:", "2.0", "2.", "2.0.1", "dst,?src", "?", "long", "key key"} |->
       CASE w = "a:b" -> <<"a", ":", "b">> [] w = "ns:dummy" -> <<"ns", ":", "dummy">> [] w = "ns:" -> <<"ns", ":">>
         [] w = "2.0" -> <<"n", ".", "n">> [] w = "2." -> <<"n", ".">> [] w = "2.0.1" -> <<"n", ".", "n", ".", "n">>
         [] w = "dst,?src" -> <<"dst", ",", " ", "?", "src">> [] w = "?" -> <<"?">>
         [] w = "long" -> <<"a", "b", "c", "d">> [] w = "key key" -> <<"k", "e", "y">>]
JsonDoc ==
    <<Txt("tcpFlags", "raw"), Yes("splitBiflow"),
      Nd("outputs",
         <<Nd("print", <<Txt("name", "p")>>),
           Nd("server", <<Txt("name", "s"), Nm("port", 9), Yes("blocking")>>),
           Nd("send", <<Txt("name", "t"), Txt("ip", "ip1"), Nm("port", 9), Txt("protocol", "tcp"), Yes("blocking")>>),
           Nd("file", <<Txt("name", "f"), Txt("path", "dir"), Txt("prefix", ""), Nm("timeWindow", 60), Yes("timeAlignment")>>)>>)>>
KafkaNode(n) == Nd("kafka", <<Txt("name", n), Txt("brokers", "ip1"), Txt("topic", "t"), Txt("brokerVersion", "2.0"),
                           Nd("property", <<Txt("key", "k"), Txt("value", "v")>>), Nd("property", <<Txt("key", "l"), Txt("value", "w")>>)>>)
SyslogNode(n) == Nd("syslog", <<Txt("name", n), Txt("program", "prog"), Nd("priority", <<Nm("facility", 1), Nm("severity", 1)>>),
                     Nd("transport", <<Nd("tcp", <<Txt("hostname", "ip1"), Nm("port", 9), Yes("blocking")>>)>>)>>)
JsonKafkaDoc == <<Nd("outputs", <<KafkaNode("k"), Nd("kafka", <<Txt("name", "l"), Txt("brokers", "ip2"), Txt("topic", "t")>>)>>)>>
JsonMoreDoc == <<Nd("outputs", <<KafkaNode("k"), SyslogNode("s"),
     Nd("syslog", <<Txt("name", "s2"), Nd("transport", <<Nd("udp", <<Txt("hostname", "ip1"), Nm("port", 9)>>)>>)>>)>>)>>
Ifc(spec) == <<Txt("uniRecFormat", "dst,?src"), Nd("trapIfcSpec", <<spec>>)>>
UnirecDocs ==
    {Ifc(Nd("tcp", <<Nm("port", 9)>>)) \o <<Nd("trapIfcCommon", <<Txt("timeout", "wait"), Nm("autoflush", 9)>>)>>,
     Ifc(Nd("tls", <<Nm("port", 9), Nm("maxClients", 9), Txt("keyFile", "f"), Txt("certFile", "g"), Txt("caFile", "h")>>)),
     Ifc(Nd("unix", <<Txt("name", "sock")>>)), Ifc(Nd("file", <<Txt("name", "f"), Txt("mode", "append"), Nm("time", 9)>>))}
ForwarderDoc ==
    <<Txt("mode", "all"), Txt("protocol", "tcp"), Nm("premadeConnections", 9),
      Nd("hosts", <<Nd("host", <<Txt("address", "ip1"), Nm("port", 9)>>), Nd("host", <<Txt("name", "b"), Txt("address", "ip2"), Nm("port", 9)>>)>>)>>
ClickHouseDoc ==
    <<Nd("connection", <<Nd("endpoints", <<Nd("endpoint", <<Txt("host", "ip1"), Nm("port", 9)>>), Nd("endpoint", <<Txt("host", "ip2")>>)>>),
                         Txt("user", "u"), Txt("password", "p"), Txt("database", "d"), Txt("table", "t")>>),
      Nm("blocks", 9), Nd("columns", <<Nd("column", <<Txt("name", "bytes")>>), Nd("column", <<Txt("name", "c"), Txt("source", "odid"), Yes("nullable")>>),
                                       Nd("column", <<Txt("name", "alias")>>)>>)>>
LnfDoc == <<Txt("storagePath", "dir"), Yes("compress"), Nd("dumpInterval", <<Nm("timeWindow", 60), Yes("align")>>),
            Nd("index", <<Yes("enable"), Nm("estimatedItemCount", 9), Nm("falsePositiveProbability", 9)>>)>>
FdsDoc == <<Txt("storagePath", "dir"), Txt("compression", "lz4"), Nd("dumpInterval", <<Nm("timeWindow", 60)>>),
            Nd("outputSelection", <<Txt("element", "bytes"), Txt("element", "packets")>>)>>
IpfixDoc == <<Txt("filename", "f"), Nm("windowSize", 60), Yes("useLocalTime")>>
UdpDoc == <<Nm("localPort", 9), Txt("localIPAddress", "ip1"), Txt("localIPAddress", ""), Txt("localIPAddress", "ip2"),
            Nm("connectionTimeout", 60), Nm("templateLifeTime", 60)>>
PluginDocs(type, name) ==
    CASE type = "output" ->
           (CASE name = "json" -> {JsonDoc, JsonMoreDoc} [] name = "json-kafka" -> {JsonKafkaDoc} [] name = "unirec" -> UnirecDocs
              [] name = "forwarder" -> {ForwarderDoc} [] name = "clickhouse" -> {ClickHouseDoc} [] name = "lnfstore" -> {LnfDoc}
              [] name = "fds" -> {FdsDoc} [] name = "ipfix" -> {IpfixDoc} [] name = "dummy" -> {<<Nm("delay", 1500000), Yes("stats")>>}
              [] name = "timecheck" -> {<<Nm("devPast", 60), Nm("devFuture", 60)>>} [] name = "viewer" -> {<<>>}
              [] name = "overview" -> {<<Yes("skipOptionsTemplates")>>})
      [] type = "input" ->
           (CASE name = "udp" -> {UdpDoc} [] name = "tcp" -> {<<Nm("localPort", 9), Txt("localIPAddress", "ip1")>>}
              [] name = "ipfix" -> {<<Txt("path", "f"), Nm("bufferSize", 131072)>>} [] name = "fds" -> {<<Txt("path", "f"), Nm("msgSize", 512), Yes("asyncIO")>>}
              [] name = "dummy" -> {<<Nm("odid", 9), Nm("delay", 1500000)>>})
      [] type = "intermediate" ->
           (CASE name = "filter" -> {<<Txt("expr", "e")>>} [] name = "anonymization" -> {<<Txt("type", "cryptopan"), Txt("key", "long")>>})
PluginNames ==
    [output |-> {"json", "json-kafka", "unirec", "forwarder", "clickhouse", "lnfstore", "fds", "ipfix", "dummy", "timecheck", "viewer", "overview"},
     input |-> {"udp", "tcp", "ipfix", "fds", "dummy"}, intermediate |-> {"filter", "anonymization"}]

WordsTried == {"", "a:b", "ip1", "2.", "?", "number", "long", "key key", "false", "wait", "unix", "p", "truncation", "b c", "packets", "local", "raw"}
Others(item) ==
    IF item.num # {} THEN {[item EXCEPT !.num = {n}] : n \in {0, 1, 8, 65535, 65536, 2000001}} \cup {Txt(item.e, "")}
    ELSE IF item.sub # <<>> THEN {Txt(item.e, "")}
    ELSE {[item EXCEPT !.word = w] : w \in WordsTried \ {"number"}} \cup {Nm(item.e, 5)}
RECURSIVE Varied(_)
Varied(ctx) ==
    {RemoveAt(ctx, i) : i \in DOMAIN ctx}
    \cup {InsertAt(ctx, i, ctx[j]) : i \in DOMAIN ctx, j \in DOMAIN ctx}
    \cup UNION {{ReplaceAt(ctx, i, o) : o \in Others(ctx[i])} : i \in DOMAIN ctx}
    \cup UNION {{ReplaceAt(ctx, i, [ctx[i] EXCEPT !.sub = s]) : s \in Varied(ctx[i].sub)} : i \in DOMAIN ctx}
    \cup {Append(ctx, Txt("other", "x"))}

Instance(type, name, plugin, params) == Nd(type, <<Txt("name", name), Txt("plugin", plugin), Nd("params", params)>>)
FileOf(ins, inters, outs) == <<Nd("inputPlugins", ins), Nd("intermediatePlugins", inters), Nd("outputPlugins", outs)>>
In1 == Instance("input", "i", "ns:dummy", <<Nm("delay", 1)>>)
Out1 == Instance("output", "o", "dummy", <<Nm("delay", 1)>>)
FileWith(type, plugin, doc) ==
    CASE type = "output" -> FileOf(<<In1>>, <<>>, <<Instance("output", "x", plugin, doc), Out1>>)
      [] type = "input" -> FileOf(<<Instance("input", "x", plugin, doc), In1>>, <<>>, <<Out1>>)
      [] type = "intermediate" -> FileOf(<<In1>>, <<Instance("intermediate", "x", plugin, doc)>>, <<Out1>>)
\* The file itself is varied in its instances.
WholeFile ==
    FileOf(<<In1, Nd("input", <<Txt("name", "j"), Txt("plugin", "dummy"), Txt("verbosity", "debug"), Nd("params", <<Nm("delay", 1)>>)>>)>>,
           <<Instance("intermediate", "i", "filter", <<Txt("expr", "e")>>)>>,
           <<Out1, Nd("output", <<Txt("name", "p"), Txt("plugin", "dummy"), Txt("odidOnly", "1"), Nd("params", <<Nm("delay", 1)>>)>>)>>)
\* One of two that exclude each other is all there may be.
Excluding ==
    {FileWith("output", "unirec", <<Txt("uniRecFormat", "dst,?src"),
         Nd("trapIfcSpec", <<Nd("unix", <<Txt("name", "sock")>>), Nd("file", <<Txt("name", "f")>>)>>)>>),
     FileWith("output", "json", <<Nd("outputs", <<Nd("syslog", <<Txt("name", "s"),
         Nd("transport", <<Nd("udp", <<Txt("hostname", "ip1"), Nm("port", 9)>>),
                           Nd("tcp", <<Txt("hostname", "ip2"), Nm("port", 9), Yes("blocking")>>)>>)>>)>>)>>),
     FileOf(<<In1>>, <<>>, <<Nd("output", <<Txt("name", "p"), Txt("plugin", "dummy"), Txt("odidOnly", "1"),
                                            Txt("odidExcept", "1"), Nd("params", <<Nm("delay", 1)>>)>>)>>)}
VariedFiles ==
    Varied(WholeFile) \cup Excluding \cup
    UNION {UNION {UNION {{FileWith(t, p, d) : d \in Varied(doc) \cup {doc}} : doc \in PluginDocs(t, p)} : p \in PluginNames[t]}
             : t \in {"input", "intermediate", "output"}}
Config == INSTANCE CollectorConfig WITH
    Files <- VariedFiles \cup {Unreadable}, Directories <- {"dir"}, Expressions <- {"1", "ip1"},
    Tokens <- ConfigTokens, Addresses <- {"ip1", "ip2"}, Elements <- {"bytes", "packets"}, Aliases <- {"alias"},
    NonAscii <- {"b c"}, U32Max <- 2000000, KeyLen <- 3, AppNameMax <- 3
NoConfig == INSTANCE CollectorConfig WITH
    Files <- {Unreadable}, Directories <- {}, Expressions <- {}, Tokens <- ConfigTokens, Addresses <- {},
    Elements <- {}, Aliases <- {}, NonAscii <- {}, U32Max <- 2000000, KeyLen <- 3, AppNameMax <- 3

-----------------------------------------------------------------------------
Init ==
    /\ kind \in {"extensions", "filter", "startup", "top", "threads", "table", "groups", "list",
                "replay", "plugins", "config"}
    /\ Ext!Init /\ Odid!Init /\ Go!Init
    /\ IF kind = "groups" THEN Groups!Init ELSE NoGroups!Init
    /\ IF kind = "top" THEN TopOf!Init ELSE NoTop!Init
    /\ IF kind = "threads" THEN Thr!Init ELSE NoThr!Init
    /\ Thr!TableInit
    /\ IF kind = "list" THEN List!Init ELSE NoList!Init
    /\ IF kind = "replay" THEN Replays!Init ELSE NoReplay!Init
    /\ IF kind = "plugins" THEN Mgr!Init ELSE NoMgr!Init
    /\ IF kind = "config" THEN Config!Init ELSE NoConfig!Init /\ random

Next ==
    /\ UNCHANGED kind
    /\ \/ kind = "extensions" /\ Ext!Next /\ UNCHANGED <<filterVars, startVars, mgrVars, cfgVars, toolVars>>
       \/ kind = "filter" /\ Odid!Next /\ UNCHANGED <<extVars, startVars, mgrVars, cfgVars, toolVars>>
       \/ kind = "startup" /\ Go!Next /\ UNCHANGED <<extVars, filterVars, mgrVars, cfgVars, toolVars>>
       \/ kind = "plugins" /\ Mgr!Next /\ UNCHANGED <<extVars, filterVars, startVars, cfgVars, toolVars>>
       \/ kind = "config" /\ Config!Next /\ UNCHANGED <<extVars, filterVars, startVars, mgrVars, toolVars>>
       \/ kind = "top" /\ TopOf!Next
          /\ UNCHANGED <<coreVars, aggVars, tabVars, grpVars, listVars, replayVars>>
       \/ kind = "threads" /\ Thr!Next
          /\ UNCHANGED <<coreVars, topVars, tabVars, grpVars, listVars, replayVars>>
       \/ kind = "table" /\ Thr!TableNext
          /\ UNCHANGED <<coreVars, topVars, aggVars, grpVars, listVars, replayVars>>
       \/ kind = "groups" /\ Groups!Next
          /\ UNCHANGED <<coreVars, topVars, aggVars, tabVars, listVars, replayVars>>
       \/ kind = "list" /\ List!Next
          /\ UNCHANGED <<coreVars, topVars, aggVars, tabVars, grpVars, replayVars>>
       \/ kind = "replay" /\ Replays!Next
          /\ UNCHANGED <<coreVars, topVars, aggVars, tabVars, grpVars, listVars>>

Spec == Init /\ [][Next]_<<kind, coreVars, toolVars>>

-----------------------------------------------------------------------------
(* The properties of the parts; each speaks of its own variables only.        *)
ExtensionsWhole == Ext!ExtensionsWhole
FiltersExact == Odid!FiltersExact
OrderlyEnd ==
    /\ Go!NoUseAfterDestroy /\ Go!NothingUnread /\ Go!EndsInOrder /\ Go!DestroyedOnce
    /\ Mgr!PluginsStay /\ Mgr!ListsWhatIsLoaded

(* fdsdump: what its threads aggregate has each flow exactly once; the       *)
(* tables are sets of keys, merged to one grouping of all the flows, of       *)
(* which the first K are printed.                                            *)
AggregationExact == Thr!AggregationExact /\ Thr!TableIsSet /\ Groups!GroupingExact /\ TopOf!TopIsExact

(* Configurations: the collector starts with all of its file or not at all;  *)
(* what the plugins accept is what they can work with, whatever the order of  *)
(* its elements and whether defaults are written down or left out.            *)
ConfigurationHolds ==
    /\ Config!StartsWhole /\ Config!AcceptedIsUsable
    /\ Config!OrderIsIrrelevant /\ Config!DefaultsAsDocumented

(* fdsdump, listing: the flows that are selected, in the order asked for.    *)
(* ipfixsend: the messages of a file, as often as asked for.                  *)
OutputExact == List!ListIsExact /\ Replays!ReplayIsExact
=============================================================================
