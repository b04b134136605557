----------------------------- MODULE CollectorConfig -----------------------------
(* The collector from its configuration file to running instances: the file   *)
(* is read (controller_file.cpp), instances are added to the model one after  *)
(* another (model.cpp), the model is checked and the instances get their       *)
(* parameters, outputs first (configurator.cpp).  What is refused ends the     *)
(* start and leaves nothing.                                                   *)
(*                                                                            *)
(* First the configurations of the plugins: what each makes of the parameters *)
(* of an instance.  A document is a sequence of elements, an element a text   *)
(* or a document; words stand for texts.  A parser returns a configuration or *)
(* refuses the document.                                                      *)
EXTENDS Integers, Sequences, FiniteSets, SequencesExt, TLC

CONSTANTS
    Refused,
    Tokens,         \* words of several tokens, and what these are
    Addresses,      \* words that are addresses, and that resolve as hosts do
    Elements, Aliases,      \* words that name Information Elements, and aliases
    NonAscii,       \* words of which a character is none of RFC 5424
    U32Max,         \* stands for 2^32 - 1, which is no integer of TLC
    KeyLen, AppNameMax      \* lengths of a key and of a program, in tokens
U16Max == 65535

Text(e, w) == [e |-> e, word |-> w, num |-> {}, sub |-> <<>>]
Number(e, n) == [e |-> e, word |-> "number", num |-> {n}, sub |-> <<>>]
Node(e, s) == [e |-> e, word |-> "", num |-> {}, sub |-> s]
Flag(e, b) == Text(e, IF b THEN "true" ELSE "false")
TokensOf(w) == IF w \in DOMAIN Tokens THEN Tokens[w] ELSE IF w = "" THEN <<>> ELSE <<w>>

-----------------------------------------------------------------------------
(* libfds: a document conforms to the table of its elements.                  *)
Of(type, counts) == [type |-> type, counts |-> counts, args |-> <<>>]
One(type) == Of(type, {1})
Opt(type) == Of(type, {0, 1})
Some(type) == Of(type, 1 .. 9)
Multi(type) == Of(type, 0 .. 9)
Nested(args, of) == [of EXCEPT !.args = args]

RECURSIVE Conforms(_, _)
Conforms(args, ctx) ==
    /\ \A e \in DOMAIN args : Cardinality({i \in DOMAIN ctx : ctx[i].e = e}) \in args[e].counts
    /\ \A i \in DOMAIN ctx :
          /\ ctx[i].e \in DOMAIN args
          /\ LET type == args[ctx[i].e].type
             IN \/ type = "text" /\ ctx[i].sub = <<>>
                \/ type = "uint" /\ \E n \in ctx[i].num : n >= 0
                \/ type = "raw"
                \/ type = "bool" /\ ctx[i].word \in {"true", "false"}
                \/ type = "node" /\ ctx[i].word = "" /\ Conforms(args[ctx[i].e].args, ctx[i].sub)

\* What a parser keeps of an element: what came last, or the default.
Named(ctx, e) == SelectSeq(ctx, LAMBDA item : item.e = e)
Has(ctx, e) == Named(ctx, e) # <<>>
WordOf(ctx, e, default) == IF Has(ctx, e) THEN Last(Named(ctx, e)).word ELSE default
NumOf(ctx, e, default) == IF Has(ctx, e) THEN CHOOSE n \in Last(Named(ctx, e)).num : TRUE ELSE default
FlagOf(ctx, e, default) == IF Has(ctx, e) THEN WordOf(ctx, e, "") = "true" ELSE default
SubOf(ctx, e) == IF Has(ctx, e) THEN Last(Named(ctx, e)).sub ELSE <<>>
Words(ctx, e) == LET all == Named(ctx, e) IN [i \in DOMAIN all |-> all[i].word]
Each(Parse(_), ctx, e) == LET all == Named(ctx, e) IN [i \in DOMAIN all |-> Parse(all[i].sub)]
OneOf(ctx, e, words) == Has(ctx, e) => WordOf(ctx, e, "") \in words
Ensure(holds, cfg) == IF holds THEN cfg ELSE Refused
Parsed(args, ctx, cfg) == Ensure(Conforms(args, ctx), cfg)
Accepted(list) == \A i \in DOMAIN list : list[i] # Refused

-----------------------------------------------------------------------------
(* Inputs                                                                      *)
UdpArgs == [localPort |-> One("uint"), localIPAddress |-> Some("text"), templateLifeTime |-> Opt("uint"),
            optionsTemplateLifeTime |-> Opt("uint"), connectionTimeout |-> Opt("uint")]
ConnTimeoutMin == 10
UdpDefaults == [port |-> 4739, addrs |-> <<>>, timeout |-> 600, lifetime_data |-> 1800, lifetime_opts |-> 1800]
config_add_addr(words) ==
    LET given == SelectSeq(words, LAMBDA w : w # "")
    IN Ensure(ToSet(given) \subseteq Addresses, given)
Udp(ctx) == Parsed(UdpArgs, ctx,
    LET cfg == [port |-> NumOf(ctx, "localPort", UdpDefaults.port),
                addrs |-> config_add_addr(Words(ctx, "localIPAddress")),
                timeout |-> NumOf(ctx, "connectionTimeout", UdpDefaults.timeout),
                lifetime_data |-> NumOf(ctx, "templateLifeTime", UdpDefaults.lifetime_data),
                lifetime_opts |-> NumOf(ctx, "optionsTemplateLifeTime", UdpDefaults.lifetime_opts)]
    IN Ensure(/\ cfg.addrs # Refused /\ cfg.timeout >= ConnTimeoutMin
              /\ {cfg.port, cfg.timeout, cfg.lifetime_data, cfg.lifetime_opts} \subseteq 0 .. U16Max, cfg))

TcpArgs == [localPort |-> Opt("uint"), localIPAddress |-> Multi("text")]
Tcp(ctx) == Parsed(TcpArgs, ctx,
    LET cfg == [port |-> NumOf(ctx, "localPort", 4739), addrs |-> config_add_addr(Words(ctx, "localIPAddress"))]
    IN Ensure(cfg.addrs # Refused /\ cfg.port <= U16Max, cfg))

IpfixInArgs == [path |-> One("text"), bufferSize |-> Opt("uint")]
BSizeMin == 131072
IpfixIn(ctx) == Parsed(IpfixInArgs, ctx,
    LET cfg == [path |-> WordOf(ctx, "path", ""), bsize |-> NumOf(ctx, "bufferSize", 1048576)]
    IN Ensure(cfg.bsize >= BSizeMin, cfg))

FdsInArgs == [path |-> One("text"), msgSize |-> Opt("uint"), asyncIO |-> Opt("bool")]
FdsIn(ctx) == Parsed(FdsInArgs, ctx,
    LET cfg == [path |-> WordOf(ctx, "path", ""), msize |-> NumOf(ctx, "msgSize", 32768),
                async |-> FlagOf(ctx, "asyncIO", TRUE)]
    IN Ensure(cfg.msize \in 512 .. U16Max, cfg))

DummyInArgs == [odid |-> Opt("uint"), delay |-> One("uint")]
DummyIn(ctx) == Parsed(DummyInArgs, ctx,
    LET delay == NumOf(ctx, "delay", 0)
        cfg == [odid |-> NumOf(ctx, "odid", 0), sec |-> delay \div 1000000, nsec |-> (delay % 1000000) * 1000]
    IN Ensure(cfg.odid <= U32Max, cfg))

-----------------------------------------------------------------------------
(* Intermediate plugins                                                        *)
FilterArgs == [expr |-> One("text")]
Filter(ctx) == Parsed(FilterArgs, ctx, Ensure(WordOf(ctx, "expr", "") # "", [expr |-> WordOf(ctx, "expr", "")]))

\* A key that is to be random and cannot be had: the configuration is freed
\* and returned all the same.
AnonArgs == [type |-> One("text"), key |-> Opt("text")]
Anon(ctx, random) == Parsed(AnonArgs, ctx,
    LET key == TokensOf(WordOf(ctx, "key", ""))
        mode == WordOf(ctx, "type", "")
    IN Ensure(mode \in {"cryptopan", "truncation"} /\ (Has(ctx, "key") => Len(key) >= KeyLen),
              [mode |-> mode, key |-> IF Has(ctx, "key") THEN SubSeq(key, 1, KeyLen) ELSE <<>>,
               random |-> mode = "cryptopan" /\ ~Has(ctx, "key"),
               freed |-> mode = "cryptopan" /\ ~Has(ctx, "key") /\ ~random]))

-----------------------------------------------------------------------------
(* Output json: a list of outputs of several kinds.                            *)
PrintArgs == [name |-> One("text")]
ServerArgs == [name |-> One("text"), port |-> One("uint"), blocking |-> One("bool")]
SendArgs == [name |-> One("text"), ip |-> One("text"), port |-> One("uint"), protocol |-> One("text"), blocking |-> One("bool")]
FileArgs == [name |-> One("text"), path |-> One("text"), prefix |-> One("text"), timeWindow |-> One("uint"),
             timeAlignment |-> One("bool"), compression |-> Opt("text")]
PropertyArgs == [key |-> One("text"), value |-> One("text")]
KafkaArgs == [name |-> One("text"), brokers |-> One("text"), topic |-> One("text"), partition |-> Opt("text"),
              brokerVersion |-> Opt("text"), blocking |-> Opt("bool"), performanceTuning |-> Opt("bool"),
              property |-> Nested(PropertyArgs, Multi("node"))]
PriorityArgs == [facility |-> One("uint"), severity |-> One("uint")]
SyslogUdpArgs == [hostname |-> One("text"), port |-> One("uint")]
SyslogTcpArgs == [hostname |-> One("text"), port |-> One("uint"), blocking |-> One("bool")]
TransportArgs == [tcp |-> Nested(SyslogTcpArgs, Opt("node")), udp |-> Nested(SyslogUdpArgs, Opt("node"))]
SyslogArgs == [name |-> One("text"), hostname |-> Opt("text"), program |-> Opt("text"), procId |-> Opt("bool"),
               priority |-> Nested(PriorityArgs, Opt("node")), transport |-> Nested(TransportArgs, One("node"))]
OutputsArgs == [print |-> Nested(PrintArgs, Multi("node")), server |-> Nested(ServerArgs, Multi("node")),
                send |-> Nested(SendArgs, Multi("node")), file |-> Nested(FileArgs, Multi("node")),
                kafka |-> Nested(KafkaArgs, Multi("node")), syslog |-> Nested(SyslogArgs, Multi("node"))]
FormatArgs == [tcpFlags |-> Opt("text"), timestamp |-> Opt("text"), protocol |-> Opt("text"),
               ignoreUnknown |-> Opt("bool"), ignoreOptions |-> Opt("bool"), nonPrintableChar |-> Opt("bool"),
               numericNames |-> Opt("bool"), octetArrayAsUint |-> Opt("bool"), splitBiflow |-> Opt("bool"),
               detailedInfo |-> Opt("bool"), templateInfo |-> Opt("bool")]
JsonArgs == FormatArgs @@ [outputs |-> Nested(OutputsArgs, One("node"))]

Port(ctx) == NumOf(ctx, "port", 0)
Name(ctx) == WordOf(ctx, "name", "")
parse_print(ctx) == Ensure(Name(ctx) # "", [kind |-> "print", name |-> Name(ctx)])
parse_server(ctx) == Ensure(Port(ctx) \in 1 .. U16Max /\ Name(ctx) # "",
    [kind |-> "server", name |-> Name(ctx), port |-> Port(ctx), blocking |-> FlagOf(ctx, "blocking", FALSE)])
parse_send(ctx) ==
    Ensure(/\ Port(ctx) \in 1 .. U16Max /\ OneOf(ctx, "protocol", {"udp", "tcp"})
           /\ Name(ctx) # "" /\ WordOf(ctx, "ip", "") # "",
           [kind |-> "send", name |-> Name(ctx), addr |-> WordOf(ctx, "ip", ""), port |-> Port(ctx),
            proto |-> WordOf(ctx, "protocol", ""), blocking |-> FlagOf(ctx, "blocking", FALSE)])
parse_file(ctx) ==
    Ensure(/\ NumOf(ctx, "timeWindow", 300) <= U32Max /\ OneOf(ctx, "compression", {"none", "gzip"})
           /\ Name(ctx) # "" /\ WordOf(ctx, "path", "") # "",
           [kind |-> "file", name |-> Name(ctx), path |-> WordOf(ctx, "path", ""), prefix |-> WordOf(ctx, "prefix", ""),
            window |-> NumOf(ctx, "timeWindow", 300), align |-> FlagOf(ctx, "timeAlignment", TRUE),
            calg |-> WordOf(ctx, "compression", "none")])

parse_kafka_property(ctx) ==
    Ensure(WordOf(ctx, "key", "") # "", [key |-> WordOf(ctx, "key", ""), value |-> WordOf(ctx, "value", "")])
\* What was emplaced first is kept.
Emplaced(list) ==
    {list[i] : i \in {j \in DOMAIN list : \A k \in 1 .. j - 1 : list[k].key # list[j].key}}
parse_version(tokens) ==
    /\ Len(tokens) \in {3, 5, 7}
    /\ \A i \in DOMAIN tokens : tokens[i] = IF i % 2 = 1 THEN "n" ELSE "."
Unassigned == -1
Partition(ctx) ==
    IF WordOf(ctx, "partition", "unassigned") = "unassigned" THEN Unassigned
    ELSE IF \E n \in Last(Named(ctx, "partition")).num : n >= 0 THEN NumOf(ctx, "partition", 0)
    ELSE Refused
parse_kafka(ctx) ==
    LET properties == Each(parse_kafka_property, ctx, "property")
        version == WordOf(ctx, "brokerVersion", "")
    IN Ensure(/\ Accepted(properties) /\ Partition(ctx) # Refused /\ WordOf(ctx, "brokers", "") # ""
              /\ WordOf(ctx, "topic", "") # "" /\ (version # "" => parse_version(TokensOf(version))),
              [kind |-> "kafka", name |-> Name(ctx), brokers |-> WordOf(ctx, "brokers", ""),
               topic |-> WordOf(ctx, "topic", ""), partition |-> Partition(ctx), version |-> version,
               blocking |-> FlagOf(ctx, "blocking", FALSE), perf |-> FlagOf(ctx, "performanceTuning", TRUE),
               properties |-> Emplaced(properties)])

parse_syslog_udp(ctx) == Ensure(Port(ctx) \in 1 .. U16Max,
    [proto |-> "udp", host |-> WordOf(ctx, "hostname", ""), port |-> Port(ctx), blocking |-> FALSE])
parse_syslog_tcp(ctx) == Ensure(Port(ctx) \in 1 .. U16Max,
    [proto |-> "tcp", host |-> WordOf(ctx, "hostname", ""), port |-> Port(ctx), blocking |-> FlagOf(ctx, "blocking", FALSE)])
parse_syslog_transport(ctx) ==
    IF Len(ctx) # 1 THEN Refused
    ELSE IF ctx[1].e = "tcp" THEN parse_syslog_tcp(ctx[1].sub) ELSE parse_syslog_udp(ctx[1].sub)
FacilityMax == 23
SeverityMax == 7
parse_syslog_priority(ctx) ==
    Ensure(NumOf(ctx, "facility", 0) <= FacilityMax /\ NumOf(ctx, "severity", 0) <= SeverityMax,
           [facility |-> NumOf(ctx, "facility", 0), severity |-> NumOf(ctx, "severity", 0)])
is_syslog_ascii(w) == w \notin NonAscii
DefaultPriority == [facility |-> 16, severity |-> 6]
parse_syslog(ctx) ==
    LET priority == IF Has(ctx, "priority") THEN parse_syslog_priority(SubOf(ctx, "priority")) ELSE DefaultPriority
        transport == parse_syslog_transport(SubOf(ctx, "transport"))
        program == WordOf(ctx, "program", "")
    IN Ensure(/\ priority # Refused /\ transport # Refused /\ OneOf(ctx, "hostname", {"none", "local"})
              /\ is_syslog_ascii(program) /\ Len(TokensOf(program)) <= AppNameMax,
              [kind |-> "syslog", name |-> Name(ctx), hostname |-> WordOf(ctx, "hostname", "none"), program |-> program,
               proc_id |-> FlagOf(ctx, "procId", FALSE), priority |-> priority, transport |-> transport])

parse_outputs(ctx) ==
    Each(parse_print, ctx, "print") \o Each(parse_send, ctx, "send") \o Each(parse_server, ctx, "server")
    \o Each(parse_file, ctx, "file") \o Each(parse_kafka, ctx, "kafka") \o Each(parse_syslog, ctx, "syslog")
check_or(ctx, e, yes, no) == OneOf(ctx, e, {yes, no})
Formats(ctx) ==
    /\ check_or(ctx, "tcpFlags", "formatted", "raw") /\ check_or(ctx, "timestamp", "formatted", "unix")
    /\ check_or(ctx, "protocol", "formatted", "raw")
On == {"ignoreUnknown", "ignoreOptions", "nonPrintableChar", "octetArrayAsUint"}
Off == {"numericNames", "splitBiflow", "detailedInfo", "templateInfo"}
Format(ctx) ==
    [e \in {"tcpFlags", "timestamp", "protocol"} |-> WordOf(ctx, e, "formatted") = "formatted"]
    @@ [e \in On \cup Off |-> FlagOf(ctx, e, e \in On)]
check_validity(outputs) ==
    /\ outputs # <<>> /\ Cardinality({i \in DOMAIN outputs : outputs[i].kind = "print"}) <= 1
    /\ \A i, j \in DOMAIN outputs : outputs[i].name = outputs[j].name => i = j
Json(ctx) == Parsed(JsonArgs, ctx,
    LET outputs == parse_outputs(SubOf(ctx, "outputs"))
    IN Ensure(Formats(ctx) /\ Accepted(outputs) /\ check_validity(outputs), [format |-> Format(ctx), outputs |-> outputs]))

\* Output json-kafka: the same with outputs to Kafka alone.
KafkaOutputsArgs == [kafka |-> Nested(KafkaArgs, Multi("node"))]
JsonKafkaArgs == FormatArgs @@ [outputs |-> Nested(KafkaOutputsArgs, One("node"))]
JsonKafkaOutputs(ctx) == Each(parse_kafka, ctx, "kafka")
JsonKafka(ctx) == Parsed(JsonKafkaArgs, ctx,
    LET outputs == JsonKafkaOutputs(SubOf(ctx, "outputs"))
    IN Ensure(Formats(ctx) /\ Accepted(outputs) /\ check_validity(outputs), [format |-> Format(ctx), outputs |-> outputs]))

-----------------------------------------------------------------------------
(* Output unirec: the specification of an interface is a text of parts that   *)
(* colons separate; here a sequence of tokens.                                 *)
TlsFiles == <<"keyFile", "certFile", "caFile">>
UnirecTcpArgs == [port |-> One("uint"), maxClients |-> Opt("uint")]
UnirecTlsArgs == UnirecTcpArgs @@ [e \in ToSet(TlsFiles) |-> One("text")]
UnirecUnixArgs == [name |-> One("text"), maxClients |-> Opt("uint")]
UnirecFileArgs == [name |-> One("text"), mode |-> Opt("text"), time |-> Opt("uint"), size |-> Opt("uint")]
SpecArgs == [tcp |-> Nested(UnirecTcpArgs, Opt("node")), tls |-> Nested(UnirecTlsArgs, Opt("node")),
             unix |-> Nested(UnirecUnixArgs, Opt("node")), file |-> Nested(UnirecFileArgs, Opt("node"))]
CommonArgs == [timeout |-> Opt("text"), autoflush |-> Opt("uint"), buffer |-> Opt("bool")]
UnirecArgs == [uniRecFormat |-> One("text"), splitBiflow |-> Opt("bool"), mappingFile |-> Opt("text"),
               trapIfcCommon |-> Nested(CommonArgs, Opt("node")), trapIfcSpec |-> Nested(SpecArgs, One("node"))]

cfg_str_append(spec, tokens) == spec \o <<":">> \o tokens
Valued(name, n) == <<name, "=", ToString(n)>>
MaxClients(ctx) == Valued("max_clients", NumOf(ctx, "maxClients", 64))
MUT_Colonless(w) == w # ""
Colonless(w) == w # "" /\ ":" \notin ToSet(TokensOf(w))
cfg_parse_tcp(ctx) == Ensure(Port(ctx) <= U16Max,
    cfg_str_append(cfg_str_append(<<"t">>, <<ToString(Port(ctx))>>), MaxClients(ctx)))
cfg_parse_tls(ctx) ==
    LET files == [i \in DOMAIN TlsFiles |-> WordOf(ctx, TlsFiles[i], "")]
    IN Ensure(Port(ctx) <= U16Max /\ \A i \in DOMAIN files : Colonless(files[i]),
              cfg_str_append(FoldLeft(LAMBDA spec, w : cfg_str_append(spec, TokensOf(w)),
                                      cfg_str_append(<<"T">>, <<ToString(Port(ctx))>>), files), MaxClients(ctx)))
cfg_parse_unix(ctx) == Ensure(Colonless(Name(ctx)),
    cfg_str_append(cfg_str_append(<<"u">>, TokensOf(Name(ctx))), MaxClients(ctx)))
cfg_parse_file(ctx) ==
    LET mode == WordOf(ctx, "mode", "write")
        named == cfg_str_append(<<"f">>, TokensOf(Name(ctx)))
        opened == cfg_str_append(named, IF mode = "write" THEN <<"w">> ELSE <<"a">>)
        Split(spec, e) == IF NumOf(ctx, e, 0) = 0 THEN spec ELSE cfg_str_append(spec, Valued(e, NumOf(ctx, e, 0)))
    IN Ensure(mode \in {"append", "write"} /\ Colonless(Name(ctx)), Split(Split(opened, "time"), "size"))
cfg_parse_spec(ctx) ==
    IF Len(ctx) # 1 THEN Refused
    ELSE CASE ctx[1].e = "tcp" -> cfg_parse_tcp(ctx[1].sub) [] ctx[1].e = "tls" -> cfg_parse_tls(ctx[1].sub)
           [] ctx[1].e = "unix" -> cfg_parse_unix(ctx[1].sub) [] OTHER -> cfg_parse_file(ctx[1].sub)

\* A number of microseconds, or a word.
cfg_parse_common(ctx) ==
    LET timeout == WordOf(ctx, "timeout", "half_wait")
        given == IF timeout = "number" THEN Last(Named(ctx, "timeout")).num ELSE {}
    IN Ensure(timeout \in {"wait", "no_wait", "half_wait"} \/ \E n \in given : n > 0,
              [buffer |-> FlagOf(ctx, "buffer", TRUE), autoflush |-> NumOf(ctx, "autoflush", 500000),
               timeout |-> IF given = {} THEN timeout ELSE ToString(NumOf(ctx, "timeout", 0))])
cfg_add_ifc_common(spec, common) ==
    cfg_str_append(cfg_str_append(cfg_str_append(spec, <<"buffer", "=", IF common.buffer THEN "on" ELSE "off">>),
                                  <<"timeout", "=", common.timeout>>),
                   <<"autoflush", "=", IF common.autoflush = 0 THEN "off" ELSE ToString(common.autoflush)>>)
cfg_str_sanitize(tokens) == SelectSeq(tokens, LAMBDA t : t # " ")
cfg_ur_tmplt_sanitize(tokens) == SelectSeq(cfg_str_sanitize(tokens), LAMBDA t : t # "?")
Unirec(ctx) == Parsed(UnirecArgs, ctx,
    LET spec == cfg_parse_spec(SubOf(ctx, "trapIfcSpec"))
        common == cfg_parse_common(SubOf(ctx, "trapIfcCommon"))
        format == TokensOf(WordOf(ctx, "uniRecFormat", ""))
    IN Ensure(spec # Refused /\ common # Refused /\ cfg_ur_tmplt_sanitize(format) # <<>>,
              [spec |-> cfg_add_ifc_common(spec, common), unirec_fmt |-> cfg_ur_tmplt_sanitize(format),
               unirec_spec |-> cfg_str_sanitize(format), biflow_split |-> FlagOf(ctx, "splitBiflow", TRUE),
               mapping_file |-> WordOf(ctx, "mappingFile", "unirec-elements.txt")]))

-----------------------------------------------------------------------------
(* Outputs forwarder and clickhouse                                            *)
HostArgs == [name |-> Opt("text"), address |-> One("text"), port |-> One("uint")]
HostsArgs == [host |-> Nested(HostArgs, Some("node"))]
ForwarderArgs == [mode |-> One("text"), protocol |-> One("text"), templatesResendSecs |-> Opt("uint"),
                  templatesResendPkts |-> Opt("uint"), reconnectSecs |-> Opt("uint"),
                  premadeConnections |-> Opt("uint"), hosts |-> Nested(HostsArgs, One("node"))]
parse_host(ctx) ==
    LET address == WordOf(ctx, "address", "")
    IN Ensure(Port(ctx) <= U16Max,
              [name |-> IF Name(ctx) = "" THEN <<address, ":", ToString(Port(ctx))>> ELSE TokensOf(Name(ctx)),
               address |-> address, port |-> Port(ctx)])
host_exists(hosts, i) == \E j \in 1 .. i - 1 : hosts[j].address = hosts[i].address /\ hosts[j].port = hosts[i].port
can_resolve_host(host) == host.address \in Addresses
\* Numbers of 64 bits are stored in 32.
AsUnsigned(n) == n % (U32Max + 1)
Forwarder(ctx) == Parsed(ForwarderArgs, ctx,
    LET hosts == Each(parse_host, SubOf(ctx, "hosts"), "host")
    IN Ensure(/\ OneOf(ctx, "mode", {"roundrobin", "all"}) /\ OneOf(ctx, "protocol", {"tcp", "udp"})
              /\ Accepted(hosts) /\ \A i \in DOMAIN hosts : ~host_exists(hosts, i) /\ can_resolve_host(hosts[i]),
              [mode |-> WordOf(ctx, "mode", ""), protocol |-> WordOf(ctx, "protocol", ""), hosts |-> hosts,
               resend_secs |-> AsUnsigned(NumOf(ctx, "templatesResendSecs", 600)),
               resend_pkts |-> AsUnsigned(NumOf(ctx, "templatesResendPkts", 5000)),
               reconnect |-> AsUnsigned(NumOf(ctx, "reconnectSecs", 10)),
               premade |-> AsUnsigned(NumOf(ctx, "premadeConnections", 5))]))

ColumnArgs == [name |-> One("text"), source |-> Opt("text"), nullable |-> Opt("bool")]
ColumnsArgs == [column |-> Nested(ColumnArgs, Some("node"))]
EndpointArgs == [host |-> One("text"), port |-> Opt("uint")]
EndpointsArgs == [endpoint |-> Nested(EndpointArgs, Some("node"))]
ConnectionArgs == [endpoints |-> Nested(EndpointsArgs, One("node"))]
                  @@ [e \in {"user", "password", "database", "table"} |-> One("text")]
ClickHouseNumbers == [inserterThreads |-> 8, blocks |-> 64, blockInsertThreshold |-> 100000, blockInsertMaxDelaySecs |-> 10]
ClickHouseFlags == {"splitBiflow", "biflowEmptyAutoignore", "nonblocking"}
ClickHouseArgs == [e \in DOMAIN ClickHouseNumbers |-> Opt("uint")] @@ [e \in ClickHouseFlags |-> Opt("bool")]
                  @@ [connection |-> Nested(ConnectionArgs, One("node")), columns |-> Nested(ColumnsArgs, One("node"))]
Source(w) ==
    CASE w = "odid" -> <<"special", w>> [] w \in Aliases -> <<"alias", w>>
      [] w \in Elements -> <<"element", w>> [] OTHER -> Refused
parse_column(ctx) ==
    LET given == WordOf(ctx, "source", "")
        source == Source(IF given = "" THEN Name(ctx) ELSE given)
    IN Ensure(source # Refused, [name |-> Name(ctx), source |-> source, nullable |-> FlagOf(ctx, "nullable", FALSE)])
parse_endpoint(ctx) == Ensure(NumOf(ctx, "port", 9000) <= U16Max,
    [host |-> WordOf(ctx, "host", ""), port |-> NumOf(ctx, "port", 9000)])
ClickHouse(ctx) == Parsed(ClickHouseArgs, ctx,
    LET connection == SubOf(ctx, "connection")
        endpoints == Each(parse_endpoint, SubOf(connection, "endpoints"), "endpoint")
        columns == Each(parse_column, SubOf(ctx, "columns"), "column")
    IN Ensure(Accepted(endpoints) /\ Accepted(columns),
              [endpoints |-> endpoints, columns |-> columns,
               database |-> [e \in {"user", "password", "database", "table"} |-> WordOf(connection, e, "")]]
              @@ [e \in DOMAIN ClickHouseNumbers |-> NumOf(ctx, e, ClickHouseNumbers[e])]
              @@ [e \in ClickHouseFlags |-> FlagOf(ctx, e, TRUE)]))

-----------------------------------------------------------------------------
(* Outputs that write files: lnfstore, fds, ipfix                              *)
DumpArgs == [timeWindow |-> Opt("uint"), align |-> Opt("bool")]
IndexArgs == [enable |-> Opt("bool"), autosize |-> Opt("bool"), estimatedItemCount |-> Opt("uint"),
              falsePositiveProbability |-> Opt("uint")]
LnfArgs == [storagePath |-> One("text"), identificatorField |-> Opt("text"), compress |-> Opt("bool"),
            dumpInterval |-> Nested(DumpArgs, Opt("node")), index |-> Nested(IndexArgs, Opt("node"))]
Window(ctx) == [size |-> NumOf(ctx, "timeWindow", 300), align |-> FlagOf(ctx, "align", TRUE)]
PerMillion == 1000000       \* probabilities are given in parts of it
configuration_parse_idx(ctx) ==
    [en |-> FlagOf(ctx, "enable", FALSE), autosize |-> FlagOf(ctx, "autosize", TRUE),
     est_cnt |-> NumOf(ctx, "estimatedItemCount", 100000),
     fp_prob |-> NumOf(ctx, "falsePositiveProbability", PerMillion \div 100)]
configuration_validate(cfg) ==
    cfg.window.size > 0 /\ (cfg.index.en => cfg.index.est_cnt > 0 /\ cfg.index.fp_prob \in 1 .. PerMillion)
Lnf(ctx) == Parsed(LnfArgs, ctx,
    LET cfg == [path |-> WordOf(ctx, "storagePath", ""), ident |-> WordOf(ctx, "identificatorField", ""),
                compress |-> FlagOf(ctx, "compress", FALSE), window |-> Window(SubOf(ctx, "dumpInterval")),
                index |-> configuration_parse_idx(SubOf(ctx, "index"))]
    IN Ensure(cfg.window.size <= U32Max /\ configuration_validate(cfg), cfg))

SelectionArgs == [element |-> Some("text")]
FdsArgs == [storagePath |-> One("text"), compression |-> Opt("text"), dumpInterval |-> Nested(DumpArgs, Opt("node")),
            asyncIO |-> Opt("bool"), outputSelection |-> Nested(SelectionArgs, Opt("node"))]
Fds(ctx) == Parsed(FdsArgs, ctx,
    LET cfg == [path |-> WordOf(ctx, "storagePath", ""), calg |-> WordOf(ctx, "compression", "none"),
                async |-> FlagOf(ctx, "asyncIO", TRUE), window |-> Window(SubOf(ctx, "dumpInterval")),
                selection |-> Words(SubOf(ctx, "outputSelection"), "element"), used |-> Has(ctx, "outputSelection")]
    IN Ensure(/\ OneOf(ctx, "compression", {"none", "lz4", "zstd"}) /\ ToSet(cfg.selection) \subseteq Elements
              /\ cfg.path # "" /\ cfg.window.size \in 1 .. U32Max, cfg))

IpfixFlags == [useLocalTime |-> FALSE, alignWindows |-> TRUE, preserveOriginal |-> FALSE, rotateOnExportTime |-> FALSE]
IpfixArgs == [filename |-> One("text"), windowSize |-> Opt("uint")] @@ [e \in DOMAIN IpfixFlags |-> Opt("bool")]
Ipfix(ctx) == Parsed(IpfixArgs, ctx, Ensure(WordOf(ctx, "filename", "") # "",
    [filename |-> WordOf(ctx, "filename", ""), window |-> NumOf(ctx, "windowSize", 0)]
    @@ [e \in DOMAIN IpfixFlags |-> FlagOf(ctx, e, IpfixFlags[e])]))

(* Outputs dummy, timecheck, viewer, overview                                  *)
DummyOutArgs == [delay |-> One("uint"), stats |-> Opt("bool")]
DummyOut(ctx) == Parsed(DummyOutArgs, ctx,
    LET delay == NumOf(ctx, "delay", 0)
    IN [sec |-> delay \div 1000000, nsec |-> (delay % 1000000) * 1000, stats |-> FlagOf(ctx, "stats", FALSE)])
TimecheckArgs == [devPast |-> One("uint"), devFuture |-> Opt("uint")]
Timecheck(ctx) == Parsed(TimecheckArgs, ctx,
    Ensure(NumOf(ctx, "devPast", 0) # 0, [dev_past |-> NumOf(ctx, "devPast", 0), dev_future |-> NumOf(ctx, "devFuture", 0)]))
ViewerArgs == <<>>
Viewer(ctx) == Parsed(ViewerArgs, ctx, [none |-> TRUE])
OverviewArgs == [skipOptionsTemplates |-> Opt("bool")]
Overview(ctx) == Parsed(OverviewArgs, ctx, [skip |-> FlagOf(ctx, "skipOptionsTemplates", FALSE)])

-----------------------------------------------------------------------------
(* The collector.                                                             *)

CONSTANTS Files,        \* what the file may be: a document, or Unreadable
          Unreadable,
          Expressions,  \* the filters of ODIDs that can be parsed
          Directories   \* of Information Elements, those that can be loaded

VARIABLES
    file, directory,    \* the configuration file, the directory
    random,             \* whether random keys can be had
    unread,               \* instances of the file that are not in the model yet
    model,              \* of every type, the instances
    configured,            \* instances that have their configuration
    cfgPc               \* "read", "add", "check", "create", "init", "run", "refused"
cfgVars == <<file, directory, random, unread, model, configured, cfgPc>>

Types == <<"input", "inter", "output">>
InstanceArgs == [name |-> Opt("text"), plugin |-> Opt("text"), verbosity |-> Opt("text"), params |-> Opt("raw")]
OutputArgs == InstanceArgs @@ [odidExcept |-> Opt("text"), odidOnly |-> Opt("text")]
ListOf(e, args) == Nested(e :> Nested(args, Multi("node")), Opt("node"))
MainArgs == [inputPlugins |-> ListOf("input", InstanceArgs), intermediatePlugins |-> ListOf("intermediate", InstanceArgs),
             outputPlugins |-> ListOf("output", OutputArgs)]

EmptyModel == [t \in ToSet(Types) |-> <<>>]
Init ==
    /\ file \in Files /\ directory \in Directories \cup {""} /\ random \in BOOLEAN
    /\ unread = <<>> /\ model = EmptyModel /\ configured = <<>> /\ cfgPc = "read"
given == <<file, directory, random>>
Refuse ==
    /\ cfgPc' = "refused" /\ configured' = <<>> /\ model' = EmptyModel /\ unread' = <<>> /\ UNCHANGED given

\* Instances in the order of the document.
TypeOf(list) ==
    CASE list = "inputPlugins" -> "input" [] list = "intermediatePlugins" -> "inter" [] list = "outputPlugins" -> "output"
Listed(doc) ==
    LET OfList(list) == [i \in DOMAIN list.sub |-> [type |-> TypeOf(list.e), ctx |-> list.sub[i].sub]]
    IN FlattenSeq([l \in DOMAIN doc |-> OfList(doc[l])])
parse_file_start ==
    /\ cfgPc = "read"
    /\ IF file # Unreadable /\ Conforms(MainArgs, file)
       THEN unread' = Listed(file) /\ cfgPc' = "add" /\ UNCHANGED <<given, model, configured>>
       ELSE Refuse

\* A name without what comes before its first colon, which may be all of it.
Unprefixed(tokens) ==
    IF ":" \in ToSet(tokens) THEN SubSeq(tokens, SelectInSeq(tokens, LAMBDA t : t = ":") + 1, Len(tokens)) ELSE tokens
Verbosities == {"", "none", "error", "warning", "info", "debug", "default"}
FilterOf(ctx) == Named(ctx, "odidOnly") \o Named(ctx, "odidExcept")
parse_instance(ctx) ==
    [name |-> Name(ctx), plugin |-> TokensOf(WordOf(ctx, "plugin", "")), verbosity |-> WordOf(ctx, "verbosity", ""),
     params |-> SubOf(ctx, "params"), filter |-> FilterOf(ctx)]
check_common(ctx) ==
    /\ Name(ctx) # "" /\ WordOf(ctx, "plugin", "") # "" /\ Has(ctx, "params")
    /\ WordOf(ctx, "verbosity", "") \in Verbosities
UniqueIn(list, name) == \A i \in DOMAIN list : list[i].name # name
FilterGiven(ctx) == Len(FilterOf(ctx)) <= 1 /\ \A f \in ToSet(FilterOf(ctx)) : f.word # ""
add_instance ==
    /\ cfgPc = "add" /\ unread # <<>>
    /\ LET type == Head(unread).type
           ctx == Head(unread).ctx
       IN IF check_common(ctx) /\ UniqueIn(model[type], Name(ctx)) /\ FilterGiven(ctx)
          THEN /\ model' = [model EXCEPT ![type] = Append(@, [parse_instance(ctx) EXCEPT !.plugin = Unprefixed(@)])]
               /\ unread' = Tail(unread) /\ UNCHANGED <<given, configured, cfgPc>>
          ELSE Refuse
parse_file_end == cfgPc = "add" /\ unread = <<>> /\ cfgPc' = "check" /\ UNCHANGED <<given, unread, model, configured>>

\* The model, the Information Elements, the plugins and the filters.
model_check == model.input # <<>> /\ model.output # <<>>
iemgr_load == directory \in Directories \ {""}
startup_begin ==
    /\ cfgPc = "check"
    /\ IF model_check /\ iemgr_load THEN cfgPc' = "create" /\ UNCHANGED <<given, unread, model, configured>> ELSE Refuse

Plugin(type, name) ==
    CASE type = "input" -> name \in {<<"udp">>, <<"tcp">>, <<"ipfix">>, <<"fds">>, <<"dummy">>}
      [] type = "inter" -> name \in {<<"filter">>, <<"anonymization">>}
      [] type = "output" -> name \in {<<"json">>, <<"json-kafka">>, <<"unirec">>, <<"forwarder">>, <<"clickhouse">>,
                                      <<"lnfstore">>, <<"fds">>, <<"ipfix">>, <<"dummy">>, <<"timecheck">>,
                                      <<"viewer">>, <<"overview">>}
InOrder ==
    LET Of_(type) == [i \in DOMAIN model[type] |-> [type |-> type, inst |-> model[type][i]]]
    IN Of_("output") \o Of_("inter") \o Of_("input")
create ==
    /\ cfgPc = "create"
    /\ IF \A x \in ToSet(InOrder) : Plugin(x.type, x.inst.plugin) /\ \A f \in ToSet(x.inst.filter) : f.word \in Expressions
       THEN cfgPc' = "init" /\ UNCHANGED <<given, unread, model, configured>>
       ELSE Refuse

ConfigOf(type, name, ctx) ==
    CASE type = "input" ->
            (CASE name = <<"udp">> -> Udp(ctx) [] name = <<"tcp">> -> Tcp(ctx) [] name = <<"ipfix">> -> IpfixIn(ctx)
               [] name = <<"fds">> -> FdsIn(ctx) [] name = <<"dummy">> -> DummyIn(ctx))
      [] type = "inter" -> (IF name = <<"filter">> THEN Filter(ctx) ELSE Anon(ctx, random))
      [] type = "output" ->
            (CASE name = <<"json">> -> Json(ctx) [] name = <<"json-kafka">> -> JsonKafka(ctx)
               [] name = <<"unirec">> -> Unirec(ctx) [] name = <<"forwarder">> -> Forwarder(ctx)
               [] name = <<"clickhouse">> -> ClickHouse(ctx) [] name = <<"lnfstore">> -> Lnf(ctx)
               [] name = <<"fds">> -> Fds(ctx) [] name = <<"ipfix">> -> Ipfix(ctx)
               [] name = <<"dummy">> -> DummyOut(ctx) [] name = <<"timecheck">> -> Timecheck(ctx)
               [] name = <<"viewer">> -> Viewer(ctx) [] name = <<"overview">> -> Overview(ctx))

\* The constructors of the plugins, one after another.
init_plugin ==
    /\ cfgPc = "init" /\ Len(configured) < Len(InOrder)
    /\ LET x == InOrder[Len(configured) + 1]
           cfg == ConfigOf(x.type, x.inst.plugin, x.inst.params)
       IN IF cfg = Refused THEN Refuse
          ELSE configured' = Append(configured, [type |-> x.type, name |-> x.inst.name, cfg |-> cfg])
               /\ UNCHANGED <<given, unread, model, cfgPc>>
startup_end ==
    /\ cfgPc = "init" /\ Len(configured) = Len(InOrder) /\ cfgPc' = "run" /\ UNCHANGED <<given, unread, model, configured>>

\* The collector runs, or has ended.
decided == cfgPc \in {"run", "refused"} /\ UNCHANGED cfgVars

Next ==
    \/ parse_file_start \/ add_instance \/ parse_file_end \/ startup_begin
    \/ create \/ init_plugin \/ startup_end \/ decided

-----------------------------------------------------------------------------
(* Whether the file starts the collector does not depend on the order of      *)
(* anything: instances are complete, of their own names and of plugins that   *)
(* accept their parameters.                                                    *)
Complete(x) ==
    /\ check_common(x.ctx) /\ \A f, g \in ToSet(FilterOf(x.ctx)) : f = g /\ f.word \in Expressions
    /\ LET name == Unprefixed(TokensOf(WordOf(x.ctx, "plugin", "")))
       IN Plugin(x.type, name) /\ ConfigOf(x.type, name, SubOf(x.ctx, "params")) # Refused
Correct ==
    /\ file # Unreadable /\ Conforms(MainArgs, file) /\ directory \in Directories
    /\ \A i \in DOMAIN Listed(file) :
          /\ Complete(Listed(file)[i])
          /\ \A j \in DOMAIN Listed(file) \ {i} :
                Listed(file)[i].type = Listed(file)[j].type => Name(Listed(file)[i].ctx) # Name(Listed(file)[j].ctx)
    /\ {"input", "output"} \subseteq {x.type : x \in ToSet(Listed(file))}
NamesOf(list, type) ==
    LET of == SelectSeq(list, LAMBDA x : x.type = type) IN [i \in DOMAIN of |-> of[i].name]

\* The collector runs all of a correct file, in the order of its lists, or
\* nothing of any other.
StartsWhole ==
    /\ cfgPc = "refused" => ~Correct /\ configured = <<>>
    /\ cfgPc = "run" =>
          /\ Correct
          /\ LET named == [i \in DOMAIN Listed(file) |->
                              [type |-> Listed(file)[i].type, name |-> Name(Listed(file)[i].ctx)]]
             IN \A t \in ToSet(Types) : NamesOf(configured, t) = NamesOf(named, t)
          /\ \A i, j \in DOMAIN configured :
                \/ configured[i].type = "output" /\ configured[j].type # "output"
                \/ configured[i].type = "inter" /\ configured[j].type = "input"
                => i < j

-----------------------------------------------------------------------------
(* What the plugins rely on, seen in the configuration of an instance that    *)
(* runs; params are the parameters it came from.                               *)
RECURSIVE Parts(_)
Parts(tokens) ==
    IF ":" \notin ToSet(tokens) THEN <<tokens>>
    ELSE LET n == SelectInSeq(tokens, LAMBDA t : t = ":")
         IN <<SubSeq(tokens, 1, n - 1)>> \o Parts(SubSeq(tokens, n + 1, Len(tokens)))

\* libtrap takes the specification to pieces and finds the texts of the
\* document, in its own order, and the settings behind them.
SpecMeans(spec, item) ==
    LET texts == CASE item.e = "tcp" -> <<ToString(Port(item.sub))>>
                   [] item.e = "tls" -> <<ToString(Port(item.sub)), WordOf(item.sub, "keyFile", ""),
                                          WordOf(item.sub, "certFile", ""), WordOf(item.sub, "caFile", "")>>
                   [] OTHER -> <<Name(item.sub)>>
        parts == Parts(spec)
    IN /\ \A i \in DOMAIN texts : parts[i + 1] = TokensOf(texts[i])
       /\ \A i \in DOMAIN parts : i > 1 + Len(texts) + (IF item.e = "file" THEN 1 ELSE 0) => parts[i][2] = "="
Microseconds(cfg) == cfg.sec * 1000000 + cfg.nsec \div 1000
PairwiseDistinct(list, Key(_)) == \A i, j \in DOMAIN list : Key(list[i]) = Key(list[j]) => i = j
\* Outputs to Kafka and to syslog may have no name.
Usable(type, name, cfg, params) ==
    CASE type = "output" /\ name \in {<<"json">>, <<"json-kafka">>} ->
            /\ PairwiseDistinct(cfg.outputs, LAMBDA o : o.name)
            /\ \A o \in ToSet(cfg.outputs) : (o.kind \notin {"kafka", "syslog"} => o.name # "")
                 /\ (o.kind = "kafka" => \A p, q \in o.properties : p.key = q.key => p = q)
                 /\ (o.kind \in {"server", "send"} => o.port > 0)
      [] type = "output" /\ name = <<"unirec">> ->
            /\ SpecMeans(cfg.spec, SubOf(params, "trapIfcSpec")[1])
            /\ "?" \notin ToSet(cfg.unirec_fmt) /\ cfg.unirec_fmt = SelectSeq(cfg.unirec_spec, LAMBDA t : t # "?")
      [] type = "output" /\ name = <<"forwarder">> ->
            cfg.hosts # <<>> /\ PairwiseDistinct(cfg.hosts, LAMBDA h : <<h.address, h.port>>)
      [] type = "output" /\ name = <<"clickhouse">> ->
            cfg.endpoints # <<>> /\ cfg.columns # <<>>
      [] type = "output" /\ name \in {<<"fds">>, <<"lnfstore">>} -> cfg.window.size > 0
      [] name = <<"dummy">> -> cfg.nsec < 1000000000 /\ Microseconds(cfg) = NumOf(params, "delay", 0)
      [] name = <<"anonymization">> -> (cfg.key # <<>> => Len(cfg.key) = KeyLen) /\ (cfg.freed => ~random)
      [] type = "input" /\ name = <<"udp">> -> "" \notin ToSet(cfg.addrs) /\ cfg.timeout >= ConnTimeoutMin
      [] OTHER -> TRUE
Next_ == InOrder[Len(configured) + 1]
AtInit == cfgPc = "init" /\ Len(configured) < Len(InOrder)
ConfigOfNext(params) == ConfigOf(Next_.type, Next_.inst.plugin, params)
AcceptedIsUsable ==
    AtInit /\ ConfigOfNext(Next_.inst.params) # Refused
    => Usable(Next_.type, Next_.inst.plugin, ConfigOfNext(Next_.inst.params), Next_.inst.params)

-----------------------------------------------------------------------------
(* The order of the elements of the parameters, at every depth, changes no    *)
(* more than the order of lists.  Of two properties of Kafka with the same key *)
(* the first one is taken.                                                     *)
RECURSIVE Mirrored(_)
Mirrored(ctx) ==
    [i \in DOMAIN ctx |-> LET item == ctx[Len(ctx) + 1 - i] IN [item EXCEPT !.sub = Mirrored(@)]]
ListFields == {"addrs", "outputs", "hosts", "columns", "endpoints", "selection"}
Unordered(cfg) == IF cfg = Refused THEN Refused
                  ELSE [f \in DOMAIN cfg |-> IF f \in ListFields THEN ToSet(cfg[f]) ELSE cfg[f]]
RECURSIVE KeyTwice(_)
KeyTwice(ctx) ==
    \/ Cardinality(ToSet(Each(LAMBDA p : WordOf(p, "key", ""), ctx, "property"))) < Len(Named(ctx, "property"))
    \/ \E item \in ToSet(ctx) : KeyTwice(item.sub)
OrderIsIrrelevant ==
    AtInit /\ ~KeyTwice(Next_.inst.params)
    => Unordered(ConfigOfNext(Mirrored(Next_.inst.params))) = Unordered(ConfigOfNext(Next_.inst.params))

(* An element that is left out means what its documentation says.             *)
At(path, items) == {[path |-> path, item |-> i] : i \in items}
AtTop(items) == At(<<>>, items)
DumpDocumented == At(<<"dumpInterval">>, {Number("timeWindow", 300), Flag("align", TRUE)})
FormatDocumented ==
    AtTop({Text(e, "formatted") : e \in {"tcpFlags", "timestamp", "protocol"}}
        \cup {Flag(e, TRUE) : e \in On} \cup {Flag(e, FALSE) : e \in Off})
    \cup At(<<"outputs", "kafka">>, {Text("partition", "unassigned"), Text("brokerVersion", ""),
                                     Flag("blocking", FALSE), Flag("performanceTuning", TRUE)})
Documented(type, name) ==
    CASE type = "input" /\ name = <<"udp">> ->
            AtTop({Number("connectionTimeout", 600), Number("templateLifeTime", 1800), Number("optionsTemplateLifeTime", 1800)})
      [] type = "input" /\ name = <<"tcp">> -> AtTop({Number("localPort", 4739), Text("localIPAddress", "")})
      [] type = "input" /\ name = <<"ipfix">> -> AtTop({Number("bufferSize", 1048576)})
      [] type = "input" /\ name = <<"fds">> -> AtTop({Number("msgSize", 32768), Flag("asyncIO", TRUE)})
      [] type = "output" /\ name \in {<<"json">>, <<"json-kafka">>} ->
            FormatDocumented \cup At(<<"outputs", "file">>, {Text("compression", "none")})
      [] type = "output" /\ name = <<"unirec">> ->
            AtTop({Flag("splitBiflow", TRUE)})
            \cup At(<<"trapIfcCommon">>, {Text("timeout", "half_wait"), Flag("buffer", TRUE), Number("autoflush", 500000)})
            \cup UNION {At(<<"trapIfcSpec", e>>, {Number("maxClients", 64)}) : e \in {"tcp", "tls", "unix"}}
            \cup At(<<"trapIfcSpec", "file">>, {Text("mode", "write"), Number("time", 0), Number("size", 0)})
      [] type = "output" /\ name = <<"forwarder">> ->
            AtTop({Number("templatesResendSecs", 600), Number("templatesResendPkts", 5000),
                 Number("reconnectSecs", 10), Number("premadeConnections", 5)})
      [] type = "output" /\ name = <<"clickhouse">> ->
            AtTop({Flag(e, TRUE) : e \in {"splitBiflow", "biflowEmptyAutoignore", "nonblocking"}}
                \cup {Number("blocks", 64), Number("inserterThreads", 8), Number("blockInsertThreshold", 100000),
                      Number("blockInsertMaxDelaySecs", 10)})
            \cup At(<<"connection", "endpoints", "endpoint">>, {Number("port", 9000)})
            \cup At(<<"columns", "column">>, {Flag("nullable", FALSE)})
      [] type = "output" /\ name = <<"lnfstore">> ->
            DumpDocumented \cup AtTop({Flag("compress", FALSE), Text("identificatorField", "")})
            \cup At(<<"index">>, {Flag("enable", FALSE), Flag("autosize", TRUE), Number("estimatedItemCount", 100000),
                                  Number("falsePositiveProbability", 10000)})
      [] type = "output" /\ name = <<"fds">> ->
            DumpDocumented \cup AtTop({Text("compression", "none"), Flag("asyncIO", TRUE)})
      [] type = "output" /\ name = <<"ipfix">> ->
            AtTop({Flag("useLocalTime", FALSE), Number("windowSize", 0), Flag("alignWindows", TRUE),
                 Flag("preserveOriginal", FALSE), Flag("rotateOnExportTime", FALSE)})
      [] type = "output" /\ name = <<"dummy">> -> AtTop({Flag("stats", FALSE)})
      [] type = "output" /\ name = <<"overview">> -> AtTop({Flag("skipOptionsTemplates", FALSE)})
      [] OTHER -> {}
\* A node that may be left out is added, one that is needed must be there.
RECURSIVE Fits(_, _, _), With(_, _, _)
Fits(ctx, path, e) ==
    IF path = <<>> THEN ~Has(ctx, e)
    ELSE Fits(SubOf(ctx, Head(path)), Tail(path), e)
         /\ (Has(ctx, Head(path)) \/ Head(path) \in {"dumpInterval", "index", "trapIfcCommon"})
With(ctx, path, item) ==
    IF path = <<>> THEN Append(ctx, item)
    ELSE LET others == SelectSeq(ctx, LAMBDA i : i.e # Head(path))
             same == Named(ctx, Head(path))
         IN others \o (IF same = <<>> THEN <<>> ELSE Front(same))
            \o <<Node(Head(path), With(SubOf(ctx, Head(path)), Tail(path), item))>>
DefaultsAsDocumented ==
    AtInit => \A d \in Documented(Next_.type, Next_.inst.plugin) :
        Fits(Next_.inst.params, d.path, d.item.e)
        => ConfigOfNext(With(Next_.inst.params, d.path, d.item)) = ConfigOfNext(Next_.inst.params)
=============================================================================
