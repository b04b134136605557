------------------------------ MODULE NetFlow ------------------------------
(* The NetFlow v9 converter, netflow9.c with netflow9_parsers.c and          *)
(* netflow9_templates.c: operators on the state of a converter.              *)
(*                                                                           *)
(* A NetFlow field is [id, len]; a definition [tid, scopes, fields] has its  *)
(* scope fields first.  A FlowSet is a template set [k |-> "tset", opts,     *)
(* recs], where a malformed definition is Bad, a data set [k |-> "dset",     *)
(* tid, bytes], a set of an unknown ID, or Bad if its length is wrong.       *)
EXTENDS Naturals, Sequences, SequencesExt

CONSTANTS
    W,           \* sequence numbers are modulo W (2^32)
    T,           \* and the seconds of NetFlow 5 modulo T (2^32)
    MaxMsg,      \* records of NetFlow 5 that fit in an IPFIX message
    None,        \* "no template"
    Bad,         \* what an iterator refuses
    MaxSet,      \* MAX_SET_CONTENT_LEN, in bytes
    Tid          \* template IDs

SumLen(fields) == FoldLeft(LAMBDA n, f : n + f.len, 0, fields)

SeqNewer(s, t) == s # t /\ (s + W - t) % W < W \div 2

-----------------------------------------------------------------------------
(* The tables of the conversion: scope fields, and relative timestamps.      *)
OptsMap(id) ==
    CASE id = 1 -> [ie |-> 144, max |-> 4]
      [] id = 2 -> [ie |-> 10, max |-> 4]
      [] id = 3 -> [ie |-> 141, max |-> 4]
      [] id = 5 -> [ie |-> 145, max |-> 2]
      [] OTHER -> None
DataMap(id) ==
    CASE id = 21 -> [size |-> 4, ie |-> 153, len |-> 8]
      [] id = 22 -> [size |-> 4, ie |-> 152, len |-> 8]
      [] OTHER -> None

\* Fields that IPFIX defines otherwise get an enterprise number.
MUT_Enterprise(id) == IF id < 128 THEN "iana" ELSE "low"
Enterprise(id) == IF id < 128 THEN "iana" ELSE IF id < 32768 THEN "low" ELSE "high"

Copy(n) == IF n > 0 THEN <<[op |-> "cpy", size |-> n]>> ELSE <<>>

\* One field of conv_tmplt_process(): aux.cpy bytes wait to be copied as one.
ScopeField(aux, f, map) ==
    IF IF map = None THEN TRUE ELSE map.max < f.len
    THEN [aux EXCEPT !.ok = FALSE]
    ELSE [aux EXCEPT !.cpy = @ + f.len,
                     !.ies = Append(@, [ie |-> map.ie, en |-> "iana", len |-> f.len])]
CopyField(aux, f) ==
    [aux EXCEPT !.cpy = @ + f.len,
                !.ies = Append(@, [ie |-> f.id % 32768, en |-> Enterprise(f.id), len |-> f.len])]
MUT_TimeField(aux, map) ==
    [aux EXCEPT !.instr = Append(@, [op |-> "ts", size |-> 8]) \o Copy(aux.cpy),
                !.cpy = 0,
                !.ies = Append(@, [ie |-> map.ie, en |-> "iana", len |-> map.len])]
TimeField(aux, map) ==
    [aux EXCEPT !.instr = Append(@ \o Copy(aux.cpy), [op |-> "ts", size |-> 8]),
                !.cpy = 0,
                !.ies = Append(@, [ie |-> map.ie, en |-> "iana", len |-> map.len])]
DataField(aux, f, map) ==
    IF map = None THEN CopyField(aux, f)
    ELSE IF map.size # f.len THEN [aux EXCEPT !.ok = FALSE]
    ELSE TimeField(aux, map)
Field(aux, f, isScope) ==
    IF ~aux.ok THEN aux
    ELSE IF isScope THEN ScopeField(aux, f, OptsMap(f.id))
    ELSE DataField(aux, f, DataMap(f.id))

\* A record of the converter's table, struct nf9_trec: what cannot be
\* converted is remembered too, to drop its data.
Trec(def, opts, aux) ==
    IF aux.ok /\ SumLen(aux.ies) <= MaxSet
    THEN [def |-> def, opts |-> opts, drop |-> FALSE,
          ies |-> aux.ies, instr |-> aux.instr \o Copy(aux.cpy)]
    ELSE [def |-> def, opts |-> opts, drop |-> TRUE, ies |-> <<>>, instr |-> <<>>]
NewTrec(def, opts) ==
    Trec(def, opts,
         FoldLeft(LAMBDA a, j : Field(a, def.fields[j], j <= def.scopes),
                  [ok |-> ~opts \/ def.scopes > 0, cpy |-> 0, instr |-> <<>>, ies |-> <<>>],
                  [j \in 1 .. Len(def.fields) |-> j]))

-----------------------------------------------------------------------------
(* The state of a converter, and what it has made of the current message.    *)
NewConv == [table |-> [t \in Tid |-> None], valid |-> FALSE, next |-> 0, ipx |-> 0]
Fresh(conv) == [conv |-> conv, ok |-> TRUE, sets |-> <<>>, drecs |-> 0]

\* A definition that is known goes to the output again as it was converted.
MUT_Known(trec, def, opts) == trec # None /\ trec.opts = opts
Known(trec, def, opts) == trec # None /\ trec.opts = opts /\ trec.def = def

Store(r, def, trec) ==
    [r EXCEPT !.conv.table[def.tid] = trec,
              !.recs = IF trec.drop THEN @ ELSE Append(@, [tid |-> def.tid, ies |-> trec.ies])]
Definition(opts, r, def) ==
    IF ~r.ok THEN r
    ELSE IF def = Bad THEN [r EXCEPT !.ok = FALSE]
    ELSE Store(r, def, IF Known(r.conv.table[def.tid], def, opts)
                       THEN r.conv.table[def.tid] ELSE NewTrec(def, opts))

AddSet(r, s) ==
    [r EXCEPT !.conv = s.conv, !.ok = s.ok,
              !.sets = IF s.recs = <<>> THEN @ ELSE Append(@, [k |-> "tset", recs |-> s.recs])]
ProcessTset(r, set) ==
    AddSet(r, FoldLeft(LAMBDA a, d : Definition(set.opts, a, d),
                       [conv |-> r.conv, ok |-> set.recs # <<>>, recs |-> <<>>], set.recs))

\* The instructions of a template, executed on a record.
\* Byte k of an absolute time is <<0, first byte of the relative one, k>> (exporters count from 1).
Execute(instr, rec) ==
    FoldLeft(LAMBDA a, i :
                IF i.op = "cpy"
                THEN [pos |-> a.pos + i.size, out |-> a.out \o SubSeq(rec, a.pos, a.pos + i.size - 1)]
                ELSE [pos |-> a.pos + 4, out |-> a.out \o [k \in 1 .. 8 |-> <<0, rec[a.pos], k>>]],
             [pos |-> 1, out |-> <<>>], instr).out

Records(bytes, len) ==
    [i \in 1 .. Len(bytes) \div len |-> SubSeq(bytes, (i - 1) * len + 1, i * len)]
AddRecords(r, tid, recs) ==
    IF recs = <<>> \/ Len(FlattenSeq(recs)) > MaxSet THEN [r EXCEPT !.ok = FALSE]
    ELSE [r EXCEPT !.drecs = @ + Len(recs),
                   !.sets = Append(@, [k |-> "dset", tid |-> tid, bytes |-> FlattenSeq(recs)])]
Convert(recs, instr) == [i \in DOMAIN recs |-> Execute(instr, recs[i])]
ProcessDrecs(r, set, trec) ==
    IF IF trec = None THEN TRUE ELSE trec.drop THEN r
    ELSE AddRecords(r, set.tid, Convert(Records(set.bytes, SumLen(trec.def.fields)), trec.instr))
ProcessDset(r, set) == ProcessDrecs(r, set, r.conv.table[set.tid])

FlowSet(r, set) ==
    IF ~r.ok THEN r
    ELSE IF set = Bad THEN [r EXCEPT !.ok = FALSE]
    ELSE IF set.k = "tset" THEN ProcessTset(r, set)
    ELSE IF set.k = "dset" THEN ProcessDset(r, set)
    ELSE r

\* The expected number of the next NetFlow message; it is only reported.
Expected(conv, seq) ==
    IF conv.next = seq \/ ~conv.valid \/ SeqNewer(seq, conv.next)
    THEN (seq + 1) % W ELSE conv.next

\* ipx_nf9_conv_process(): sequence numbers of its own, one per data record.
MUT_Numbered(r) == [r.conv EXCEPT !.ipx = (@ + r.drecs) % W]
Numbered(r) == IF r.ok THEN [r.conv EXCEPT !.ipx = (@ + r.drecs) % W] ELSE r.conv
Result(msg, r) ==
    [ok |-> r.ok, conv |-> Numbered(r),
     msg |-> [seq |-> r.conv.ipx, time |-> msg.time, sets |-> r.sets]]
Process(conv, msg) ==
    Result(msg, FoldLeft(FlowSet,
                         Fresh([conv EXCEPT !.valid = TRUE, !.next = Expected(conv, msg.seq)]),
                         msg.sets))

-----------------------------------------------------------------------------
(* NetFlow v5, netflow5.c: the one template of the records is added to the   *)
(* first message and again whenever a refresh is due.                        *)
Newer(s, t, mod) == s # t /\ (s + mod - t) % mod < mod \div 2

\* A refresh of 0 seconds: the template is never sent again.
NewV5Conv(refresh) == [added |-> FALSE, due |-> 0, next |-> 0, ipx |-> 0, refresh |-> refresh]

MUT_AddsTemplate(conv, time) == ~conv.added
AddsTemplate(conv, time) ==
    ~conv.added \/ (conv.refresh # 0 /\ (time = conv.due \/ Newer(time, conv.due, T)))

\* The record: addresses, two relative timestamps that become absolute, ports.
\* Byte k of an absolute time is <<0, first byte of the relative one, k>> (exporters count from 1).
V5Def == [tid |-> 1, scopes |-> 0,
          fields |-> <<[id |-> 8, len |-> 4], [id |-> 22, len |-> 4], [id |-> 21, len |-> 4],
                       [id |-> 7, len |-> 2]>>]
V5Template == [tid |-> 1, ies |-> <<[ie |-> 8, en |-> "iana", len |-> 4],
                                    [ie |-> 152, en |-> "iana", len |-> 8],
                                    [ie |-> 153, en |-> "iana", len |-> 8],
                                    [ie |-> 7, en |-> "iana", len |-> 2]>>]
Absolute(b) == [k \in 1 .. 8 |-> <<0, b, k>>]
NewRecord(r) == SubSeq(r, 1, 4) \o Absolute(r[5]) \o Absolute(r[9]) \o SubSeq(r, 13, 14)
AddTset(conv, time) ==
    IF AddsTemplate(conv, time) THEN <<[k |-> "tset", recs |-> <<V5Template>>]>> ELSE <<>>
AddDset(bytes) ==
    IF bytes = <<>> THEN <<>>
    ELSE <<[k |-> "dset", tid |-> 1,
            bytes |-> FlattenSeq([i \in 1 .. Len(bytes) \div 14 |->
                                    NewRecord(SubSeq(bytes, (i - 1) * 14 + 1, i * 14))])]>>

\* The first message brings the numbers of the exporter, a template sent the
\* time of the next one.
First(conv, seq) == IF conv.added THEN conv ELSE [conv EXCEPT !.next = seq, !.ipx = seq]
Counted(conv, seq, count) ==
    IF conv.next = seq \/ Newer(seq, conv.next, W)
    THEN [conv EXCEPT !.next = (seq + count) % W] ELSE conv
Added(conv, time) ==
    IF AddsTemplate(conv, time)
    THEN [conv EXCEPT !.added = TRUE, !.due = (time + conv.refresh) % T] ELSE conv

\* ipx_nf5_conv_process(): the numbers of the exporter are only reported
\* once the first has been taken over.
V5Result(conv, msg, n) ==
    IF msg.count # n \/ n > MaxMsg
    THEN [ok |-> FALSE, conv |-> conv, msg |-> msg]
    ELSE [ok |-> TRUE, conv |-> [Added(conv, msg.time) EXCEPT !.ipx = (@ + n) % W],
          msg |-> [seq |-> conv.ipx, time |-> msg.time,
                   sets |-> AddTset(conv, msg.time) \o AddDset(msg.bytes)]]
V5Process(conv, msg) ==
    V5Result(Counted(First(conv, msg.seq), msg.seq, msg.count), msg, Len(msg.bytes) \div 14)
=============================================================================
