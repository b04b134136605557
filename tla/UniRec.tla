-------------------------------- MODULE UniRec --------------------------------
(* The output to UniRec: instances share the registry of UniRec fields; each *)
(* has a table from IPFIX elements to the fields of its template and sends a *)
(* record only if every field it requires was filled.                        *)
EXTENDS Integers, Sequences, FiniteSets, SequencesExt, FiniteSetsExt

CONSTANTS UrInstance,
          Mappings,     \* mapping files: sequences of [name, type, source, ies]
          Templates,    \* templates: sequences of [name, opt]
          UrFlows,      \* records: [biflow, fwd, rev, whole], sequences of fields [ies, value]
          Contexts,     \* of messages: [odid, exporter]
          OdidType,     \* the type of 32 bits without sign
          Bad,          \* a value whose size does not fit its type
          NoRecord

VARIABLES registry,     \* the fields defined: a set of [name, type]
          instances,    \* the counter of instances
          urConf,       \* of each instance: what it was initialised with
          urState,      \* new, up, refused or destroyed
          urRec,        \* the record buffer of each instance
          sent          \* what became of the last IPFIX record
vars == <<registry, instances, urConf, urState, urRec, sent>>

NoConf == [split |-> FALSE, recs |-> <<>>, template |-> <<>>, table |-> {}, internals |-> {}]
Init ==
    /\ registry = {} /\ instances = 0
    /\ urConf = [i \in UrInstance |-> NoConf] /\ urState = [i \in UrInstance |-> "new"]
    /\ urRec = [i \in UrInstance |-> NoRecord] /\ sent = <<>>

-----------------------------------------------------------------------------
(* The mapping file.  Every line maps one or more elements, or an internal   *)
(* function, to a UniRec field; an element may be mapped only once.          *)
Ids(rec) == [n \in DOMAIN rec.ies |-> rec.ies[n].id]
Number(source) ==
    CASE source = "ipfix" -> 1 [] source = "lbf" -> 2 [] source = "dbf" -> 3
      [] source = "odid" -> 4 [] source = "exporter" -> 5
Common(a, b) == Min({Len(a), Len(b)})

\* The order of the records: the rest of a longer list counts only if it has
\* two or more elements.
Before(a, b) ==
    LET differ == {n \in 1 .. Common(a.ies, b.ies) : Ids(a)[n] # Ids(b)[n]}
    IN IF a.source # b.source THEN Number(a.source) < Number(b.source)
       ELSE IF differ # {} THEN Ids(a)[Min(differ)] < Ids(b)[Min(differ)]
       ELSE Len(a.ies) > Len(b.ies) + 1
Same(a, b) == a.source = "ipfix" /\ b.source = "ipfix" /\ Ids(a) = Ids(b)
Sorted(recs) == \A n \in 1 .. Len(recs) - 1 : ~Before(recs[n + 1], recs[n])
Orders(recs) == {s \in SetToSeqs(1 .. Len(recs)) : Sorted([n \in DOMAIN s |-> recs[s[n]]])}
Collides(recs) == \E n \in 1 .. Len(recs) - 1 : Same(recs[n], recs[n + 1])

-----------------------------------------------------------------------------
(* The table of an instance.                                                 *)
ArrayOf(type) == type.array
\* Which conversion there is, by the type of the element or of those in a list.
Element(rec) == IF Len(rec.ies) > 1 THEN rec.ies[2].type ELSE rec.ies[1].type
Listed(rec) == Len(rec.ies) = 2
Convertible(rec) ==
    LET base == rec.type.base  el == Element(rec)
    IN \/ base = "int" /\ el \in {"uint", "int"} /\ (ArrayOf(rec.type) = Listed(rec)) /\ Len(rec.ies) < 3
       \/ base = "int" /\ el = "bool"
       \/ base = "float" /\ el = "float" /\ (ArrayOf(rec.type) = Listed(rec)) /\ Len(rec.ies) < 3
       \/ base \in {"ip", "mac", "time"} /\ el = base
       \/ base \in {"string", "bytes"} /\ ~ArrayOf(rec.type) /\ el \in {"string", "octets"}

Internal(rec) == rec.source \in {"lbf", "odid", "exporter"}
\* Each internal function serves one field, of a type that suits it.
Suits(rec) ==
    CASE rec.source \in {"lbf", "dbf"} -> rec.type.base = "int" /\ rec.type.min = 0
      [] rec.source = "odid" -> rec.type = OdidType
      [] rec.source = "exporter" -> rec.type.base = "ip"
      [] OTHER -> Convertible(rec)
Ingress == 10
\* The direction is taken from the number of the ingress interface.
Entry(rec) ==
    [key |-> IF rec.source = "dbf" THEN <<Ingress>> ELSE Ids(rec), source |-> rec.source,
     name |-> rec.name, type |-> rec.type, sem |-> IF rec.source = "dbf" THEN "identifier" ELSE Last(rec.ies).sem]

Names(template) == {template[n].name : n \in DOMAIN template}
\* The field is required unless its last mention is optional.
Required(template) ==
    {name \in Names(template) :
        ~template[Max({n \in DOMAIN template : template[n].name = name})].opt}
Used(recs, template) == {r \in ToSet(recs) : r.name \in Names(template)}
Twice(recs, template) ==
    \E m, n \in DOMAIN recs : m < n /\ {recs[m], recs[n]} \subseteq Used(recs, template)
                              /\ recs[m].source = recs[n].source /\ Internal(recs[m])
TableFails(recs, template) ==
    Twice(recs, template) \/ \E r \in Used(recs, template) : ~Suits(r)
Table(recs, template) == {Entry(r) : r \in {u \in Used(recs, template) : ~Internal(u)}}

-----------------------------------------------------------------------------
(* Initialisation and destruction, under the mutex of all instances.         *)
Fields(recs) == {[name |-> r.name, type |-> r.type] : r \in ToSet(recs)}
Mismatch(recs) ==
    \E f, g \in registry \cup Fields(recs) : f.name = g.name /\ f.type # g.type
\* An instance that fails undoes the registry only if it is the only one.
MUT_Undone(fields) == registry \cup fields
Undone(fields) == IF instances = 0 THEN {} ELSE registry \cup fields

\* Up to the field that cannot be defined, the others are.
Defined(recs) ==
    {f \in Fields(recs) : ~\E g \in registry \cup Fields(recs) : f.name = g.name /\ f.type # g.type}
Refuse(i, fields) ==
    /\ registry' = Undone(fields) /\ urState' = [urState EXCEPT ![i] = "refused"]
    /\ UNCHANGED <<instances, urConf, urRec, sent>>
CoreInitialize(i, recs, template, split) ==
    IF Mismatch(recs) THEN \E some \in SUBSET Defined(recs) : Refuse(i, some)
    ELSE \/ Refuse(i, Fields(recs))     \* the TRAP interface cannot be made
         \/ IF \/ ~Names(template) \subseteq {f.name : f \in registry \cup Fields(recs)}
               \/ TableFails(recs, template)
            THEN Refuse(i, Fields(recs))
            ELSE /\ registry' = registry \cup Fields(recs)
                 /\ instances' = instances + 1
                 /\ urState' = [urState EXCEPT ![i] = "up"]
                 /\ urConf' = [urConf EXCEPT ![i] =
                        [split |-> split, recs |-> recs, template |-> template, table |-> Table(recs, template),
                         internals |-> {r \in Used(recs, template) : Internal(r)}]]
                 /\ UNCHANGED <<urRec, sent>>

\* The mapping file is read before and fails without anything being defined.
PluginInit(i) ==
    /\ urState[i] = "new"
    /\ \E recs \in Mappings, template \in Templates, split \in BOOLEAN :
          \E order \in Orders(recs) :
             IF Collides([n \in DOMAIN order |-> recs[order[n]]])
             THEN /\ urState' = [urState EXCEPT ![i] = "refused"]
                  /\ UNCHANGED <<registry, instances, urConf, urRec, sent>>
             ELSE CoreInitialize(i, [n \in DOMAIN order |-> recs[order[n]]], template, split)

\* The fields are removed by whoever is destroyed first.
MUT_Finalized == {}
Finalized == IF instances = 1 THEN {} ELSE registry
PluginDestroy(i) ==
    /\ urState[i] = "up" /\ urState' = [urState EXCEPT ![i] = "destroyed"]
    /\ instances' = instances - 1 /\ registry' = Finalized
    /\ urConf' = [urConf EXCEPT ![i] = NoConf] /\ urRec' = [urRec EXCEPT ![i] = NoRecord]
    /\ sent' = <<>>

-----------------------------------------------------------------------------
(* The translation of a record.                                              *)
Width(type) == type.max - type.min + 1
\* What does not fit is cut off if it identifies or flags, saturated otherwise.
Stored(type, sem, v) ==
    IF type.base # "int" \/ v \in type.min .. type.max THEN v
    ELSE IF sem \in {"flags", "identifier"} THEN type.min + ((v - type.min) % Width(type))
    ELSE IF v > type.max THEN type.max ELSE type.min
Default(type) == IF ArrayOf(type) THEN <<>> ELSE 0
Entries(table, field) == {e \in table : e.key = field.ies}

\* An array is appended to; one with an element that fails is left empty, but
\* for addresses of interfaces, which are kept up to that element.
UpToBad(values) == IF Bad \in ToSet(values) THEN SelectInSeq(values, LAMBDA v : v = Bad) - 1 ELSE Len(values)
Appended(entry, was, values) ==
    LET all == [n \in 1 .. UpToBad(values) |-> Stored(entry.type, entry.sem, values[n])]
    IN IF UpToBad(values) < Len(values) /\ entry.type.base # "mac" THEN <<>> ELSE was \o all
Direction(v) == v % 2
Converts(entry, value) == IF ArrayOf(entry.type) THEN Bad \notin ToSet(value) ELSE value # Bad
Converted(entry, was, value) ==
    IF ArrayOf(entry.type) THEN Appended(entry, was, value)
    ELSE IF value = Bad THEN was
    ELSE IF entry.source = "dbf" THEN Direction(value) ELSE Stored(entry.type, entry.sem, value)

\* From the message, before any element: neither needs the record.
FromContext(r, ctx) ==
    CASE r.source = "odid" -> ctx.odid
      [] r.source = "lbf" -> 2 ^ (ctx.odid % r.type.bits)
      [] r.source = "exporter" -> ctx.exporter
Filling(internals, ctx) == {r \in internals : FromContext(r, ctx) # Bad}

TypeIn(conf, name) == (CHOOSE f \in registry : f.name = name).type
\* The record keeps what the one before has left in it.
MUT_Begun(conf, ctx, was) ==
    LET filling == Filling(conf.internals, ctx)
    IN [values |-> [name \in Names(conf.template) |->
            IF \E r \in filling : r.name = name
            THEN FromContext(CHOOSE r \in filling : r.name = name, ctx)
            ELSE IF was = NoRecord THEN Default(TypeIn(conf, name)) ELSE was[name]],
        missing |-> Required(conf.template) \ {r.name : r \in filling},
        filled |-> Cardinality(filling)]
Begun(conf, ctx, was) ==
    LET filling == Filling(conf.internals, ctx)
    IN [values |-> [name \in Names(conf.template) |->
            IF \E r \in filling : r.name = name
            THEN FromContext(CHOOSE r \in filling : r.name = name, ctx)
            ELSE Default(TypeIn(conf, name))],
        missing |-> Required(conf.template) \ {r.name : r \in filling},
        filled |-> Cardinality(filling)]

\* The search in the table finds any one of the entries with the key.
Filled(conf, rec, field) ==
    IF Entries(conf.table, field) = {} THEN rec
    ELSE LET entry == CHOOSE e \in Entries(conf.table, field) : TRUE
             ok == Converts(entry, field.value)
         IN [values |-> [rec.values EXCEPT ![entry.name] = Converted(entry, @, field.value)],
             missing |-> IF ok THEN rec.missing \ {entry.name} ELSE rec.missing,
             filled |-> IF ok THEN rec.filled + 1 ELSE rec.filled]
Translated(conf, ctx, was, fields) ==
    FoldLeft(LAMBDA rec, field : Filled(conf, rec, field), Begun(conf, ctx, was), fields)
Complete(rec) == rec.filled > 0 /\ rec.missing = {}

\* Of a biflow that is split the second direction follows only a complete first.
Process(i) ==
    /\ urState[i] = "up"
    /\ \E flow \in UrFlows, ctx \in Contexts :
          LET conf == urConf[i]
              split == conf.split /\ flow.biflow
              one == Translated(conf, ctx, urRec[i], IF split THEN flow.fwd ELSE flow.whole)
              two == Translated(conf, ctx, one.values, flow.rev)
              both == split /\ Complete(one)
              Result(rec, fields) == [conf |-> conf, ctx |-> ctx, fields |-> fields,
                                      out |-> IF Complete(rec) THEN rec.values ELSE NoRecord]
          IN /\ urRec' = [urRec EXCEPT ![i] = IF both THEN two.values ELSE one.values]
             /\ sent' = <<Result(one, IF split THEN flow.fwd ELSE flow.whole)>>
                        \o (IF both THEN <<Result(two, flow.rev)>> ELSE <<>>)
    /\ UNCHANGED <<registry, instances, urConf, urState>>

Done == (\A i \in UrInstance : urState[i] \notin {"new", "up"}) /\ UNCHANGED vars
Next == (\E i \in UrInstance : PluginInit(i) \/ PluginDestroy(i) \/ Process(i)) \/ Done
Spec == Init /\ [][Next]_vars

-----------------------------------------------------------------------------
(* The fields of an instance that is up are defined, whoever else comes,     *)
(* fails and goes (unirecplugin.c), and none is left when all are gone.      *)
FieldsDefined ==
    /\ \A i \in UrInstance : urState[i] = "up" =>
           \A e \in urConf[i].table \cup urConf[i].internals : [name |-> e.name, type |-> e.type] \in registry
    /\ instances = 0 => registry = {}
    /\ instances = Cardinality({i \in UrInstance : urState[i] = "up"})

(* What is sent is of its record and message alone: every field has the      *)
(* value of the last element that is mapped to it and could be converted, or *)
(* of its message, or none; arrays have everything behind the last failure;  *)
(* a required field is filled, and no complete record is dropped             *)
(* (translator_translate).  Two entries of one key are left to Ambiguous.    *)
Ambiguous(conf) == \E a, b \in conf.table : a # b /\ a.key = b.key
To(conf, fields, name) ==
    {n \in DOMAIN fields : \E e \in conf.table : e.key = fields[n].ies /\ e.name = name}
EntryOf(conf, field) == CHOOSE e \in conf.table : e.key = field.ies
Good(conf, fields, name) ==
    {n \in To(conf, fields, name) : Converts(EntryOf(conf, fields[n]), fields[n].value)}
Wanted(r, name) ==
    LET good == Good(r.conf, r.fields, name)
        filling == {x \in Filling(r.conf.internals, r.ctx) : x.name = name}
    IN IF good # {}
       THEN Converted(EntryOf(r.conf, r.fields[Max(good)]), 0, r.fields[Max(good)].value)
       ELSE IF filling # {} THEN FromContext(CHOOSE x \in filling : TRUE, r.ctx) ELSE 0
WantedArray(r, name) ==
    LET to == To(r.conf, r.fields, name)
        good == Good(r.conf, r.fields, name)
        bad == to \ good
    IN FoldLeft(LAMBDA s, n : IF n \in good /\ (bad = {} \/ n > Max(bad))
                              THEN s \o Converted(EntryOf(r.conf, r.fields[n]), <<>>, r.fields[n].value)
                              ELSE s,
                <<>>, [n \in DOMAIN r.fields |-> n])
Fillable(r, name) ==
    Good(r.conf, r.fields, name) # {} \/ \E x \in Filling(r.conf.internals, r.ctx) : x.name = name
RecordsExact ==
    \A r \in ToSet(sent) : ~Ambiguous(r.conf) =>
        /\ r.out # NoRecord <=> /\ \A name \in Required(r.conf.template) : Fillable(r, name)
                                /\ \E name \in Names(r.conf.template) : Fillable(r, name)
        /\ r.out # NoRecord => \A name \in Names(r.conf.template) :
               LET type == TypeIn(r.conf, name)
               IN r.out[name] = IF ArrayOf(type) THEN WantedArray(r, name) ELSE Wanted(r, name)

(* An element, or a list of some, is mapped to one field only, unless what   *)
(* is shorter or longer by one is mapped as well: then the records are not   *)
(* in order, and those of the element need not be neighbours (map_load).     *)
MappedOnce ==
    \A i \in UrInstance :
        LET recs == urConf[i].recs
        IN \A m, n \in DOMAIN recs : m # n /\ Same(recs[m], recs[n]) =>
               \E k \in DOMAIN recs :
                   /\ Len(recs[k].ies) - Len(recs[m].ies) \in {-1, 1}
                   /\ \A x \in 1 .. Common(recs[k].ies, recs[m].ies) : Ids(recs[k])[x] = Ids(recs[m])[x]
UniRecExact == FieldsDefined /\ RecordsExact /\ MappedOnce
=============================================================================
