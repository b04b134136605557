------------------------------- MODULE Grouping -------------------------------
(* fdsdump: flows are grouped by the keys of a view that the user defines,   *)
(* each thread's in a table of its own, and the tables are merged into the   *)
(* first one.                                                                *)
EXTENDS FlowFields, FiniteSets

CONSTANTS Flows, Queries,  \* [keys: definitions, values: definitions, order: [field, dir]]
          Threads          \* 1 .. n

VARIABLES asked,  \* the definition of the view
          query,  \* the view: [keys: fields, values: [agg, dir, field]]
          given, flows, tabs, grouped, grpPc
vars == <<asked, query, given, flows, tabs, grouped, grpPc>>

\* The order is by a field known by the text of its definition.
Orders(def) ==
    \A i \in DOMAIN def.order :
        /\ def.order[i].field \in ToSet(def.keys) \cup ToSet(def.values)
        /\ def.order[i].field.len = <<>>      \* the text is cut at its slash
        /\ def.order[i].dir \in {"", "asc", "desc"}

create_view(def) ==
    LET keys == [i \in DOMAIN def.keys |-> create_key_field(def.keys[i])]
        values == [i \in DOMAIN def.values |-> create_value_field(def.values[i])]
        both == \E i \in DOMAIN values : values[i].dir # "any"
    IN [keys |-> IF both THEN [i \in DOMAIN keys |-> IF Fails(keys[i]) THEN keys[i] ELSE create_from(keys[i])]
                 ELSE keys,
        values |-> values]
\* The keys are made, then the values, then what is in both directions.
Outcome(def) ==
    LET view == create_view(def)
        keys == {view.keys[i].kind : i \in DOMAIN view.keys}
        values == {view.values[i].field.kind : i \in DOMAIN view.values}
    IN CASE "refused" \in {create_key_field(def.keys[i]).kind : i \in DOMAIN def.keys} \cup values -> "refused"
         [] "crash" \in keys -> "crash"
         [] "refused" \in keys \/ ~Orders(def) -> "refused"
         [] OTHER -> "aggregate"

\* A table maps keys to sequences of values; it begins with no record.
NoRecords == [k \in {} |-> <<>>]

Init ==
    /\ asked \in Queries /\ query = create_view(asked) /\ grpPc = Outcome(asked)
    /\ given \in IF grpPc = "aggregate" THEN SUBSET Flows ELSE {{}}
    /\ flows = given
    /\ tabs = [t \in Threads |-> NoRecords] /\ grouped = NoRecords

-----------------------------------------------------------------------------
(* One flow: in each of its directions, and in both of the view if a value   *)
(* asks for one.                                                              *)
HasInOut == \E i \in DOMAIN query.values : query.values[i].dir # "any"
ViewDirs == IF HasInOut THEN <<"in", "out">> ELSE <<"none">>
Passes(flow) ==
    FlattenSeq([i \in 1 .. 2 |->
        IF <<"fwd", "rev">>[i] \in flow.dirs
        THEN [j \in DOMAIN ViewDirs |-> <<<<"fwd", "rev">>[i], ViewDirs[j]>>] ELSE <<>>])

KeyOf(flow, p) == [i \in DOMAIN query.keys |-> Load(query.keys[i], flow, p[1], p[2])]
HasKey(flow, p) == \A i \in DOMAIN query.keys : KeyOf(flow, p)[i] # NoValue

\* The record of the key is found, or created with the values' beginnings.
Record(t, key) ==
    IF key \in DOMAIN t THEN t[key]
    ELSE [i \in DOMAIN query.values |-> Start(query.values[i].agg)]

With(t, key, rec) == [k \in DOMAIN t \cup {key} |-> IF k = key THEN rec ELSE t[k]]

Aggregate(t, flow, p) ==
    IF ~HasKey(flow, p) THEN t
    ELSE LET key == KeyOf(flow, p)
             rec == Record(t, key)
         IN With(t, key, [i \in DOMAIN rec |-> Aggregated(query.values[i], rec[i], flow, p[1], p[2])])

ProcessRecord(w) ==
    /\ grpPc = "aggregate"
    /\ \E flow \in flows :
          /\ flows' = flows \ {flow}
          /\ tabs' = [tabs EXCEPT ![w] = FoldLeft(LAMBDA t, p : Aggregate(t, flow, p), @, Passes(flow))]
    /\ UNCHANGED <<asked, query, given, grouped, grpPc>>

-----------------------------------------------------------------------------
\* A key that is new is copied, one that is found is merged.
Merged(dst, src) ==
    [k \in DOMAIN dst \cup DOMAIN src |->
        IF k \notin DOMAIN dst THEN src[k]
        ELSE IF k \notin DOMAIN src THEN dst[k]
        ELSE [i \in DOMAIN dst[k] |-> MergeValue(query.values[i].agg, dst[k][i], src[k][i])]]

AllMerge ==
    /\ grpPc = "aggregate" /\ flows = {}
    /\ grpPc' = "done"
    /\ grouped' = FoldLeft(Merged, tabs[1], [t \in 1 .. Cardinality(Threads) - 1 |-> tabs[t + 1]])
    /\ UNCHANGED <<asked, query, given, flows, tabs>>

Ended == grpPc # "aggregate" /\ UNCHANGED vars
Next == (\E w \in Threads : ProcessRecord(w)) \/ AllMerge \/ Ended
Spec == Init /\ [][Next]_vars

-----------------------------------------------------------------------------
(* What the user means by a definition, read without its fields.             *)
MeansBoth(def) == \E i \in DOMAIN def.values : def.values[i].dir # ""
Names(name, vd) ==
    LET swapped == CASE name = "ip" /\ vd = "in" -> "dstip" [] name = "ip" /\ vd = "out" -> "srcip"
                     [] name = "ip4" /\ vd = "in" -> "dst4" [] name = "ip4" /\ vd = "out" -> "src4"
                     [] OTHER -> name
    IN IF swapped \in DOMAIN Sources THEN Sources[swapped] ELSE <<swapped>>
Meant(def, flow, fd, vd) ==
    LET there == SelectSeq(Names(def.name, vd), LAMBDA name : flow.el[fd][name] # NoValue)
        value == flow.el[fd][Head(there)]
        size == IF def.time # <<>> THEN def.time[1] * UnitMillis[def.time[2]]
                ELSE IF def.len # <<>> THEN 2 ^ (Elements[Head(there)].bits - def.len[1]) ELSE 1
    IN IF def.name = "direction" THEN (IF fd = "fwd" THEN 1 ELSE 2)
       ELSE IF def.name = "flows" THEN 1
       ELSE IF there = <<>> THEN NoValue ELSE value - (value % size)

\* The ranges are not checked where a number gets its width: a window in
\* milliseconds as an int, a length of a prefix as a byte.
InRange(def) ==
    /\ def.time # <<>> => def.time[1] * UnitMillis[def.time[2]] \in 0 .. IntWide \div 2 - 1
    /\ def.len # <<>> => def.len[1] \in 0 .. LenWide - 1
Known(def) == def.name \in DOMAIN Sources \cup DOMAIN Elements \cup {"direction", "flows"}

\* What is meant by a value in the passes that have the key.
Keys(x) == [i \in DOMAIN asked.keys |-> Meant(asked.keys[i], x[1], x[2][1], x[2][2])]
Passed ==
    LET both == IF MeansBoth(asked) THEN {"in", "out"} ELSE {"none"}
    IN {x \in given \X ({"fwd", "rev"} \X both) :
            x[2][1] \in x[1].dirs /\ NoValue \notin ToSet(Keys(x))}
Of(key, c) ==
    {x \in Passed : Keys(x) = key /\ c.dir \in {"", x[2][2]} /\ Meant(c, x[1], x[2][1], x[2][2]) # NoValue}
Expected(key, c) ==
    LET value(x) == Meant(c, x[1], x[2][1], x[2][2])
    IN CASE c.func \in {"", "sum"} -> MapThenSumSet(value, Of(key, c)) % Wide
         [] c.func = "min" -> Min({value(x) : x \in Of(key, c)} \cup {Wide - 1})
         [] c.func = "max" -> Max({value(x) : x \in Of(key, c)} \cup {0})

(* Whichever thread takes which flow, the merged tables are one grouping of  *)
(* the flows: the keys are those of their passes, and a value is the sum,    *)
(* the least or the largest of what its definition means in the passes of    *)
(* its key and its direction (viewFactory.cpp, aggregator.cpp,               *)
(* aggregatedField.cpp, inOutField.cpp), but for numbers out of range.  A    *)
(* view with an unknown name is refused.                                     *)
GroupingExact ==
    /\ grpPc = "done" /\ (\A def \in ToSet(asked.keys) : InRange(def)) =>
        /\ DOMAIN grouped = {Keys(x) : x \in Passed}
        /\ \A key \in DOMAIN grouped : \A i \in DOMAIN asked.values :
               grouped[key][i] = Expected(key, asked.values[i])
    /\ grpPc \in {"aggregate", "done"} =>
        \A def \in ToSet(asked.keys) \cup ToSet(asked.values) : Known(def)
=============================================================================
