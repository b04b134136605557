------------------------------ MODULE FlowFields ------------------------------
(* fdsdump: the fields of a view, what they load from one direction of a     *)
(* flow as key or value, and how values are aggregated and merged.           *)
EXTENDS Integers, Sequences, SequencesExt

CONSTANTS NoValue,      \* the flow has no such element; or text that is no number
          Wide,         \* 64-bit numbers are modulo this, sums too
          IntWide,      \* and those of the type int modulo this
          LenWide,      \* and lengths of prefixes modulo this
          Elements,     \* type of each element: [kind, bits]
          Sources,      \* elements of each alias: a function of its name
          UnitMillis    \* milliseconds of a second, a minute and an hour

\* A flow is [dirs, el]: the directions to process, and its elements, a
\* function of direction and name.  A field is [kind, of, out, type, by, n]: the
\* elements it is loaded from, of which it takes the first that is there (out:
\* for the direction "out" of the view), rounded down by a window or a subnet of n.
\* A definition by the user is [func, dir, name, time, len]: a function, "in" or
\* "out", which are cut off any name that begins so, a name, and what follows
\* in brackets (a number and a unit) or behind a slash, <<>> if nothing does.
Element(flow, fd, name) == flow.el[fd][name]

FirstOf(flow, fd, names) ==
    LET found == {i \in DOMAIN names : Element(flow, fd, names[i]) # NoValue}
    IN IF found = {} THEN NoValue ELSE Element(flow, fd, names[Min(found)])

RoundedDown(v, n) == IF v = NoValue THEN NoValue ELSE (v \div n) * n

\* vd is the direction of the view, which the value fields ask for.
Load(f, flow, fd, vd) ==
    CASE f.kind \in {"element", "alias"} ->
             RoundedDown(FirstOf(flow, fd, IF vd = "out" THEN f.out ELSE f.of), f.n)
      [] f.kind = "direction" -> IF fd = "rev" THEN 2 ELSE 1
      [] f.kind = "count" -> 1

-----------------------------------------------------------------------------
(* Fields made of the user's definitions; "refused" is an exception, "crash" *)
(* a use of a field that there is none of.                                   *)
Field(kind, of, type) == [kind |-> kind, of |-> of, out |-> of, type |-> type, by |-> "none", n |-> 1]
NoType == [kind |-> "none", bits |-> 0]
NoField == Field("refused", <<>>, NoType)
Fails(f) == f.kind \in {"refused", "crash"}

\* Numbers of one kind have the larger type; addresses of both a third one.
CommonType(names) ==
    LET types == {Elements[names[i]] : i \in DOMAIN names}
        kinds == {t.kind : t \in types}
    IN CASE types = {Elements[names[1]]} -> Elements[names[1]]
         [] kinds \in {{"unsigned"}, {"signed"}} -> CHOOSE t \in types : \A u \in types : u.bits <= t.bits
         [] kinds \subseteq {"ipv4", "ipv6", "ip"} -> [kind |-> "ip", bits |-> 0]
         [] OTHER -> NoType

create_elem_or_alias(name) ==
    CASE name \in DOMAIN Sources /\ CommonType(Sources[name]) # NoType ->
             Field("alias", Sources[name], CommonType(Sources[name]))
      [] name \in DOMAIN Elements \ DOMAIN Sources -> Field("element", <<name>>, Elements[name])
      [] OTHER -> NoField

parse_number(n) == IF n # NoValue /\ n \in -(IntWide \div 2) .. IntWide \div 2 - 1 THEN n ELSE NoValue
Signed(n) == IF 2 * (n % IntWide) < IntWide THEN n % IntWide ELSE (n % IntWide) - IntWide

Rounded(f, by, n) == [f EXCEPT !.by = by, !.n = n]
parse_timewindow(def) ==
    LET inner == create_elem_or_alias(def.name)
        millis == Signed(def.time[1] * UnitMillis[def.time[2]]) % Wide
    IN IF def.time = <<>> \/ Fails(inner) THEN NoField
       ELSE IF parse_number(def.time[1]) = NoValue \/ inner.type.kind # "time" THEN NoField
       ELSE IF millis = 0 THEN NoField ELSE Rounded(inner, "window", millis)

\* A block has as many addresses as the bits behind the prefix can tell apart.
SubnetField(inner, len) ==
    IF Fails(inner) \/ inner.type.kind \notin {"ipv4", "ipv6"} \/ len > inner.type.bits
    THEN NoField ELSE Rounded(inner, "subnet", 2 ^ (inner.type.bits - len))
parse_prefixlen(def) ==
    IF parse_number(def.len[1]) = NoValue THEN NoField
    ELSE SubnetField(create_elem_or_alias(def.name), parse_number(def.len[1]) % LenWide)

create_key_field(def) ==
    IF def.func = "timewindow" THEN parse_timewindow(def)
    ELSE IF def.func # "" THEN NoField
    ELSE IF def.len # <<>> THEN parse_prefixlen(def)
    ELSE IF def.name = "direction" THEN Field("direction", <<>>, [kind |-> "unsigned", bits |-> 8])
    ELSE create_elem_or_alias(def.name)

\* In a view of both directions some keys have another source in each; a subnet
\* of any other address is one of a field that there is not.
InOut == [ip |-> <<"dstip", "srcip">>, ip4 |-> <<"dst4", "src4">>]
InOutOf(f) == {name \in DOMAIN InOut : [f EXCEPT !.by = "none", !.n = 1] = create_elem_or_alias(name)}
create_from(f) ==
    IF f.by = "window" \/ InOutOf(f) = {}
    THEN IF f.by = "subnet" THEN [NoField EXCEPT !.kind = "crash"] ELSE f
    ELSE LET fields == [i \in 1 .. 2 |-> create_elem_or_alias(InOut[CHOOSE name \in InOutOf(f) : TRUE][i])]
         IN IF fields[1].type # fields[2].type THEN NoField
            ELSE [f EXCEPT !.of = fields[1].of, !.out = fields[2].of, !.type = fields[1].type]

IsNumber(f) == f.type.kind \in {"unsigned", "signed"}
Count == Field("count", <<>>, [kind |-> "unsigned", bits |-> 64])
create_value_field(def) ==
    LET f == IF def.name = "flows" THEN Count ELSE create_elem_or_alias(def.name)
        agg == IF def.func = "" THEN "sum" ELSE def.func
        can == \/ agg = "sum" /\ IsNumber(f)
               \/ agg \in {"min", "max"} /\ (IsNumber(f) \/ f.type.kind = "time")
    IN [agg |-> agg, dir |-> IF def.dir = "" THEN "any" ELSE def.dir,
        field |-> IF can THEN f ELSE NoField]

-----------------------------------------------------------------------------
(* Values: [agg, dir, field], aggregated by sum, min or max, for one         *)
(* direction of the view or for any.                                         *)
SumOf(a, b) == (a + b) % Wide
MinOf(a, b) == IF b < a THEN b ELSE a
MaxOf(a, b) == IF b > a THEN b ELSE a
MergeValue(agg, a, b) ==
    CASE agg = "sum" -> SumOf(a, b) [] agg = "min" -> MinOf(a, b) [] agg = "max" -> MaxOf(a, b)

Start(agg) == IF agg = "min" THEN Wide - 1 ELSE 0

Aggregated(c, a, flow, fd, vd) ==
    LET v == Load(c.field, flow, fd, vd)
    IN IF v = NoValue \/ c.dir \notin {"any", vd} THEN a ELSE MergeValue(c.agg, a, v)
=============================================================================
