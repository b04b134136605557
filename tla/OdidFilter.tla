------------------------------ MODULE OdidFilter ------------------------------
(* The ODID filter of an output, odid_range.c: an expression of values and    *)
(* intervals is parsed to nodes, which are sorted, and a search through them  *)
(* stops early.  The output manager sends a message to the outputs whose      *)
(* filter lets its ODID pass.                                                 *)
(*                                                                            *)
(* A token is a number, or [from, to] where either may be left out (Empty);   *)
(* Bad stands for what is no number.  (strtok_r() skips empty tokens.)        *)
EXTENDS Naturals, Sequences, SequencesExt

CONSTANTS
    Top,           \* UINT32_MAX
    Empty, Bad,
    MaxTokens

Odid == 0 .. Top
Number == Odid \cup {Bad}
Token == [val : Number] \cup [from : Number \cup {Empty}, to : Number \cup {Empty}]

VARIABLES
    expr,          \* the tokens up to now
    nodes,         \* range->nodes: [min, max], a value being [v, v]
    rc             \* "parsing", "ok", "format"

vars == <<expr, nodes, rc>>

Init == expr = <<>> /\ nodes = <<>> /\ rc = "parsing"

\* range_parse_value(), range_parse_interval(): a node, or Bad.
Interval(from, to) ==
    IF Bad \in {from, to} \/ (from = Empty /\ to = Empty) THEN Bad
    ELSE LET min == IF from = Empty THEN 0 ELSE from
             max == IF to = Empty THEN Top ELSE to
         IN IF min > max THEN Bad ELSE [min |-> min, max |-> max]
Node(token) ==
    IF "val" \in DOMAIN token THEN Interval(token.val, token.val) ELSE Interval(token.from, token.to)

\* range_node_cmp(): by the minimum, then by the maximum.
MUT_Less(l, r) == l.max < r.max \/ (l.max = r.max /\ l.min < r.min)
Less(l, r) == l.min < r.min \/ (l.min = r.min /\ l.max < r.max)

\* One turn of the loop of ipx_orange_parse(): an error empties the filter.
Parse(token) ==
    /\ rc = "parsing" /\ Len(expr) < MaxTokens
    /\ expr' = Append(expr, token)
    /\ IF Node(token) = Bad
       THEN rc' = "format" /\ nodes' = <<>>
       ELSE nodes' = Append(nodes, Node(token)) /\ UNCHANGED rc

\* The end of it; an empty expression is refused, one of separators only (which
\* has no token either) is not.
Sort ==
    /\ rc = "parsing"
    /\ rc' \in {"ok"} \cup IF expr = <<>> THEN {"format"} ELSE {}
    /\ nodes' = SortSeq(nodes, Less)
    /\ UNCHANGED expr

\* ipx_orange_in(): the first node that has the ODID, or lies behind it.
orange_in(odid) ==
    \E n \in DOMAIN nodes :
        /\ odid \in nodes[n].min .. nodes[n].max
        /\ \A m \in 1 .. n - 1 : odid >= nodes[m].min

\* The choice of the output manager.
Selects(type, odid) ==
    CASE type = "none" -> TRUE
      [] type = "only" -> orange_in(odid)
      [] type = "except" -> ~orange_in(odid)

Done == rc # "parsing" /\ UNCHANGED vars
Next == (\E t \in Token : Parse(t)) \/ Sort \/ Done

Spec == Init /\ [][Next]_vars

-----------------------------------------------------------------------------
\* What an expression stands for.
Denotes(token) ==
    {o \in Odid : IF "val" \in DOMAIN token THEN o = token.val
                  ELSE /\ token.from # Empty => o >= token.from
                       /\ token.to # Empty => o <= token.to}

(* A filter that is accepted lets exactly the ODIDs of its expression pass,   *)
(* in whatever order they are written and however they overlap.               *)
FiltersExact ==
    rc = "ok" => \A o \in Odid :
        LET named == \E t \in DOMAIN expr : o \in Denotes(expr[t])
        IN Selects("only", o) = named /\ Selects("except", o) = ~named
=============================================================================
