-------------------------------- MODULE TopK --------------------------------
(* fdsdump, aggregation with a limit: the threshold algorithm that merges    *)
(* the sorted tables of the threads row by row, until no record below can be *)
(* among the first K.  A record is [key, v]; v holds its aggregated values.  *)
EXTENDS FlowFields, FiniteSets, SequencesExt

CONSTANT Cases      \* views: [aggs: kinds of values, order: fields, k: the limit,
                    \* v: the values a record may have, keys: their keys, numbers]

\* A value is aggregated by agg, "sum", "min" or "max", and counted in one
\* direction only if it is inout.  A field of the order is [f, dir]: the key
\* if f = 0, else value f.
VARIABLES view, tables, row, result, queue, topPc
vars == <<view, tables, row, result, queue, topPc>>

Val(r, o) == IF o.f = 0 THEN r.key ELSE r.v[o.f]

\* ordered_before, compare: the first field of the order that differs decides.
Before(c, a, b) ==
    \E i \in DOMAIN c.order :
       LET x == Val(a, c.order[i])
           y == Val(b, c.order[i])
       IN /\ \A j \in 1 .. i - 1 : Val(a, c.order[j]) = Val(b, c.order[j])
          /\ IF c.order[i].dir = "asc" THEN x < y ELSE x > y

Sorted(c, recs) ==
    {s \in SetToSeqs(recs) : \A i, j \in DOMAIN s : i < j => ~Before(c, s[j], s[i])}
TablesOf(c) ==
    UNION {UNION {Sorted(c, {[key |-> k, v |-> f[k]] : k \in K}) : f \in [K -> c.v]}
             : K \in SUBSET c.keys}

Init ==
    /\ view \in Cases
    /\ tables \in [1 .. 2 -> TablesOf(view)]
    /\ row = 1 /\ result = {} /\ queue = {} /\ topPc = "check"

-----------------------------------------------------------------------------
(* The value fields of two records of a key are merged.                      *)
Merge(c, r, s) ==
    [r EXCEPT !.v = [i \in DOMAIN r.v |-> MergeValue(c.aggs[i].agg, r.v[i], s.v[i])]]

Tables == DOMAIN tables
Reaches(t) == row <= Len(tables[t])
Holding(t, r) == {s \in ToSet(tables[t]) : s.key = r.key}

\* A record new to the result gets the values the other tables have for it.
Collected(t) ==
    FoldSet(LAMBDA s, r : Merge(view, r, s), tables[t][row],
            UNION {Holding(u, tables[t][row]) : u \in {u \in Tables \ {t} : Reaches(u)}})
Worst(recs) == CHOOSE r \in recs : \A s \in recs : ~Before(view, r, s)
Push(q, r) == IF Cardinality(q) < view.k THEN q \cup {r} ELSE (q \cup {r}) \ {Worst(q \cup {r})}
Take(a, t) ==
    IF ~Reaches(t) \/ \E r \in a.result : r.key = tables[t][row].key THEN a
    ELSE [result |-> a.result \cup {Collected(t)}, queue |-> Push(a.queue, Collected(t))]

-----------------------------------------------------------------------------
(* The threshold: the best a record may have that is not above this row.     *)
\* A field of the order that is not one of the aggregated types itself, a key
\* or a value of one direction, is bounded by the best of the rows.
Summed(o) == o.f # 0 /\ view.aggs[o.f].agg = "sum" /\ ~view.aggs[o.f].inout
InRow(o) == [t \in {t \in Tables : Reaches(t)} |-> Val(tables[t][row], o)]
Values(o) == {InRow(o)[t] : t \in DOMAIN InRow(o)}
\* A sum is bounded by the best row only.
MUT_Bound(o) == IF o.dir = "asc" THEN Min(Values(o)) ELSE Max(Values(o))

Bound(o) ==
    IF o.dir = "asc" THEN Min(Values(o))
    ELSE IF Summed(o) THEN FoldSet(LAMBDA t, s : SumOf(s, InRow(o)[t]), 0, DOMAIN InRow(o))
    ELSE Max(Values(o))

\* The threshold precedes the last record of the queue.
Open ==
    \E i \in DOMAIN view.order :
       LET last == Worst(queue)
           b(j) == Bound(view.order[j])
       IN /\ \A j \in 1 .. i - 1 : b(j) = Val(last, view.order[j])
          /\ IF view.order[i].dir = "asc" THEN b(i) < Val(last, view.order[i])
             ELSE b(i) > Val(last, view.order[i])
OutOfItems == \A t \in Tables : ~Reaches(t)
Full == Cardinality(queue) >= view.k

\* check_finish_condition, then out_of_items, then process_row.
Finish ==
    /\ topPc = "check"
    /\ IF Full THEN (OutOfItems => view.order = <<>>) /\ ~Open ELSE OutOfItems
    /\ topPc' = "done"
    /\ UNCHANGED <<view, tables, row, result, queue>>

\* Without a row the threshold is empty, and the comparison reads nothing.
Crash ==
    /\ topPc = "check" /\ Full /\ OutOfItems /\ view.order # <<>>
    /\ topPc' = "crashed"
    /\ UNCHANGED <<view, tables, row, result, queue>>

ProcessRow ==
    /\ topPc = "check" /\ ~OutOfItems
    /\ Full => Open
    /\ LET a == FoldLeft(Take, [result |-> result, queue |-> queue], <<1, 2>>)
       IN result' = a.result /\ queue' = a.queue
    /\ row' = row + 1
    /\ UNCHANGED <<view, tables, topPc>>

Ended == topPc # "check" /\ UNCHANGED vars

Next == Finish \/ Crash \/ ProcessRow \/ Ended
Spec == Init /\ [][Next]_vars

-----------------------------------------------------------------------------
\* All the tables merged, which the result need not hold.
Total(k) ==
    LET other == {t \in Tables : \E s \in ToSet(tables[t]) : s.key = k}
    IN FoldSet(LAMBDA t, a : Merge(view, a, CHOOSE s \in Holding(t, a) : TRUE),
               CHOOSE s \in Holding(Min(other), [key |-> k]) : TRUE, other \ {Min(other)})
Merged == {Total(k) : k \in UNION {{r.key : r \in ToSet(tables[t])} : t \in Tables}}
Printed == {r \in result : Cardinality({s \in result : Before(view, s, r)}) < view.k}

(* If the merge ends early, it ends with the first K: what may be printed    *)
(* has its values of all the threads, and no record that is left out comes   *)
(* before it (thresholdAlgorithm.cpp, perform_topk_merge, print_results).    *)
TopIsExact ==
    topPc = "done" =>
        /\ Printed \subseteq Merged
        /\ Cardinality(result) >= Min({view.k, Cardinality(Merged)})
        /\ \A r \in Printed, s \in Merged : Before(view, s, r) => s \in result
=============================================================================
