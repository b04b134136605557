------------------------------ MODULE FlowLister ------------------------------
(* fdsdump, listing: the provider passes the records of the files that the   *)
(* filter selects and the directions of a biflow that are not empty; they    *)
(* are printed as they come, or kept in a storage of limited size, sorted by *)
(* fields that a record may have several times or not at all.                *)
EXTENDS Integers, Sequences, FiniteSets, SequencesExt, FiniteSetsExt

\* A record is [biflow, match, empty, has]: the directions the filter selects,
\* those that are empty, and the values of each field in each direction.
CONSTANTS FileLists,    \* lists of files: [recs: a sequence of records, opens, sound]
          Modes,        \* [autoignore, split, order, limit]; order is a sequence of [field, order]
          FieldType,    \* the type of each field
          IntTop        \* the largest number

VARIABLES input, mode, remains, ready, pos, storage, printed, lstPc
vars == <<input, mode, remains, ready, pos, storage, printed, lstPc>>

-----------------------------------------------------------------------------
\* The order: fields with "asc", "desc" or nothing, which is "desc".  A field of
\* no type, or an alias of fields with several, cannot be sorted by.
Order(name) ==
    CASE name.order \in {"asc", "a"} -> "asc"
      [] name.order \in {"", "desc", "d"} -> "desc"
      [] OTHER -> "invalid"
Determined(name) == FieldType[name.field] # "none" /\ Order(name) # "invalid"
Descends(name) == Order(name) = "desc"

Init ==
    /\ input \in FileLists /\ mode \in Modes
    /\ remains = input /\ ready = <<>> /\ pos = 1
    /\ storage = <<>> /\ printed = <<>>
    /\ lstPc = IF \A i \in DOMAIN mode.order : Determined(mode.order[i]) THEN "read" ELSE "refused"

\* Unordered flows are printed until the limit is reached.
More == mode.order # <<>> \/ mode.limit = 0 \/ Len(printed) < mode.limit

-----------------------------------------------------------------------------
(* FlowProvider: files that cannot be opened are passed over.                *)
PrepareFile ==
    /\ lstPc = "read" /\ More /\ ready = <<>> /\ remains # <<>>
    /\ remains' = Tail(remains)
    /\ ready' = IF Head(remains).opens THEN <<Head(remains)>> ELSE <<>>
    /\ pos' = 1
    /\ UNCHANGED <<input, mode, storage, printed, lstPc>>

\* The directions of a record that remain, in the order they are processed.
IsOn(r, d) == d \in r.match /\ ~(mode.autoignore /\ r.biflow /\ d \in r.empty)
Directions(r) == SelectSeq(IF r.biflow THEN <<"fwd", "rev">> ELSE <<"fwd">>, LAMBDA d : IsOn(r, d))

-----------------------------------------------------------------------------
(* StorageSorter: the value a record is sorted by is the largest or smallest *)
(* of those it has.                                                           *)
UintExtreme(vs, desc) == IF desc THEN Max(ToSet(vs) \cup {0}) ELSE Min(ToSet(vs) \cup {IntTop})
IntExtreme(vs, desc) == IF desc THEN Max(ToSet(vs) \cup {-IntTop - 1}) ELSE Min(ToSet(vs) \cup {IntTop})
BoolExtreme(vs, desc) == IF desc THEN \E i \in DOMAIN vs : vs[i] ELSE \A i \in DOMAIN vs : vs[i]

\* A time is <<seconds, nanoseconds>>; nanoseconds are compared with the seconds
\* of the other.
Exceeds(v, w) == v[1] > w[1] \/ (v[1] = w[1] /\ v[2] > w[1])
Precedes(v, w) == v[1] < w[1] \/ (v[1] = w[1] /\ v[2] < w[1])
Replaces(v, w, desc) == IF desc THEN Exceeds(v, w) ELSE Precedes(v, w)
TimeExtreme(vs, desc) == FoldLeft(LAMBDA m, v : IF Replaces(v, m, desc) THEN v ELSE m, Head(vs), Tail(vs))

\* Strings, bytes and addresses; those are of one length.
Lexical(v, w) ==
    \E k \in 1 .. Min({Len(v) + 1, Len(w)}) :
        SubSeq(v, 1, k - 1) = SubSeq(w, 1, k - 1) /\ (k = Len(v) + 1 \/ v[k] < w[k])
TextExtreme(vs, desc) ==
    FoldLeft(LAMBDA m, v : IF IF desc THEN Lexical(m, v) ELSE Lexical(v, m) THEN v ELSE m, Head(vs), Tail(vs))
IpExtreme(vs, desc) == TextExtreme(vs, desc)

Extreme(name, vs) ==
    CASE FieldType[name.field] = "uint" -> UintExtreme(vs, Descends(name))
      [] FieldType[name.field] = "int" -> IntExtreme(vs, Descends(name))
      [] FieldType[name.field] = "bool" -> BoolExtreme(vs, Descends(name))
      [] FieldType[name.field] = "datetime" -> TimeExtreme(vs, Descends(name))
      [] FieldType[name.field] = "ip" -> IpExtreme(vs, Descends(name))
      [] OTHER -> TextExtreme(vs, Descends(name))

Less(name, v, w) ==
    CASE FieldType[name.field] \in {"uint", "int"} -> v < w
      [] FieldType[name.field] = "bool" -> ~v /\ w
      [] OTHER -> Lexical(v, w)

\* Flows are [r, d].  The first field by which they differ decides; one without
\* the field is behind all that have it.
Values(x, name) == x.r.has[x.d][name.field]
First(name, x, y) ==
    LET a == Values(x, name)
        b == Values(y, name)
    IN IF a = <<>> \/ b = <<>> THEN a # <<>> /\ b = <<>>
       ELSE IF Descends(name) THEN Less(name, Extreme(name, b), Extreme(name, a))
       ELSE Less(name, Extreme(name, a), Extreme(name, b))
Before(x, y) ==
    \E i \in DOMAIN mode.order :
        /\ First(mode.order[i], x, y)
        /\ \A j \in 1 .. i - 1 : ~First(mode.order[j], x, y) /\ ~First(mode.order[j], y, x)

\* The multiset puts a flow behind those equal to it.
Place(s, x) ==
    LET n == Cardinality({i \in DOMAIN s : ~Before(x, s[i])})
    IN SubSeq(s, 1, n) \o <<x>> \o SubSeq(s, n + 1, Len(s))
\* The last flow is dropped for one that is not before it.
MUT_Insert(s, x) == IF mode.limit = 0 \/ Len(s) < mode.limit THEN Place(s, x) ELSE Place(Front(s), x)

Insert(s, x) ==
    IF mode.limit = 0 \/ Len(s) < mode.limit THEN Place(s, x)
    ELSE IF Before(x, Last(s)) THEN Place(Front(s), x) ELSE s

-----------------------------------------------------------------------------
Record == ready[1].recs[pos]
Flows(r) == [i \in DOMAIN Directions(r) |-> [r |-> r, d |-> Directions(r)[i]]]

\* A biflow is printed as two records only if the printer splits it.
Shown(r) == IF mode.split THEN Flows(r) ELSE SubSeq(Flows(r), 1, Min({1, Len(Flows(r))}))
NextRecord ==
    /\ lstPc = "read" /\ More /\ ready # <<>> /\ pos <= Len(ready[1].recs)
    /\ pos' = pos + 1
    /\ IF mode.order = <<>>
       THEN /\ printed' = printed \o Shown(Record) /\ UNCHANGED storage
       ELSE /\ storage' = FoldLeft(Insert, storage, Flows(Record)) /\ UNCHANGED printed
    /\ UNCHANGED <<input, mode, remains, ready, lstPc>>

FileEnds ==
    /\ lstPc = "read" /\ More /\ ready # <<>> /\ pos > Len(ready[1].recs)
    /\ IF ready[1].sound THEN ready' = <<>> /\ UNCHANGED lstPc
       ELSE lstPc' = "failed" /\ UNCHANGED ready
    /\ UNCHANGED <<input, mode, remains, pos, storage, printed>>

Finish ==
    /\ lstPc = "read" /\ (More => ready = <<>> /\ remains = <<>>)
    /\ lstPc' = "done"
    /\ printed' = IF mode.order = <<>> THEN printed ELSE storage
    /\ UNCHANGED <<input, mode, remains, ready, pos, storage>>

Ended == lstPc # "read" /\ UNCHANGED vars
Next == PrepareFile \/ NextRecord \/ FileEnds \/ Finish \/ Ended
Spec == Init /\ [][Next]_vars

-----------------------------------------------------------------------------
\* All that is to be listed, and the order it should have.
AllOf(Show(_)) ==
    FlattenSeq([i \in DOMAIN input |->
        IF input[i].opens
        THEN FlattenSeq([j \in DOMAIN input[i].recs |-> Show(input[i].recs[j])]) ELSE <<>>])
\* Numbers by value, FALSE before TRUE, and the rest as in a dictionary.
Smaller(name, v, w) ==
    CASE FieldType[name.field] \in {"uint", "int"} -> v < w
      [] FieldType[name.field] = "bool" -> w /\ ~v
      [] OTHER -> IsStrictPrefix(v, w)
                  \/ \E k \in DOMAIN v \cap DOMAIN w : v[k] < w[k] /\ \A i \in 1 .. k - 1 : v[i] = w[i]
\* Of the values of a field the one that none of the others goes before.
Key(x, name) ==
    LET vs == ToSet(Values(x, name))
    IN CHOOSE v \in vs : \A w \in vs : ~Smaller(name, IF Descends(name) THEN v ELSE w, IF Descends(name) THEN w ELSE v)
Prefers(name, x, y) ==
    IF Values(x, name) = <<>> \/ Values(y, name) = <<>> THEN Values(y, name) = <<>> /\ Values(x, name) # <<>>
    ELSE IF Descends(name) THEN Smaller(name, Key(y, name), Key(x, name)) ELSE Smaller(name, Key(x, name), Key(y, name))
Preferred(x, y) ==
    LET differ == {i \in DOMAIN mode.order :
                       Prefers(mode.order[i], x, y) \/ Prefers(mode.order[i], y, x)}
    IN differ # {} /\ Prefers(mode.order[Min(differ)], x, y)

\* A record with two datetimes of the same second may be misplaced.
SecondsDiffer ==
    \A x \in ToSet(AllOf(Flows)), k \in DOMAIN mode.order :
        LET vs == Values(x, mode.order[k])
        IN FieldType[mode.order[k].field] = "datetime" =>
               \A i, j \in DOMAIN vs : i # j => vs[i][1] # vs[j][1]
(* Without an order the first selected flows are listed, at most one more    *)
(* than the limit, the other half of a biflow; with one the flows that come  *)
(* first, in order, whatever the files, directions and missing fields        *)
(* (flowProvider.cpp, storageSorted.cpp, storageSorter.cpp, lister.cpp).      *)
ListIsExact ==
    lstPc = "done" =>
        IF mode.order = <<>>
        THEN /\ IsPrefix(printed, AllOf(Shown))
             /\ mode.limit # 0 => Len(printed) <= mode.limit + 1
             /\ mode.limit = 0 \/ Len(printed) < mode.limit => printed = AllOf(Shown)
        ELSE SecondsDiffer =>
             LET all == AllOf(Flows)
                 out == ToSet(all) \ ToSet(printed)
             IN /\ IsInjective(printed) /\ ToSet(printed) \subseteq ToSet(all)
                /\ Len(printed) = IF mode.limit = 0 THEN Len(all) ELSE Min({mode.limit, Len(all)})
                /\ \A i \in DOMAIN printed :
                       /\ \A j \in DOMAIN printed : i < j => ~Preferred(printed[j], printed[i])
                       /\ \A x \in out : ~Preferred(x, printed[i])
=============================================================================
