------------------------ MODULE ParserSessions_proof ------------------------
(* Proofs about the sessions of a parser, for every number of addresses,     *)
(* sessions, Observation Domain IDs and messages.                            *)
EXTENDS ParserSessions, FiniteSetTheorems, FunctionTheorems, SequenceTheorems, WellFoundedInduction, TLAPS

-----------------------------------------------------------------------------
(* The array of records.                                                     *)

Keyed(r) == r.session \in Session /\ r.odid \in Odid
Same(r, q) == r.session[1] = q.session[1] /\ r.odid = q.odid

\* Sorted, with one record of each session and ODID; each its own context.
Ordered(rs) == \A i, j \in DOMAIN rs : i < j => Precedes(rs[i], rs[j])
OneEach(rs) == \A i, j \in DOMAIN rs : rs[i].ctx = rs[j].ctx => i = j
Table(rs) == rs \in Seq(Rec) /\ Ordered(rs) /\ OneEach(rs)

Kept(rs) == {rs[i].ctx : i \in DOMAIN rs}
Sess(rs) == {rs[i].session : i \in DOMAIN rs}

LEMMA RecFacts == \A r \in Rec : Keyed(r) /\ r.ctx \in Ctx /\ r.blocked \in BOOLEAN
BY DEF Rec, Keyed

LEMMA Compared ==
    ASSUME NEW r, NEW q, Keyed(r), Keyed(q)
    PROVE  /\ ~(Precedes(r, q) /\ Precedes(q, r))
           /\ ~Precedes(r, q) /\ ~Precedes(q, r) <=> Same(r, q)
           /\ Same(r, q) <=> Same(q, r)
           /\ r.session[1] < q.session[1] => Precedes(r, q)
           /\ Precedes(r, q) => r.session[1] <= q.session[1]
           /\ r.session[1] \in Nat /\ r.odid \in Nat
<1>1. r.session[1] \in Nat /\ q.session[1] \in Nat /\ r.odid \in Nat /\ q.odid \in Nat
  BY BoundsAssumption DEF Keyed, Session
<1>2. QED
  BY <1>1 DEF Precedes, Same

LEMMA Chained ==
    ASSUME NEW r, NEW q, NEW t, Keyed(r), Keyed(q), Keyed(t)
    PROVE  /\ Precedes(r, q) /\ Precedes(q, t) => Precedes(r, t)
           /\ Same(r, q) /\ Precedes(q, t) => Precedes(r, t)
           /\ Precedes(r, q) /\ Same(q, t) => Precedes(r, t)
           /\ ~Precedes(q, r) /\ ~Precedes(t, q) => ~Precedes(t, r)
<1>1. /\ r.session[1] \in Nat /\ q.session[1] \in Nat /\ r.odid \in Nat /\ q.odid \in Nat
      /\ t.session[1] \in Nat /\ t.odid \in Nat
  BY BoundsAssumption DEF Keyed, Session
<1>2. QED
  BY <1>1 DEF Precedes, Same

LEMMA LeastNumber == ASSUME NEW S \in SUBSET Nat, S # {} PROVE \E k \in S : \A j \in S : k <= j
<1>1. PICK k \in S : \A j \in S : <<j, k>> \notin OpToRel(<, Nat)
  BY NatLessThanWellFounded, WFMin
<1>2. \A j \in S : ~(j < k)
  BY <1>1 DEF OpToRel
<1>3. QED
  BY <1>2

\* The binary search: what one call of it returns, by what others return.
Ranges(rs) == (1 .. Len(rs) + 1) \X (0 .. Len(rs))
Step(rs, key, search, range) ==
    LET lo == range[1]
        hi == range[2]
        mid == (lo + hi) \div 2
    IN  IF lo > hi THEN 0
        ELSE IF Precedes(key, rs[mid]) THEN search[<<lo, mid - 1>>]
        ELSE IF Precedes(rs[mid], key) THEN search[<<mid + 1, hi>>] ELSE mid
Solves(f, rs, key) == \A range \in Ranges(rs) : f[range] = Step(rs, key, f, range)

\* What it is to return.
Hits(rs, key, lo, hi) == {k \in lo .. hi : Same(rs[k], key)}
Answer(rs, key, lo, hi) == IF Hits(rs, key, lo, hi) = {} THEN 0 ELSE CHOOSE k \in Hits(rs, key, lo, hi) : TRUE

LEMMA Middle ==
    ASSUME NEW n \in Nat, NEW lo \in 1 .. n + 1, NEW hi \in 0 .. n, ~(lo > hi)
    PROVE  /\ (lo + hi) \div 2 \in lo .. hi /\ (lo + hi) \div 2 \in 1 .. n
           /\ (lo + hi) \div 2 - 1 \in 0 .. n /\ (lo + hi) \div 2 + 1 \in 1 .. n + 1
OBVIOUS

LEMMA AnswerStep ==
    ASSUME NEW rs \in Seq(Rec), Ordered(rs), NEW key, Keyed(key),
           NEW lo \in 1 .. Len(rs) + 1, NEW hi \in 0 .. Len(rs), NEW g,
           \A range \in Ranges(rs) : g[range] = Answer(rs, key, range[1], range[2])
    PROVE  Answer(rs, key, lo, hi) = Step(rs, key, g, <<lo, hi>>)
<1> DEFINE mid == (lo + hi) \div 2
<1>1. CASE lo > hi
  <2>1. Hits(rs, key, lo, hi) = {}
    BY <1>1 DEF Hits
  <2>2. QED
    BY <1>1, <2>1 DEF Answer, Step
<1>2. CASE ~(lo > hi)
  <2>1. /\ mid \in lo .. hi /\ mid \in 1 .. Len(rs) /\ mid - 1 \in 0 .. Len(rs) /\ mid + 1 \in 1 .. Len(rs) + 1
        /\ mid \in Nat /\ Len(rs) \in Nat /\ lo \in Nat /\ hi \in Nat
    BY <1>2, Middle
  <2>2. \A k \in lo .. hi : k \in DOMAIN rs /\ rs[k] \in Rec /\ Keyed(rs[k])
    BY RecFacts
  <2>3. Step(rs, key, g, <<lo, hi>>) = IF Precedes(key, rs[mid]) THEN Answer(rs, key, lo, mid - 1)
                                       ELSE IF Precedes(rs[mid], key) THEN Answer(rs, key, mid + 1, hi) ELSE mid
    <3>1. Step(rs, key, g, <<lo, hi>>) = IF Precedes(key, rs[mid]) THEN g[<<lo, mid - 1>>]
                                         ELSE IF Precedes(rs[mid], key) THEN g[<<mid + 1, hi>>] ELSE mid
      BY <1>2 DEF Step
    <3>2. <<lo, mid - 1>> \in Ranges(rs) /\ <<mid + 1, hi>> \in Ranges(rs)
      BY <2>1 DEF Ranges
    <3>3. g[<<lo, mid - 1>>] = Answer(rs, key, lo, mid - 1) /\ g[<<mid + 1, hi>>] = Answer(rs, key, mid + 1, hi)
      BY <3>2
    <3>4. QED
      BY <3>1, <3>3
  <2> HIDE DEF mid
  <2>4. CASE Precedes(key, rs[mid])
    <3>1. \A k \in mid .. hi : ~Same(rs[k], key)
      <4>1. SUFFICES ASSUME NEW k \in mid .. hi PROVE Precedes(key, rs[k])
        BY <2>1, <2>2, Compared
      <4>2. k = mid \/ Precedes(rs[mid], rs[k])
        BY <2>1, <2>2 DEF Ordered
      <4>3. QED
        BY <2>1, <2>2, <2>4, <4>2, Chained
    <3>2. Hits(rs, key, lo, hi) = Hits(rs, key, lo, mid - 1)
      BY <2>1, <3>1 DEF Hits
    <3>3. QED
      BY <2>1, <2>3, <2>4, <3>2 DEF Answer
  <2>5. CASE ~Precedes(key, rs[mid]) /\ Precedes(rs[mid], key)
    <3>1. \A k \in lo .. mid : ~Same(rs[k], key)
      <4>1. SUFFICES ASSUME NEW k \in lo .. mid PROVE Precedes(rs[k], key)
        BY <2>1, <2>2, Compared
      <4>2. k = mid \/ Precedes(rs[k], rs[mid])
        BY <2>1, <2>2 DEF Ordered
      <4>3. QED
        BY <2>1, <2>2, <2>5, <4>2, Chained
    <3>2. Hits(rs, key, lo, hi) = Hits(rs, key, mid + 1, hi)
      BY <2>1, <3>1 DEF Hits
    <3>3. QED
      BY <2>1, <2>3, <2>5, <3>2 DEF Answer
  <2>6. CASE ~Precedes(key, rs[mid]) /\ ~Precedes(rs[mid], key)
    <3>1. Same(rs[mid], key) /\ Same(key, rs[mid])
      BY <2>1, <2>2, <2>6, Compared
    <3>2. \A k \in lo .. hi : Same(rs[k], key) => k = mid
      <4>1. SUFFICES ASSUME NEW k \in lo .. hi, Same(rs[k], key), k # mid PROVE FALSE
        OBVIOUS
      <4>2. Precedes(rs[k], rs[mid]) \/ Precedes(rs[mid], rs[k])
        BY <2>1, <2>2, <4>1 DEF Ordered
      <4>3. Precedes(rs[k], key) \/ Precedes(key, rs[k])
        BY <2>1, <2>2, <3>1, <4>2, Chained
      <4>4. QED
        BY <2>1, <2>2, <4>1, <4>3, Compared
    <3>3. Hits(rs, key, lo, hi) = {mid}
      BY <2>1, <3>1, <3>2 DEF Hits
    <3>4. QED
      BY <2>1, <2>3, <2>6, <3>3 DEF Answer
  <2>7. QED
    BY <2>4, <2>5, <2>6
<1>3. QED
  BY <1>1, <1>2

\* Whatever solves the recursion gives the answers.
LEMMA SearchEnds ==
    ASSUME NEW rs \in Seq(Rec), NEW key, NEW f, NEW g, Solves(f, rs, key), Solves(g, rs, key)
    PROVE  \A l \in 1 .. Len(rs) + 1, h \in 0 .. Len(rs) : f[<<l, h>>] = g[<<l, h>>]
<1> DEFINE Lo == 1 .. Len(rs) + 1
           Hi == 0 .. Len(rs)
           Wrong(m) == \E l \in Lo, h \in Hi : l + m = h /\ f[<<l, h>>] # g[<<l, h>>]
           S == {m \in Nat : Wrong(m)}
<1>0. Len(rs) \in Nat /\ \A l \in Lo, h \in Hi : <<l, h>> \in Ranges(rs) /\ l \in Nat /\ h \in Nat
  BY DEF Ranges
<1>1. \A l \in Lo, h \in Hi : l > h => f[<<l, h>>] = g[<<l, h>>]
  <2>1. SUFFICES ASSUME NEW l \in Lo, NEW h \in Hi, l > h PROVE f[<<l, h>>] = 0 /\ g[<<l, h>>] = 0
    OBVIOUS
  <2>2. Step(rs, key, f, <<l, h>>) = 0 /\ Step(rs, key, g, <<l, h>>) = 0
    BY <2>1 DEF Step
  <2>3. QED
    BY <1>0, <2>2 DEF Solves
<1>2. S = {}
  <2>1. SUFFICES ASSUME S # {} PROVE FALSE
    OBVIOUS
  <2>2. PICK m \in S : \A j \in S : m <= j
    BY <2>1, LeastNumber
  <2>3. PICK l \in Lo, h \in Hi : l + m = h /\ f[<<l, h>>] # g[<<l, h>>] /\ m \in Nat
    BY <2>2
  <2> DEFINE mid == (l + h) \div 2
  <2>4. /\ mid \in l .. h /\ mid - 1 \in Hi /\ mid + 1 \in Lo /\ mid \in Nat /\ l \in Nat /\ h \in Nat /\ ~(l > h)
    <3>1. ~(l > h)
      BY <1>0, <2>3
    <3>2. QED
      BY <1>0, <3>1, Middle
  <2>5. /\ f[<<l, h>>] = Step(rs, key, f, <<l, h>>)
        /\ g[<<l, h>>] = Step(rs, key, g, <<l, h>>)
    BY <1>0 DEF Solves
  <2>6. /\ Step(rs, key, f, <<l, h>>) = IF Precedes(key, rs[mid]) THEN f[<<l, mid - 1>>]
                                        ELSE IF Precedes(rs[mid], key) THEN f[<<mid + 1, h>>] ELSE mid
        /\ Step(rs, key, g, <<l, h>>) = IF Precedes(key, rs[mid]) THEN g[<<l, mid - 1>>]
                                        ELSE IF Precedes(rs[mid], key) THEN g[<<mid + 1, h>>] ELSE mid
    BY <2>4 DEF Step
  <2>10. l + m = h /\ m \in Nat
    BY <2>3
  <2> HIDE DEF mid
  <2>7. f[<<l, mid - 1>>] = g[<<l, mid - 1>>]
    <3>1. CASE l > mid - 1
      BY <1>1, <2>4, <3>1
    <3>2. CASE ~(l > mid - 1)
      <4>1. mid - 1 - l \in Nat /\ mid - 1 - l < m /\ l + (mid - 1 - l) = mid - 1
        BY <2>4, <2>10, <3>2
      <4>2. mid - 1 - l \notin S
        <5> HIDE DEF S
        <5>1. QED
          BY <2>2, <2>10, <4>1
      <4>3. ~Wrong(mid - 1 - l)
        BY <4>1, <4>2
      <4>4. QED
        BY <2>4, <4>1, <4>3
    <3>3. QED
      BY <3>1, <3>2
  <2>8. f[<<mid + 1, h>>] = g[<<mid + 1, h>>]
    <3>1. CASE mid + 1 > h
      BY <1>1, <2>4, <3>1
    <3>2. CASE ~(mid + 1 > h)
      <4>1. h - (mid + 1) \in Nat /\ h - (mid + 1) < m /\ (mid + 1) + (h - (mid + 1)) = h
        <5>1. h - (mid + 1) \in Nat /\ (mid + 1) + (h - (mid + 1)) = h
          BY <2>4, <3>2
        <5>2. l <= mid
          BY <2>4
        <5>3. QED
          BY <2>4, <2>10, <5>1, <5>2
      <4>2. h - (mid + 1) \notin S
        <5> HIDE DEF S
        <5>1. QED
          BY <2>2, <2>10, <4>1
      <4>3. ~Wrong(h - (mid + 1))
        BY <4>1, <4>2
      <4>4. QED
        BY <2>4, <4>1, <4>3
    <3>3. QED
      BY <3>1, <3>2
  <2>9. QED
    BY <2>3, <2>5, <2>6, <2>7, <2>8
<1>3. ASSUME NEW l \in Lo, NEW h \in Hi PROVE f[<<l, h>>] = g[<<l, h>>]
  <2>1. CASE l > h
    BY <1>1, <2>1
  <2>2. CASE ~(l > h)
    <3>1. h - l \in Nat /\ l + (h - l) = h
      BY <1>0, <2>2
    <3>2. ~Wrong(h - l)
      BY <1>2, <3>1
    <3>3. QED
      BY <3>1, <3>2
  <2>3. QED
    BY <2>1, <2>2
<1>4. QED
  BY <1>3

\* The binary search in a sorted array finds the record, if there is one.
LEMMA FoundFacts ==
    ASSUME NEW rs \in Seq(Rec), Ordered(rs), NEW key, Keyed(key)
    PROVE  /\ Found(rs, key) = 0 => \A k \in DOMAIN rs : ~Same(rs[k], key)
           /\ Found(rs, key) # 0 => Found(rs, key) \in DOMAIN rs /\ Same(rs[Found(rs, key)], key)
<1> DEFINE Is(f) == f = [range \in Ranges(rs) |-> Step(rs, key, f, range)]
           f == CHOOSE f : Is(f)
           g == [range \in Ranges(rs) |-> Answer(rs, key, range[1], range[2])]
<1>1. Found(rs, key) = f[<<1, Len(rs)>>]
  BY DEF Found, Step, Ranges
<1>2. \A range \in Ranges(rs) : g[range] = Answer(rs, key, range[1], range[2])
  OBVIOUS
<1>3. \A range \in Ranges(rs) : Answer(rs, key, range[1], range[2]) = Step(rs, key, g, range)
  <2> HIDE DEF g
  <2>1. SUFFICES ASSUME NEW range \in Ranges(rs)
                 PROVE  Answer(rs, key, range[1], range[2]) = Step(rs, key, g, range)
    OBVIOUS
  <2>2. range = <<range[1], range[2]>> /\ range[1] \in 1 .. Len(rs) + 1 /\ range[2] \in 0 .. Len(rs)
    BY DEF Ranges
  <2>3. Answer(rs, key, range[1], range[2]) = Step(rs, key, g, <<range[1], range[2]>>)
    BY <1>2, <2>2, AnswerStep
  <2>4. QED
    BY <2>2, <2>3
<1>4. Is(g)
  <2>1. [range \in Ranges(rs) |-> Answer(rs, key, range[1], range[2])] = [range \in Ranges(rs) |-> Step(rs, key, g, range)]
    <3> HIDE DEF g
    <3>1. QED
      BY <1>3
  <2>2. QED
    BY <2>1
<1> HIDE DEF g
<1>5. Is(f)
  <2> HIDE DEF Is
  <2>1. QED
    BY <1>4
<1> HIDE DEF f
<1>6. Solves(f, rs, key)
  BY <1>5 DEF Solves
<1>7. /\ 1 \in 1 .. Len(rs) + 1 /\ Len(rs) \in 0 .. Len(rs) /\ Len(rs) \in Nat /\ DOMAIN rs = 1 .. Len(rs)
      /\ <<1, Len(rs)>> \in Ranges(rs)
  BY DEF Ranges
<1>8. f[<<1, Len(rs)>>] = Answer(rs, key, 1, Len(rs))
  <2>1. Solves(g, rs, key)
    BY <1>2, <1>3 DEF Solves
  <2> HIDE DEF Is
  <2>2. f[<<1, Len(rs)>>] = g[<<1, Len(rs)>>]
    BY <1>6, <1>7, <2>1, SearchEnds
  <2>3. QED
    BY <1>2, <1>7, <2>2
<1>9. Answer(rs, key, 1, Len(rs)) = 0 => Hits(rs, key, 1, Len(rs)) = {}
  <2>1. 0 \notin Hits(rs, key, 1, Len(rs))
    BY <1>7 DEF Hits
  <2>2. QED
    BY <2>1 DEF Answer
<1>10. Answer(rs, key, 1, Len(rs)) # 0 => Answer(rs, key, 1, Len(rs)) \in Hits(rs, key, 1, Len(rs))
  BY DEF Answer
<1>11. QED
  BY <1>1, <1>7, <1>8, <1>9, <1>10 DEF Hits


-----------------------------------------------------------------------------
(* A new record.                                                             *)

LEMMA Irreflexive ==
    ASSUME NEW rs \in Seq(Rec), Ordered(rs)
    PROVE  \A i, j \in DOMAIN rs : Same(rs[i], rs[j]) => i = j
<1>1. SUFFICES ASSUME NEW i \in DOMAIN rs, NEW j \in DOMAIN rs, Same(rs[i], rs[j]), i # j PROVE FALSE
  OBVIOUS
<1>2. Keyed(rs[i]) /\ Keyed(rs[j]) /\ i \in Nat /\ j \in Nat
  BY RecFacts
<1>3. Precedes(rs[i], rs[j]) \/ Precedes(rs[j], rs[i])
  BY <1>1, <1>2 DEF Ordered
<1>4. QED
  BY <1>1, <1>2, <1>3, Compared

\* What Sorted chooses exists: the record is inserted before the ones it precedes.
LEMMA Insertion ==
    ASSUME NEW rs \in Seq(Rec), Ordered(rs), NEW r \in Rec, \A k \in DOMAIN rs : ~Same(rs[k], r)
    PROVE  \E qs \in [1 .. Len(rs) + 1 -> ToSet(rs) \cup {r}] :
               /\ ToSet(qs) = ToSet(rs) \cup {r}
               /\ \A i, j \in DOMAIN qs : i < j => ~Precedes(qs[j], qs[i])
<1> DEFINE n == Len(rs)
           S == {k \in 1 .. n + 1 : k = n + 1 \/ Precedes(r, rs[k])}
<1>0. n \in Nat /\ DOMAIN rs = 1 .. n /\ \A k \in 1 .. n : rs[k] \in Rec /\ Keyed(rs[k]) /\ rs[k] \in ToSet(rs)
  BY RecFacts DEF ToSet
<1>1. Keyed(r)
  BY RecFacts
<1> HIDE DEF n
<1>2. PICK p \in 1 .. n + 1 : (p = n + 1 \/ Precedes(r, rs[p])) /\ \A k \in 1 .. p - 1 : ~Precedes(r, rs[k])
  <2>1. S \subseteq Nat /\ n + 1 \in S
    BY <1>0
  <2>2. PICK p \in S : \A j \in S : p <= j
    BY <2>1, LeastNumber
  <2>3. p \in 1 .. n + 1 /\ (p = n + 1 \/ Precedes(r, rs[p]))
    BY <2>2
  <2>4. \A k \in 1 .. p - 1 : k \in 1 .. n + 1 /\ k # n + 1 /\ ~(p <= k)
    BY <1>0, <2>3
  <2>5. \A k \in 1 .. p - 1 : ~Precedes(r, rs[k])
    <3> HIDE DEF S
    <3>1. SUFFICES ASSUME NEW k \in 1 .. p - 1, Precedes(r, rs[k]) PROVE FALSE
      OBVIOUS
    <3>2. k \in S
      BY <2>4, <3>1 DEF S
    <3>3. QED
      BY <2>2, <2>4, <3>2
  <2>6. QED
    BY <2>3, <2>5
<1>3. \A k \in 1 .. p - 1 : k \in 1 .. n /\ Precedes(rs[k], r)
  <2>1. SUFFICES ASSUME NEW k \in 1 .. p - 1 PROVE k \in 1 .. n /\ Precedes(rs[k], r)
    OBVIOUS
  <2>2. k \in 1 .. n
    BY <1>0
  <2>3. ~Precedes(r, rs[k]) /\ ~Same(rs[k], r)
    BY <1>0, <1>2, <2>2
  <2>4. QED
    BY <1>0, <1>1, <2>2, <2>3, Compared
<1>4. \A k \in p .. n : k \in 1 .. n /\ Precedes(r, rs[k])
  <2>1. SUFFICES ASSUME NEW k \in p .. n PROVE k \in 1 .. n /\ Precedes(r, rs[k])
    OBVIOUS
  <2>2. k \in 1 .. n /\ p \in 1 .. n /\ p # n + 1
    BY <1>0
  <2>3. k = p \/ Precedes(rs[p], rs[k])
    BY <1>0, <2>2 DEF Ordered
  <2>4. QED
    BY <1>0, <1>1, <1>2, <2>2, <2>3, Chained
<1> DEFINE qs == [i \in 1 .. n + 1 |-> IF i < p THEN rs[i] ELSE IF i = p THEN r ELSE rs[i - 1]]
<1>5. \A i \in 1 .. n + 1 :
        \/ i < p /\ i \in 1 .. p - 1 /\ qs[i] = rs[i]
        \/ i = p /\ qs[i] = r
        \/ i > p /\ i - 1 \in p .. n /\ qs[i] = rs[i - 1]
  BY <1>0
<1>6. /\ \A k \in 1 .. p - 1 : k \in 1 .. n + 1 /\ qs[k] = rs[k]
      /\ \A k \in p .. n : k + 1 \in 1 .. n + 1 /\ qs[k + 1] = rs[k]
      /\ p \in 1 .. n + 1 /\ qs[p] = r
  BY <1>0
<1>7. DOMAIN qs = 1 .. n + 1
  OBVIOUS
<1>8. qs \in [1 .. n + 1 -> ToSet(rs) \cup {r}]
  <2>1. \A i \in 1 .. n + 1 : qs[i] \in ToSet(rs) \cup {r}
    <3> HIDE DEF qs
    <3>1. QED
      BY <1>0, <1>3, <1>4, <1>5
  <2>2. QED
    BY <2>1
<1> HIDE DEF qs
<1>9. ToSet(qs) = ToSet(rs) \cup {r}
  <2>1. \A i \in 1 .. n + 1 : qs[i] \in ToSet(rs) \cup {r}
    BY <1>0, <1>3, <1>4, <1>5
  <2>2. \A k \in 1 .. n : \E i \in 1 .. n + 1 : qs[i] = rs[k]
    <3>1. \A k \in 1 .. n : k \in 1 .. p - 1 \/ k \in p .. n
      BY <1>0
    <3>2. QED
      BY <1>6, <3>1
  <2>3. \A x \in ToSet(rs) \cup {r} : \E i \in 1 .. n + 1 : qs[i] = x
    <3>1. \A x \in ToSet(rs) : \E k \in 1 .. n : x = rs[k]
      BY <1>0 DEF ToSet
    <3>2. QED
      BY <1>6, <2>2, <3>1
  <2>4. \A x : x \in ToSet(qs) <=> \E i \in 1 .. n + 1 : qs[i] = x
    BY <1>7 DEF ToSet
  <2>5. QED
    BY <2>1, <2>3, <2>4
<1>10. ASSUME NEW i \in DOMAIN qs, NEW j \in DOMAIN qs, i < j PROVE ~Precedes(qs[j], qs[i])
  <2>1. Keyed(qs[i]) /\ Keyed(qs[j])
    BY <1>0, <1>1, <1>3, <1>4, <1>5, <1>7
  <2>2. SUFFICES Precedes(qs[i], qs[j])
    BY <2>1, Compared
  <2>3. i \in 1 .. n + 1 /\ j \in 1 .. n + 1 /\ i \in Nat /\ j \in Nat
    BY <1>0, <1>7
  <2>4. CASE i = p
    <3>1. qs[i] = r /\ j - 1 \in p .. n /\ qs[j] = rs[j - 1]
      BY <1>5, <1>10, <2>3, <2>4
    <3>2. QED
      BY <1>4, <3>1
  <2>5. CASE j = p
    <3>1. qs[j] = r /\ i \in 1 .. p - 1 /\ qs[i] = rs[i]
      BY <1>5, <1>10, <2>3, <2>5
    <3>2. QED
      BY <1>3, <3>1
  <2>6. CASE i # p /\ j # p
    <3>1. PICK a \in 1 .. n : qs[i] = rs[a] /\ ((i < p /\ a = i) \/ (i > p /\ a = i - 1))
      BY <1>3, <1>4, <1>5, <2>3, <2>6
    <3>2. PICK b \in 1 .. n : qs[j] = rs[b] /\ ((j < p /\ b = j) \/ (j > p /\ b = j - 1))
      BY <1>3, <1>4, <1>5, <2>3, <2>6
    <3>3. a < b
      BY <1>10, <2>3, <3>1, <3>2

    <3>4. QED
      BY <1>0, <3>1, <3>2, <3>3 DEF Ordered
  <2>7. QED
    BY <2>4, <2>5, <2>6
<1>11. QED
  BY <1>8, <1>9, <1>10 DEF n

LEMMA SortedFacts ==
    ASSUME NEW rs, Table(rs), NEW r \in Rec, \A k \in DOMAIN rs : ~Same(rs[k], r), r.ctx \notin Kept(rs)
    PROVE  LET qs == Sorted(Append(rs, r))
           IN  /\ Table(qs) /\ Len(qs) = Len(rs) + 1
               /\ Kept(qs) = Kept(rs) \cup {r.ctx} /\ Sess(qs) = Sess(rs) \cup {r.session}
               /\ \E k \in DOMAIN qs : qs[k] = r
<1> DEFINE n == Len(rs)
           as == Append(rs, r)
           qs == Sorted(as)
           All == ToSet(rs) \cup {r}
           Fits(ps) == ToSet(ps) = All /\ \A i, j \in DOMAIN ps : i < j => ~Precedes(ps[j], ps[i])
<1>1. rs \in Seq(Rec) /\ Ordered(rs) /\ OneEach(rs)
  BY DEF Table
<1>2. /\ n \in Nat /\ DOMAIN rs = 1 .. n /\ \A k \in 1 .. n : rs[k] \in Rec
      /\ DOMAIN as = 1 .. n + 1 /\ \A k \in 1 .. n : as[k] = rs[k]
      /\ as[n + 1] = r
  BY <1>1
<1> HIDE DEF n, as
<1>3. ToSet(as) = All
  <2>1. \A x : x \in ToSet(as) <=> \E k \in 1 .. n + 1 : x = as[k]
    BY <1>2 DEF ToSet
  <2>2. \A x : x \in ToSet(rs) <=> \E k \in 1 .. n : x = rs[k]
    BY <1>2 DEF ToSet
  <2>3. \A k \in 1 .. n + 1 : k \in 1 .. n \/ k = n + 1
    BY <1>2
  <2>4. n + 1 \in 1 .. n + 1 /\ \A k \in 1 .. n : k \in 1 .. n + 1
    BY <1>2
  <2>5. QED
    BY <1>2, <2>1, <2>2, <2>3, <2>4, ZenonT(40)
<1>4. qs \in [1 .. n + 1 -> All] /\ Fits(qs)
  <2>1. \E ps \in [1 .. n + 1 -> All] : Fits(ps)
    BY <1>1, Insertion DEF n
  <2>2. qs = CHOOSE ps \in [1 .. n + 1 -> All] : Fits(ps)
    BY <1>2, <1>3 DEF Sorted
  <2> HIDE DEF Fits, qs, All
  <2>3. QED
    BY <2>1, <2>2
<1> HIDE DEF qs
\* Those who differ in their place differ.
<1>5. \A x, y \in All : x \in Rec /\ Keyed(x) /\ (Same(x, y) \/ x.ctx = y.ctx => x = y)
  <2>1. \A x \in All : x = r \/ \E k \in 1 .. n : x = rs[k]
    BY <1>2 DEF ToSet
  <2>2. \A x \in All : x \in Rec /\ Keyed(x)
    BY <1>2, <2>1, RecFacts
  <2>3. \A k \in 1 .. n : ~Same(rs[k], r) /\ ~Same(r, rs[k]) /\ rs[k].ctx # r.ctx
    <3>1. \A k \in 1 .. n : ~Same(rs[k], r) /\ rs[k].ctx # r.ctx
      BY <1>2 DEF Kept
    <3>2. QED
      BY <1>2, <3>1, RecFacts, Compared
  <2>4. \A k, l \in 1 .. n : Same(rs[k], rs[l]) \/ rs[k].ctx = rs[l].ctx => k = l
    BY <1>1, <1>2, Irreflexive DEF OneEach
  <2>5. SUFFICES ASSUME NEW x \in All, NEW y \in All, Same(x, y) \/ x.ctx = y.ctx PROVE x = y
    BY <2>2
  <2> HIDE DEF All
  <2>6. QED
    BY <2>1, <2>3, <2>4, <2>5
<1>6. \A i, j \in 1 .. n + 1 : qs[i] = qs[j] => i = j
  <2>1. \A i, j \in 1 .. n + 1 : as[i] = as[j] => i = j
    <3>1. \A i, j \in 1 .. n : rs[i] = rs[j] => i = j
      BY <1>1, <1>2 DEF OneEach
    <3>2. \A i \in 1 .. n : rs[i] # r
      BY <1>2 DEF Kept
    <3>3. \A k \in 1 .. n + 1 : k \in 1 .. n \/ k = n + 1
      BY <1>2
    <3>4. QED
      BY <1>2, <3>1, <3>2, <3>3
  <2>2. as \in Bijection(1 .. n + 1, All)
    <3>1. \A x : x \in ToSet(as) <=> \E k \in 1 .. n + 1 : x = as[k]
      BY <1>2 DEF ToSet
    <3>2. as \in [1 .. n + 1 -> All]
      <4>1. \A k \in 1 .. n + 1 : as[k] \in All
        BY <1>3, <3>1
      <4>2. as \in Seq(Rec)
        BY <1>1 DEF as
      <4>3. as \in [1 .. Len(as) -> Rec]
        BY <4>2, LenProperties

      <4>4. QED
        BY <1>2, <4>1, <4>3
    <3>3. \A x \in All : \E k \in 1 .. n + 1 : as[k] = x
      BY <1>3, <3>1
    <3> HIDE DEF All
    <3>4. QED
      BY <2>1, <3>2, <3>3, Fun_IsBij
  <2>3. IsFiniteSet(1 .. n + 1) /\ Cardinality(1 .. n + 1) = Cardinality(All)
    <3>1. IsFiniteSet(1 .. n + 1)
      <4>1. 1 \in Int /\ n + 1 \in Int
        BY <1>2
      <4>2. QED
        BY <4>1, FS_Interval
    <3>2. ExistsBijection(1 .. n + 1, All)
      BY <2>2 DEF ExistsBijection
    <3> HIDE DEF All
    <3>3. QED
      BY <3>1, <3>2, FS_Bijection
  <2>4. qs \in Surjection(1 .. n + 1, All)
    <3>1. \A x : x \in ToSet(qs) <=> \E k \in 1 .. n + 1 : x = qs[k]
      BY <1>4 DEF ToSet
    <3>2. \A x \in All : \E k \in 1 .. n + 1 : qs[k] = x
      BY <1>4, <3>1
    <3> HIDE DEF All, Fits
    <3>3. QED
      BY <1>4, <3>2, Fun_IsSurj
  <2>5. qs \in Injection(1 .. n + 1, All)
    <3> HIDE DEF All
    <3>1. QED
      BY <2>3, <2>4, FS_SurjSameCardinalityImpliesInj
  <2>6. QED
    BY <2>5 DEF Injection, IsInjective
<1>7. qs \in Seq(Rec) /\ Len(qs) = n + 1 /\ DOMAIN qs = 1 .. n + 1
  <2>1. qs \in [1 .. n + 1 -> Rec]
    BY <1>4, <1>5
  <2>2. QED
    BY <1>2, <2>1
<1>8. Ordered(qs)
  <2>1. SUFFICES ASSUME NEW i \in 1 .. n + 1, NEW j \in 1 .. n + 1, i < j PROVE Precedes(qs[i], qs[j])
    BY <1>7 DEF Ordered
  <2>2. qs[i] \in All /\ qs[j] \in All /\ qs[i] # qs[j] /\ ~Precedes(qs[j], qs[i])
    BY <1>2, <1>4, <1>6, <2>1
  <2>3. ~Same(qs[i], qs[j]) /\ Keyed(qs[i]) /\ Keyed(qs[j])
    BY <1>5, <2>2
  <2>4. QED
    BY <2>2, <2>3, Compared
<1>9. OneEach(qs)
  <2>1. \A i \in 1 .. n + 1 : qs[i] \in All
    BY <1>4
  <2> HIDE DEF All
  <2>2. QED
    BY <1>5, <1>6, <1>7, <2>1 DEF OneEach
<1>10. Kept(qs) = Kept(rs) \cup {r.ctx} /\ Sess(qs) = Sess(rs) \cup {r.session}
  <2>1. \A x : x \in ToSet(qs) <=> \E k \in 1 .. n + 1 : x = qs[k]
    BY <1>7 DEF ToSet
  <2>2. \A x : x \in ToSet(rs) <=> \E k \in 1 .. n : x = rs[k]
    BY <1>2 DEF ToSet
  <2>3. \A c : c \in Kept(qs) <=> \E x \in ToSet(qs) : c = x.ctx
    BY <1>7, <2>1 DEF Kept
  <2>4. \A c : c \in Kept(rs) <=> \E x \in ToSet(rs) : c = x.ctx
    BY <1>2, <2>2 DEF Kept
  <2>5. \A s : s \in Sess(qs) <=> \E x \in ToSet(qs) : s = x.session
    BY <1>7, <2>1 DEF Sess
  <2>6. \A s : s \in Sess(rs) <=> \E x \in ToSet(rs) : s = x.session
    BY <1>2, <2>2 DEF Sess
  <2>7. ToSet(qs) = ToSet(rs) \cup {r}
    BY <1>4
  <2>8. QED
    BY <2>3, <2>4, <2>5, <2>6, <2>7
<1>11. \E k \in DOMAIN qs : qs[k] = r
  <2>1. r \in ToSet(qs)
    BY <1>4
  <2>2. QED
    BY <1>7, <2>1 DEF ToSet
<1>12. QED
  BY <1>7, <1>8, <1>9, <1>10, <1>11 DEF Table, n, qs, as


LEMMA KeptCount ==
    ASSUME NEW rs, Table(rs)
    PROVE  Cardinality(Kept(rs)) = Len(rs) /\ Kept(rs) \subseteq Ctx
<1> DEFINE K == Kept(rs)
           D == 1 .. Len(rs)
           f == [k \in D |-> rs[k].ctx]
<1>1. rs \in Seq(Rec) /\ DOMAIN rs = D /\ Len(rs) \in Nat /\ OneEach(rs)
  BY DEF Table
<1>2. f \in Bijection(D, K)
  <2>1. f \in [D -> K]
    BY <1>1 DEF Kept
  <2>2. \A a, b \in D : f[a] = f[b] => a = b
    BY <1>1 DEF OneEach
  <2>3. \A c \in K : \E a \in D : f[a] = c
    BY <1>1 DEF Kept
  <2> HIDE DEF f, D, K
  <2>4. QED
    BY <2>1, <2>2, <2>3, Fun_IsBij
<1>3. ExistsBijection(D, K)
  BY <1>2 DEF ExistsBijection
<1>4. IsFiniteSet(D) /\ Cardinality(D) = Len(rs)
  <2>1. 1 \in Int /\ Len(rs) \in Int /\ (1 > Len(rs) => Len(rs) = 0) /\ Len(rs) - 1 + 1 = Len(rs)
    BY <1>1
  <2>2. QED
    BY <2>1, FS_Interval
<1> HIDE DEF D, K
<1>5. Cardinality(K) = Len(rs)
  BY <1>3, <1>4, FS_Bijection
<1>6. Kept(rs) \subseteq Ctx
  BY <1>1, RecFacts DEF Kept, D
<1>7. QED
  BY <1>5, <1>6 DEF K

-----------------------------------------------------------------------------
(* The records of a session, which are neighbours.                           *)

LEMMA FirstFacts ==
    ASSUME NEW s \in Session, NEW rs \in Seq(Rec)
    PROVE  /\ First(s, rs) = 0 => \A k \in DOMAIN rs : ~IsOf(s, rs[k])
           /\ First(s, rs) # 0 => /\ First(s, rs) \in DOMAIN rs /\ IsOf(s, rs[First(s, rs)])
                                  /\ \A k \in DOMAIN rs : IsOf(s, rs[k]) => First(s, rs) <= k
<1> DEFINE I == {i \in 1 .. Len(rs) : IsOf(s, rs[i])}
<1>1. First(s, rs) = IF I # {} THEN Min(I) ELSE 0
  BY DEF First, SelectInSeq
<1>2. DOMAIN rs = 1 .. Len(rs) /\ Len(rs) \in Nat
  OBVIOUS
<1>3. CASE I = {}
  BY <1>1, <1>2, <1>3
<1>4. CASE I # {}
  <2>1. I \subseteq Nat
    OBVIOUS
  <2>2. \E k \in I : \A j \in I : k <= j
    BY <1>4, <2>1, LeastNumber
  <2>3. Min(I) \in I /\ \A j \in I : Min(I) <= j
    <3> HIDE DEF I
    <3>1. QED
      BY <2>2 DEF Min
  <2>4. First(s, rs) \in I /\ \A j \in I : First(s, rs) <= j
    BY <1>1, <1>4, <2>3
  <2>5. First(s, rs) # 0
    BY <2>4
  <2>6. QED
    BY <1>2, <2>4, <2>5
<1>5. QED
  BY <1>3, <1>4

LEMMA SpanFacts ==
    ASSUME NEW s \in Session, NEW rs, Table(rs)
    PROVE  \E lo \in 1 .. Len(rs) + 1, n \in 0 .. Len(rs) :
               /\ lo + n <= Len(rs) + 1
               /\ OfSession(s, rs) = lo .. lo + n - 1
               /\ n # 0 => First(s, rs) = lo
               /\ \A k \in DOMAIN rs : IsOf(s, rs[k]) <=> k \in lo .. lo + n - 1
<1> DEFINE L == Len(rs)
<1>1. rs \in Seq(Rec) /\ Ordered(rs) /\ L \in Nat /\ DOMAIN rs = 1 .. L /\ \A k \in 1 .. L : Keyed(rs[k])
  BY RecFacts DEF Table
<1> HIDE DEF L
<1>2. CASE First(s, rs) = 0
  <2>1. OfSession(s, rs) = {} /\ \A k \in DOMAIN rs : ~IsOf(s, rs[k])
    BY <1>1, <1>2, FirstFacts DEF OfSession
  <2>2. 1 \in 1 .. L + 1 /\ 0 \in 0 .. L /\ 1 + 0 <= L + 1 /\ 1 .. 1 + 0 - 1 = {}
    BY <1>1
  <2>3. QED
    BY <2>1, <2>2 DEF L
<1>3. CASE First(s, rs) # 0
  <2>1. PICK lo \in 1 .. L : /\ lo = First(s, rs) /\ IsOf(s, rs[lo])
                             /\ \A k \in 1 .. L : IsOf(s, rs[k]) => lo <= k
    BY <1>1, <1>3, FirstFacts
  <2> DEFINE J == {k \in lo .. L + 1 : k = L + 1 \/ ~IsOf(s, rs[k])}
  <2>2. PICK e \in lo .. L + 1 : (e = L + 1 \/ ~IsOf(s, rs[e])) /\ \A k \in lo .. e - 1 : k \in 1 .. L /\ IsOf(s, rs[k])
    <3>1. J \subseteq Nat /\ L + 1 \in J
      BY <1>1
    <3>2. PICK e \in J : \A k \in J : e <= k
      BY <3>1, LeastNumber
    <3>3. e \in lo .. L + 1 /\ (e = L + 1 \/ ~IsOf(s, rs[e]))
      BY <3>2
    <3>4. \A k \in lo .. e - 1 : k \in 1 .. L /\ k \in lo .. L + 1 /\ ~(e <= k)
      BY <1>1, <3>3
    <3>5. \A k \in lo .. e - 1 : IsOf(s, rs[k])
      <4>1. SUFFICES ASSUME NEW k \in lo .. e - 1, ~IsOf(s, rs[k]) PROVE FALSE
        OBVIOUS
      <4>2. k \in J
        BY <3>4, <4>1
      <4> HIDE DEF J
      <4>3. QED
        BY <3>2, <3>4, <4>2
    <3>6. QED
      BY <3>3, <3>4, <3>5
  <2>3. ASSUME NEW k \in e .. L PROVE k \in 1 .. L /\ ~IsOf(s, rs[k])
    <3>1. k \in 1 .. L /\ e \in 1 .. L /\ e # L + 1 /\ lo < e
      <4>1. k \in 1 .. L /\ e \in 1 .. L /\ e # L + 1
        BY <1>1
      <4>2. lo # e
        BY <2>1, <2>2, <4>1
      <4>3. QED
        BY <4>1, <4>2
    <3>2. /\ rs[lo].session[1] <= rs[e].session[1] /\ (e = k \/ rs[e].session[1] <= rs[k].session[1])
          /\ rs[lo].session[1] \in Nat /\ rs[e].session[1] \in Nat /\ rs[k].session[1] \in Nat
      <4>1. Precedes(rs[lo], rs[e]) /\ (e = k \/ Precedes(rs[e], rs[k]))
        BY <1>1, <3>1 DEF Ordered
      <4>2. Keyed(rs[lo]) /\ Keyed(rs[e]) /\ Keyed(rs[k])
        BY <1>1, <3>1
      <4>3. QED
        BY <4>1, <4>2, Compared
    <3>3. rs[lo].session[1] = s[1] /\ rs[e].session[1] # s[1]
      BY <2>1, <2>2, <3>1 DEF IsOf
    <3>4. QED
      BY <3>1, <3>2, <3>3 DEF IsOf
  <2>4. \A k \in 1 .. L : IsOf(s, rs[k]) <=> k \in lo .. e - 1
    <3>1. \A k \in 1 .. L : k \in lo .. e - 1 \/ k \in e .. L \/ ~(lo <= k)
      BY <1>1
    <3>2. QED
      BY <2>1, <2>2, <2>3, <3>1
  <2>5. OfSession(s, rs) = lo .. e - 1
    <3>1. OfSession(s, rs) = {i \in lo .. L : \A j \in lo .. i : IsOf(s, rs[j])}
      BY <1>3, <2>1 DEF OfSession, L
    <3>2. \A i \in lo .. L : (\A j \in lo .. i : IsOf(s, rs[j])) <=> i \in lo .. e - 1
      <4>1. SUFFICES ASSUME NEW i \in lo .. L PROVE (\A j \in lo .. i : IsOf(s, rs[j])) <=> i \in lo .. e - 1
        OBVIOUS
      <4>2. i \in lo .. i /\ i \in 1 .. L
        BY <1>1
      <4>3. i \in lo .. e - 1 => \A j \in lo .. i : j \in lo .. e - 1
        BY <1>1
      <4>4. QED
        BY <2>2, <2>4, <4>2, <4>3
    <3>3. lo .. e - 1 \subseteq lo .. L
      BY <1>1
    <3>4. QED
      BY <3>1, <3>2, <3>3
  <2>6. e - lo \in 0 .. L /\ lo + (e - lo) <= L + 1 /\ lo + (e - lo) - 1 = e - 1 /\ lo \in 1 .. L + 1
    BY <1>1
  <2>7. QED
    BY <1>1, <2>1, <2>4, <2>5, <2>6 DEF L
<1>4. QED
  BY <1>2, <1>3

\* Two sequences of records, the second one without some of the first.
LEMMA Fewer ==
    ASSUME NEW rs, Table(rs), NEW qs \in Seq(Rec), NEW q,
           \A i \in DOMAIN qs : q[i] \in DOMAIN rs /\ qs[i] = rs[q[i]],
           \A i, j \in DOMAIN qs : i < j => q[i] < q[j]
    PROVE  Table(qs)
<1>1. /\ Ordered(rs) /\ OneEach(rs)
      /\ \A i \in DOMAIN qs : i \in Nat
      /\ \A k \in DOMAIN rs : k \in Nat
  BY DEF Table
<1>2. Ordered(qs)
  BY <1>1 DEF Ordered
<1>3. OneEach(qs)
  <2>1. SUFFICES ASSUME NEW i \in DOMAIN qs, NEW j \in DOMAIN qs, qs[i].ctx = qs[j].ctx, i # j PROVE FALSE
    BY DEF OneEach
  <2>2. q[i] = q[j]
    BY <1>1, <2>1 DEF OneEach
  <2>3. q[i] < q[j] \/ q[j] < q[i]
    BY <1>1, <2>1
  <2>4. q[i] \in Nat /\ q[j] \in Nat
    BY <1>1
  <2>5. QED
    BY <2>2, <2>3, <2>4
<1>4. QED
  BY <1>2, <1>3 DEF Table

LEMMA CtxsOfFacts ==
    ASSUME NEW s \in Session, NEW rs, Table(rs)
    PROVE  /\ \A c : c \in CtxsOf(s, rs) <=> \E k \in DOMAIN rs : c = rs[k].ctx /\ IsOf(s, rs[k])
           /\ CtxsOf(s, rs) \subseteq Kept(rs)
           /\ OfSession(s, rs) = {} <=> CtxsOf(s, rs) = {}
           /\ OfSession(s, rs) = {k \in DOMAIN rs : IsOf(s, rs[k])}
<1>1. OfSession(s, rs) = {k \in DOMAIN rs : IsOf(s, rs[k])}
  <2>1. PICK lo \in 1 .. Len(rs) + 1, n \in 0 .. Len(rs) :
            /\ lo + n <= Len(rs) + 1 /\ OfSession(s, rs) = lo .. lo + n - 1
            /\ \A k \in DOMAIN rs : IsOf(s, rs[k]) <=> k \in lo .. lo + n - 1
    BY SpanFacts
  <2>2. DOMAIN rs = 1 .. Len(rs) /\ Len(rs) \in Nat
    BY DEF Table
  <2>3. \A k \in lo .. lo + n - 1 : k \in DOMAIN rs
    BY <2>1, <2>2
  <2>4. QED
    BY <2>1, <2>3
<1>2. QED
  BY <1>1 DEF CtxsOf, Kept

LEMMA RemoveFacts ==
    ASSUME NEW s \in Session, NEW rs, Table(rs)
    PROVE  LET qs == SessionRemove(s, rs)
           IN  /\ Table(qs) /\ Len(qs) <= Len(rs)
               /\ Kept(qs) = Kept(rs) \ CtxsOf(s, rs)
               /\ \A t : t \in Sess(qs) <=> t \in Sess(rs) /\ t[1] # s[1]
<1> DEFINE L == Len(rs)
           qs == SessionRemove(s, rs)
<1>1. rs \in Seq(Rec) /\ L \in Nat /\ DOMAIN rs = 1 .. L /\ OneEach(rs)
  BY DEF Table
<1>2. PICK lo \in 1 .. L + 1, n \in 0 .. L :
               /\ lo + n <= L + 1
               /\ OfSession(s, rs) = lo .. lo + n - 1
               /\ n # 0 => First(s, rs) = lo
               /\ \A k \in DOMAIN rs : IsOf(s, rs[k]) <=> k \in lo .. lo + n - 1
  BY SpanFacts
<1>3. Cardinality(OfSession(s, rs)) = n
  <2>1. lo \in Int /\ lo + n - 1 \in Int /\ (lo > lo + n - 1 <=> n = 0) /\ (lo + n - 1) - lo + 1 = n
    BY <1>1
  <2>2. QED
    BY <1>2, <2>1, FS_Interval
<1>4. /\ qs \in Seq(Rec) /\ Len(qs) = L - n
      /\ \A i \in 1 .. L - n : qs[i] = IF i < lo THEN rs[i] ELSE rs[i + n]
  <2>1. CASE n = 0
    <3>1. qs = rs
      BY <1>3, <2>1 DEF SessionRemove
    <3>2. QED
      BY <1>1, <2>1, <3>1
  <2>2. CASE n # 0
    <3> DEFINE a == SubSeq(rs, 1, lo - 1)
               b == SubSeq(rs, lo + n, L)
    <3>1. qs = a \o b
      BY <1>2, <1>3, <2>2 DEF SessionRemove
    <3>2. /\ a \in Seq(Rec) /\ Len(a) = lo - 1 /\ \A i \in 1 .. lo - 1 : a[i] = rs[i]
      BY <1>1
    <3>3. /\ b \in Seq(Rec) /\ Len(b) = L - (lo + n) + 1
          /\ \A i \in 1 .. L - (lo + n) + 1 : b[i] = rs[lo + n + i - 1]
      <4>1. lo + n \in Nat \ {0} /\ lo + n <= L + 1
        BY <1>1, <1>2
      <4>2. QED
        BY <1>1, <4>1
    <3> HIDE DEF a, b, qs
    <3>4. qs \in Seq(Rec) /\ Len(qs) = L - n
      <4>0. a \in Seq(Rec) /\ b \in Seq(Rec)
        BY <3>2, <3>3
      <4>1. qs \in Seq(Rec) /\ Len(qs) = Len(a) + Len(b)
        BY <3>1, <4>0, ConcatProperties

      <4>2. QED
        BY <1>1, <1>2, <3>2, <3>3, <4>1
    <3>5. ASSUME NEW i \in 1 .. L - n PROVE qs[i] = IF i < lo THEN rs[i] ELSE rs[i + n]
      <4>1. CASE i < lo
        BY <1>1, <1>2, <3>1, <3>2, <3>3, <4>1
      <4>2. CASE ~(i < lo)
        <5>1. i - (lo - 1) \in 1 .. L - (lo + n) + 1 /\ lo + n + (i - (lo - 1)) - 1 = i + n
          BY <1>1, <1>2, <4>2
        <5>2. qs[i] = b[i - (lo - 1)]
          BY <1>1, <1>2, <3>1, <3>2, <3>3, <4>2, <5>1, SMTT(30)
        <5>3. QED
          BY <3>3, <4>2, <5>1, <5>2
      <4>3. QED
        BY <4>1, <4>2
    <3>6. QED
      BY <3>4, <3>5
  <2>3. QED
    BY <2>1, <2>2
<1> HIDE DEF qs
<1>5. DOMAIN qs = 1 .. L - n /\ L - n \in Nat
  BY <1>1, <1>4
<1> DEFINE q == [i \in 1 .. L - n |-> IF i < lo THEN i ELSE i + n]
<1>6. \A i \in DOMAIN qs : q[i] \in DOMAIN rs /\ qs[i] = rs[q[i]] /\ ~IsOf(s, rs[q[i]])
  <2>1. \A i \in 1 .. L - n : q[i] \in 1 .. L /\ q[i] \notin lo .. lo + n - 1 /\ q[i] = IF i < lo THEN i ELSE i + n
    BY <1>1
  <2> HIDE DEF q
  <2>2. QED
    BY <1>1, <1>2, <1>4, <1>5, <2>1
<1>7. \A k \in DOMAIN rs : ~IsOf(s, rs[k]) => \E i \in DOMAIN qs : q[i] = k
  <2>1. SUFFICES ASSUME NEW k \in 1 .. L, k \notin lo .. lo + n - 1 PROVE \E i \in 1 .. L - n : q[i] = k
    BY <1>1, <1>2, <1>5
  <2>2. CASE k < lo
    <3>1. k \in 1 .. L - n /\ q[k] = k
      BY <1>1, <1>2, <2>2
    <3>2. QED
      BY <3>1
  <2>3. CASE ~(k < lo)
    <3>1. k - n \in 1 .. L - n /\ ~(k - n < lo) /\ k - n + n = k
      BY <1>1, <1>2, <2>1, <2>3
    <3>2. q[k - n] = k
      BY <3>1
    <3>3. QED
      BY <3>1, <3>2
  <2>4. QED
    BY <2>2, <2>3
<1>8. Table(qs)
  <2>1. \A i, j \in DOMAIN qs : i < j => q[i] < q[j]
    BY <1>1, <1>5
  <2> HIDE DEF q
  <2>2. QED
    BY <1>4, <1>6, <2>1, Fewer, ZenonT(40)
<1> HIDE DEF q
<1>9. Kept(qs) = Kept(rs) \ CtxsOf(s, rs)
  <2>1. \A k, l \in DOMAIN rs : rs[k].ctx = rs[l].ctx => k = l
    BY <1>1 DEF OneEach
  <2>2. \A c : c \in Kept(rs) \ CtxsOf(s, rs) <=> \E k \in DOMAIN rs : c = rs[k].ctx /\ ~IsOf(s, rs[k])
    BY <2>1, CtxsOfFacts DEF Kept
  <2>3. \A c : c \in Kept(qs) <=> \E i \in DOMAIN qs : c = rs[q[i]].ctx
    BY <1>6 DEF Kept
  <2>4. QED
    BY <1>6, <1>7, <2>2, <2>3
<1>10. \A t : t \in Sess(qs) <=> t \in Sess(rs) /\ t[1] # s[1]
  <2>1. \A t : t \in Sess(qs) <=> \E i \in DOMAIN qs : t = rs[q[i]].session
    BY <1>6 DEF Sess
  <2>2. \A t : t \in Sess(rs) <=> \E k \in DOMAIN rs : t = rs[k].session
    BY DEF Sess
  <2>3. \A k \in DOMAIN rs : IsOf(s, rs[k]) <=> rs[k].session[1] = s[1]
    BY DEF IsOf
  <2>4. QED
    BY <1>6, <1>7, <2>1, <2>2, <2>3
<1>11. QED
  BY <1>1, <1>4, <1>8, <1>9, <1>10 DEF qs

LEMMA BlockFacts ==
    ASSUME NEW s \in Session, NEW rs, Table(rs)
    PROVE  LET qs == SessionBlock(s, rs)
           IN  Table(qs) /\ Len(qs) = Len(rs) /\ Kept(qs) = Kept(rs) /\ Sess(qs) = Sess(rs)
<1> DEFINE qs == SessionBlock(s, rs)
<1>1. rs \in Seq(Rec) /\ Ordered(rs) /\ OneEach(rs) /\ DOMAIN rs = 1 .. Len(rs) /\ Len(rs) \in Nat
  BY DEF Table
<1>2. DOMAIN qs = 1 .. Len(rs) /\ \A i \in 1 .. Len(rs) :
         /\ qs[i] \in Rec
         /\ qs[i].session = rs[i].session /\ qs[i].odid = rs[i].odid /\ qs[i].ctx = rs[i].ctx
  <2>1. \A r \in Rec : LET b == [r EXCEPT !.blocked = TRUE]
                       IN  b \in Rec /\ b.session = r.session /\ b.odid = r.odid /\ b.ctx = r.ctx
    BY DEF Rec
  <2>2. DOMAIN qs = 1 .. Len(rs) /\ \A i \in 1 .. Len(rs) :
            rs[i] \in Rec /\ qs[i] \in {rs[i], [rs[i] EXCEPT !.blocked = TRUE]}
    BY <1>1 DEF SessionBlock
  <2> HIDE DEF qs
  <2>3. QED
    BY <2>1, <2>2

<1>3. qs \in Seq(Rec) /\ Len(qs) = Len(rs)
  <2>1. qs \in [1 .. Len(rs) -> Rec]
    BY <1>1, <1>2 DEF SessionBlock
  <2>2. QED
    BY <1>1, <2>1
<1> HIDE DEF qs
<1>4. Ordered(qs)
  BY <1>1, <1>2 DEF Ordered, Precedes
<1>5. OneEach(qs)
  BY <1>1, <1>2 DEF OneEach
<1>6. Kept(qs) = Kept(rs) /\ Sess(qs) = Sess(rs)
  BY <1>1, <1>2 DEF Kept, Sess
<1>7. QED
  BY <1>3, <1>4, <1>5, <1>6 DEF Table, qs

-----------------------------------------------------------------------------
(* The invariant, its parts as predicates of what they are about.            *)

RingMsg ==
    [type : {"ipfix"}, session : Session, odid : Odid, kind : Kind] \cup [type : {"close", "garbage"}, session : Session]
DownMsg ==
    [type : {"parsed"}, session : Session, ctxs : SUBSET Ctx] \cup [type : {"close", "garbage"}, session : Session]
        \cup [type : {"tmplts"}, session : Session \cup {NoSession}, ctxs : SUBSET Ctx, closing : BOOLEAN]

Types ==
    /\ transport \in Transports /\ gen \in [Addr -> 0 .. MaxGen]
    /\ open \subseteq alloc /\ alloc \subseteq Session
    /\ ipc \in {"poll", "get", "ended", "gone"}
    /\ ring \in Seq(RingMsg) /\ Len(ring) <= RingCap
    /\ down \in Seq(DownMsg) /\ Len(down) <= RingCap
    /\ fpipe \in Seq(Session) /\ bad \subseteq Session
    /\ room \in Nat \ {0} /\ Table(recs) /\ Len(recs) <= room

\* A context is created for a message, and for no other one.
Waiting(r) == {i \in DOMAIN r : r[i].type = "ipfix"}
Numbered(n, r, k) == n \in Nat /\ k \in Nat /\ k <= MaxMsg /\ n + Cardinality(Waiting(r)) <= k

\* A session the parser has still to hear of the end of, those that are
\* closed for it, and those it hears nothing more of.
Alive(s, op, r) == s \in op \/ \E i \in DOMAIN r : r[i] = CloseMsg(s)
Closed(gn, op, r) == {s \in Session : s[2] <= gn[s[1]] /\ ~Alive(s, op, r)}
Past(gn, op, r) == {s \in Closed(gn, op, r) : \A i \in DOMAIN r : r[i].session # s}

\* A session is the only one at its address, and not one to come.
Distinct(al, gn) ==
    /\ \A s \in al : s[2] <= gn[s[1]]
    /\ \A s, t \in al : s[1] = t[1] => s = t

\* Messages are of sessions the parser is not told the end of yet: after a
\* close message there is only the garbage of its session.
InStep(al, op, r) ==
    /\ \A i \in DOMAIN r : /\ r[i].session \in al
                           /\ r[i].type = "ipfix" => Alive(r[i].session, op, r)
                           /\ r[i].type # "ipfix" => r[i].session \notin op
    /\ \A i, j \in DOMAIN r : i < j /\ r[i].type # "ipfix" /\ r[i].session = r[j].session
            => r[i].type = "close" /\ r[j].type = "garbage"

\* Behind the parser: garbage is of sessions that are past, templates of
\* closed sessions follow the close, and no garbage is ahead of its users.
Traffic(past, closed, al, d) ==
    /\ \A j \in DOMAIN d : d[j].type = "garbage" => d[j].session \in past
    /\ \A j \in DOMAIN d : d[j].type = "tmplts" /\ d[j].closing =>
            d[j].session \in closed /\ \A k \in j .. Len(d) : d[k] # CloseMsg(d[j].session)
    /\ \A j \in DOMAIN d : d[j].type = "parsed" =>
            d[j].session \in al /\ \A i \in 1 .. j - 1 : d[i].type = "garbage" => d[i].session # d[j].session

\* Each of n contexts is kept in the records, on its way to be destroyed,
\* destroyed or lost; none is destroyed ahead of a message that uses it.
Holds(m, c) == m.type = "tmplts" /\ c \in m.ctxs
Owned(kept, n, fr, lo, d) ==
    /\ \A c : c \in 1 .. n <=> c \in kept \/ c \in fr \/ c \in lo \/ \E j \in DOMAIN d : Holds(d[j], c)
    /\ \A c : c \in kept => c \notin fr /\ c \notin lo
    /\ \A c : c \in fr => c \notin lo
    /\ \A j \in DOMAIN d : \A c : Holds(d[j], c) => c \notin kept /\ c \notin fr /\ c \notin lo
    /\ \A i, j \in DOMAIN d : \A c : Holds(d[i], c) /\ Holds(d[j], c) => i = j
    /\ \A j \in DOMAIN d : \A c : d[j].type = "parsed" /\ c \in d[j].ctxs =>
            c \in 1 .. n /\ c \notin fr /\ \A i \in 1 .. j - 1 : ~Holds(d[i], c)

IInv ==
    /\ Types
    /\ Numbered(ctxs, ring, sent)
    /\ Distinct(alloc, gen)
    /\ InStep(alloc, open, ring)
    /\ \A s \in Sess(recs) : Alive(s, open, ring)
    /\ Traffic(Past(gen, open, ring), Closed(gen, open, ring), alloc, down)
    /\ Owned(Kept(recs), ctxs, freed, lost, down)

-----------------------------------------------------------------------------
(* What the operations do to the sequences.                                  *)

Longer(s, t, n) == Len(t) = Len(s) + n /\ \A i \in 1 .. Len(s) : t[i] = s[i]
Shorter(s, t) == Len(s) >= 1 /\ Len(t) = Len(s) - 1 /\ \A i \in 1 .. Len(t) : t[i] = s[i + 1]

LEMMA OneMore ==
    ASSUME NEW S, NEW s \in Seq(S), NEW x \in S
    PROVE  Append(s, x) \in Seq(S) /\ Longer(s, Append(s, x), 1) /\ Append(s, x)[Len(s) + 1] = x
BY DEF Longer

LEMMA TwoMore ==
    ASSUME NEW S, NEW s \in Seq(S), NEW x \in S, NEW y \in S
    PROVE  LET t == s \o <<x, y>>
           IN  t \in Seq(S) /\ Longer(s, t, 2) /\ t[Len(s) + 1] = x /\ t[Len(s) + 2] = y
<1> DEFINE e == <<x, y>>
<1>1. e \in Seq(S) /\ Len(e) = 2 /\ e[1] = x /\ e[2] = y
  OBVIOUS
<1> HIDE DEF e
<1>2. (s \o e) \in Seq(S) /\ Len(s \o e) = Len(s) + 2 /\ Len(s) \in Nat
  <2>1. e \in Seq(S) /\ Len(e) = 2
    BY <1>1
  <2>2. (s \o e) \in Seq(S) /\ Len(s \o e) = Len(s) + Len(e)
    BY <2>1, ConcatProperties
  <2>3. Len(s) \in Nat
    OBVIOUS
  <2>4. QED
    BY <2>1, <2>2, <2>3

<1>3. \A i \in 1 .. Len(s) + 2 : (s \o e)[i] = IF i <= Len(s) THEN s[i] ELSE e[i - Len(s)]
  BY <1>1, <1>2, ConcatProperties
<1>4. (s \o e)[Len(s) + 1] = x /\ (s \o e)[Len(s) + 2] = y
  BY <1>1, <1>2, <1>3
<1>5. QED
  BY <1>2, <1>3, <1>4 DEF Longer, e

LEMMA OneLess ==
    ASSUME NEW S, NEW s \in Seq(S), s # <<>>
    PROVE  Tail(s) \in Seq(S) /\ Shorter(s, Tail(s)) /\ Head(s) = s[1] /\ s[1] \in S
BY DEF Shorter

LEMMA RingFacts ==
    \A m \in RingMsg :
        /\ m.session \in Session /\ m.type \in {"ipfix", "close", "garbage"}
        /\ m.type = "ipfix" => m.odid \in Odid /\ m.kind \in Kind
        /\ m.type = "close" <=> m = CloseMsg(m.session)
        /\ m.type = "garbage" <=> m = SessionGarbage(m.session)
BY DEF RingMsg, CloseMsg, SessionGarbage

LEMMA RingMade ==
    ASSUME NEW s \in Session
    PROVE  /\ CloseMsg(s) \in RingMsg /\ CloseMsg(s).type = "close" /\ CloseMsg(s).session = s
           /\ SessionGarbage(s) \in RingMsg /\ SessionGarbage(s).type = "garbage" /\ SessionGarbage(s).session = s
           /\ \A o \in Odid, k \in Kind : /\ Ipfix(s, o, k) \in RingMsg
                                          /\ Ipfix(s, o, k).type = "ipfix" /\ Ipfix(s, o, k).session = s
BY DEF RingMsg, CloseMsg, SessionGarbage, Ipfix

LEMMA DownFacts ==
    \A m \in DownMsg :
        /\ m.type \in {"parsed", "close", "garbage", "tmplts"}
        /\ m.type # "tmplts" => m.session \in Session
        /\ m.type \in {"parsed", "tmplts"} => m.ctxs \subseteq Ctx
        /\ m.type = "close" <=> m = CloseMsg(m.session)
BY DEF DownMsg, CloseMsg

LEMMA DownMade ==
    ASSUME NEW s \in Session
    PROVE  /\ CloseMsg(s) \in DownMsg /\ CloseMsg(s).type = "close" /\ CloseMsg(s).session = s
           /\ SessionGarbage(s) \in DownMsg /\ SessionGarbage(s).type = "garbage" /\ SessionGarbage(s).session = s
           /\ \A c \in Ctx : LET p == Parsed(s, c)
                             IN  p \in DownMsg /\ p.type = "parsed" /\ p.session = s /\ p.ctxs = {c}
BY DEF DownMsg, CloseMsg, SessionGarbage, Parsed

LEMMA GarbageMade ==
    ASSUME NEW s \in Session \cup {NoSession}, NEW cs \in SUBSET Ctx, NEW closing \in BOOLEAN
    PROVE  LET g == CtxGarbage(s, cs, closing)
           IN  g \in DownMsg /\ g.type = "tmplts" /\ g.session = s /\ g.ctxs = cs /\ g.closing = closing
BY DEF DownMsg, CtxGarbage

-----------------------------------------------------------------------------
(* The ring.                                                                 *)

LEMMA Closing ==
    ASSUME NEW al \in SUBSET Session, NEW op \in SUBSET al, NEW gn, NEW s \in op,
           NEW r \in Seq(RingMsg), NEW r2 \in Seq(RingMsg), Longer(r, r2, 2),
           r2[Len(r) + 1] = CloseMsg(s), r2[Len(r) + 2] = SessionGarbage(s), InStep(al, op, r)
    PROVE  /\ InStep(al, op \ {s}, r2)
           /\ \A t : Alive(t, op, r) <=> Alive(t, op \ {s}, r2)
           /\ Closed(gn, op, r) = Closed(gn, op \ {s}, r2)
           /\ Past(gn, op, r) \subseteq Past(gn, op \ {s}, r2)
<1> DEFINE L == Len(r)
<1>1. /\ L \in Nat /\ DOMAIN r = 1 .. L /\ DOMAIN r2 = 1 .. L + 2 /\ \A i \in 1 .. L : r2[i] = r[i] /\ r[i] \in RingMsg
      /\ s \in Session /\ r2[L + 1] = CloseMsg(s) /\ r2[L + 2] = SessionGarbage(s)
  BY DEF Longer
<1> HIDE DEF L
<1>2. /\ r2[L + 1].type = "close" /\ r2[L + 1].session = s
      /\ r2[L + 2].type = "garbage" /\ r2[L + 2].session = s
  BY <1>1, RingMade
<1>3. \A i \in 1 .. L + 2 : i \in 1 .. L \/ i = L + 1 \/ i = L + 2
  BY <1>1
<1>4. L + 1 \in 1 .. L + 2 /\ L + 2 \in 1 .. L + 2 /\ \A i \in 1 .. L : i \in 1 .. L + 2
  BY <1>1
<1>5. \A i \in 1 .. L : r[i].type # "ipfix" => r[i].session # s
  BY <1>1 DEF InStep
<1>6. \A t : Alive(t, op, r) <=> Alive(t, op \ {s}, r2)
  <2>1. SUFFICES ASSUME NEW t PROVE Alive(t, op, r) <=> Alive(t, op \ {s}, r2)
    OBVIOUS
  <2>2. \A i \in 1 .. L + 2 : r2[i] = CloseMsg(t) => i \in 1 .. L \/ t = s
    BY <1>1, <1>2, <1>3 DEF CloseMsg
  <2>3. QED
    BY <1>1, <1>4, <2>2 DEF Alive
<1>7. InStep(al, op \ {s}, r2)
  <2>1. ASSUME NEW i \in 1 .. L + 2
        PROVE  /\ r2[i].session \in al
               /\ r2[i].type = "ipfix" => Alive(r2[i].session, op \ {s}, r2)
               /\ r2[i].type # "ipfix" => r2[i].session \notin op \ {s}
    <3>1. CASE i \in 1 .. L
      BY <1>1, <1>6, <3>1 DEF InStep
    <3>2. CASE i \notin 1 .. L
      BY <1>1, <1>2, <1>3, <3>2
    <3>3. QED
      BY <3>1, <3>2
  <2>2. ASSUME NEW i \in 1 .. L + 2, NEW j \in 1 .. L + 2, i < j, r2[i].type # "ipfix", r2[i].session = r2[j].session
        PROVE  r2[i].type = "close" /\ r2[j].type = "garbage"
    <3>1. CASE j \in 1 .. L
      <4>1. i \in 1 .. L
        BY <1>1, <2>2, <3>1
      <4>2. QED
        BY <1>1, <2>2, <3>1, <4>1 DEF InStep
    <3>2. CASE j = L + 1
      <4>1. i \in 1 .. L
        BY <1>1, <2>2, <3>2
      <4>2. QED
        BY <1>1, <1>2, <1>5, <2>2, <3>2, <4>1
    <3>3. CASE j = L + 2
      <4>1. i \in 1 .. L \/ i = L + 1
        BY <1>1, <2>2, <3>3
      <4>2. QED
        BY <1>1, <1>2, <1>5, <2>2, <3>3, <4>1
    <3>4. QED
      BY <1>3, <3>1, <3>2, <3>3
  <2>3. QED
    BY <1>1, <2>1, <2>2 DEF InStep
<1>8. Closed(gn, op, r) = Closed(gn, op \ {s}, r2)
  BY <1>6 DEF Closed
<1>9. Past(gn, op, r) \subseteq Past(gn, op \ {s}, r2)
  <2>1. SUFFICES ASSUME NEW t \in Past(gn, op, r), NEW i \in 1 .. L + 2 PROVE r2[i].session # t
    BY <1>1, <1>8 DEF Past
  <2>2. t # s
    BY DEF Past, Closed, Alive
  <2>3. QED
    BY <1>1, <1>2, <1>3, <2>2 DEF Past
<1>10. QED
  BY <1>6, <1>7, <1>8, <1>9

LEMMA Sending ==
    ASSUME NEW al \in SUBSET Session, NEW op \in SUBSET al, NEW gn, NEW s \in op,
           NEW r \in Seq(RingMsg), NEW r2 \in Seq(RingMsg), Longer(r, r2, 1),
           r2[Len(r) + 1].type = "ipfix", r2[Len(r) + 1].session = s, InStep(al, op, r)
    PROVE  /\ InStep(al, op, r2)
           /\ \A t : Alive(t, op, r) <=> Alive(t, op, r2)
           /\ Closed(gn, op, r) = Closed(gn, op, r2)
           /\ Past(gn, op, r) \subseteq Past(gn, op, r2)
<1> DEFINE L == Len(r)
<1>1. /\ L \in Nat /\ DOMAIN r = 1 .. L /\ DOMAIN r2 = 1 .. L + 1 /\ \A i \in 1 .. L : r2[i] = r[i] /\ r[i] \in RingMsg
      /\ r2[L + 1].type = "ipfix" /\ r2[L + 1].session = s
  BY DEF Longer
<1> HIDE DEF L
<1>2. \A i \in 1 .. L + 1 : i \in 1 .. L \/ i = L + 1
  BY <1>1
<1>3. L + 1 \in 1 .. L + 1 /\ \A i \in 1 .. L : i \in 1 .. L + 1
  BY <1>1
<1>4. \A t : Alive(t, op, r) <=> Alive(t, op, r2)
  <2>1. SUFFICES ASSUME NEW t PROVE Alive(t, op, r) <=> Alive(t, op, r2)
    OBVIOUS
  <2>2. \A i \in 1 .. L + 1 : r2[i] = CloseMsg(t) => i \in 1 .. L
    BY <1>1, <1>2 DEF CloseMsg
  <2>3. QED
    BY <1>1, <1>3, <2>2 DEF Alive
<1>5. InStep(al, op, r2)
  <2>1. ASSUME NEW i \in 1 .. L + 1
        PROVE  /\ r2[i].session \in al
               /\ r2[i].type = "ipfix" => Alive(r2[i].session, op, r2)
               /\ r2[i].type # "ipfix" => r2[i].session \notin op
    <3>1. CASE i \in 1 .. L
      BY <1>1, <1>4, <3>1 DEF InStep
    <3>2. CASE i \notin 1 .. L
      BY <1>1, <1>2, <3>2 DEF Alive
    <3>3. QED
      BY <3>1, <3>2
  <2>2. ASSUME NEW i \in 1 .. L + 1, NEW j \in 1 .. L + 1, i < j, r2[i].type # "ipfix", r2[i].session = r2[j].session
        PROVE  r2[i].type = "close" /\ r2[j].type = "garbage"
    <3>1. i \in 1 .. L
      BY <1>1, <2>2
    <3>2. CASE j \in 1 .. L
      BY <1>1, <2>2, <3>1, <3>2 DEF InStep
    <3>3. CASE j = L + 1
      BY <1>1, <2>2, <3>1, <3>3 DEF InStep
    <3>4. QED
      BY <1>2, <3>2, <3>3
  <2>3. QED
    BY <1>1, <2>1, <2>2 DEF InStep
<1>6. Closed(gn, op, r) = Closed(gn, op, r2)
  BY <1>4 DEF Closed
<1>7. Past(gn, op, r) \subseteq Past(gn, op, r2)
  <2>1. SUFFICES ASSUME NEW t \in Past(gn, op, r), NEW i \in 1 .. L + 1 PROVE r2[i].session # t
    BY <1>1, <1>6 DEF Past
  <2>2. t # s
    BY DEF Past, Closed, Alive
  <2>3. QED
    BY <1>1, <1>2, <2>2 DEF Past
<1>8. QED
  BY <1>4, <1>5, <1>6, <1>7

LEMMA Opening ==
    ASSUME NEW al \in SUBSET Session, NEW op \in SUBSET al, NEW gn \in [Addr -> 0 .. MaxGen],
           NEW r \in Seq(RingMsg), NEW a \in Addr, gn[a] < MaxGen, \A s \in al : s[1] # a,
           Distinct(al, gn), InStep(al, op, r)
    PROVE  LET s == <<a, gn[a] + 1>>
               gn2 == [gn EXCEPT ![a] = @ + 1]
           IN  /\ s \in Session /\ gn2 \in [Addr -> 0 .. MaxGen]
               /\ Distinct(al \cup {s}, gn2)
               /\ InStep(al \cup {s}, op \cup {s}, r)
               /\ \A t : Alive(t, op, r) => Alive(t, op \cup {s}, r)
               /\ Closed(gn, op, r) \subseteq Closed(gn2, op \cup {s}, r)
               /\ Past(gn, op, r) \subseteq Past(gn2, op \cup {s}, r)
<1> DEFINE s == <<a, gn[a] + 1>>
           gn2 == [gn EXCEPT ![a] = @ + 1]
<1>1. MaxGen \in Nat /\ gn[a] \in 0 .. MaxGen
  BY BoundsAssumption
<1>2. gn[a] + 1 \in 1 .. MaxGen /\ gn[a] + 1 \in 0 .. MaxGen
  BY <1>1
<1>3. s \in Session /\ s[1] = a /\ s[2] = gn[a] + 1
  BY <1>2 DEF Session
<1>4. gn2 \in [Addr -> 0 .. MaxGen] /\ gn2[a] = gn[a] + 1 /\ \A b \in Addr : b # a => gn2[b] = gn[b]
  BY <1>2
<1>5. \A t \in Session : t[1] \in Addr /\ t[2] \in Nat /\ (t[2] <= gn[t[1]] => t[2] <= gn2[t[1]] /\ t # s)
  <2>1. SUFFICES ASSUME NEW t \in Session
                 PROVE t[1] \in Addr /\ t[2] \in Nat /\ (t[2] <= gn[t[1]] => t[2] <= gn2[t[1]] /\ t # s)
    OBVIOUS
  <2>2. t[1] \in Addr /\ t[2] \in Nat
    BY <1>1 DEF Session
  <2> HIDE DEF s, gn2
  <2>3. gn[t[1]] \in Nat
    BY <1>1, <2>2
  <2>4. CASE t[1] = a
    BY <1>1, <1>3, <1>4, <2>2, <2>4
  <2>5. CASE t[1] # a
    BY <1>3, <1>4, <2>2, <2>5
  <2>6. QED
    BY <2>2, <2>4, <2>5
<1> HIDE DEF s, gn2
<1>6. Distinct(al \cup {s}, gn2)
  <2>1. gn2[s[1]] = s[2] /\ s[2] <= gn2[s[1]]
    BY <1>2, <1>3, <1>4
  <2>2. QED
    BY <1>3, <1>5, <2>1 DEF Distinct
<1>7. s \notin al /\ \A i \in DOMAIN r : r[i].session # s
  BY <1>3 DEF InStep
<1>8. \A t : Alive(t, op, r) => Alive(t, op \cup {s}, r)
  BY DEF Alive
<1>9. InStep(al \cup {s}, op \cup {s}, r)
  BY <1>7, <1>8 DEF InStep
<1>10. Closed(gn, op, r) \subseteq Closed(gn2, op \cup {s}, r)
  BY <1>5 DEF Closed, Alive
<1>11. Past(gn, op, r) \subseteq Past(gn2, op \cup {s}, r)
  BY <1>10 DEF Past
<1>12. QED
  BY <1>3, <1>4, <1>6, <1>8, <1>9, <1>10, <1>11 DEF s, gn2

LEMMA Taking ==
    ASSUME NEW al \in SUBSET Session, NEW op \in SUBSET al, NEW gn,
           NEW r \in Seq(RingMsg), NEW r2 \in Seq(RingMsg), Shorter(r, r2),
           Distinct(al, gn), InStep(al, op, r)
    PROVE  /\ InStep(al, op, r2)
           /\ \A t : Alive(t, op, r) => Alive(t, op, r2) \/ (r[1].type = "close" /\ t = r[1].session)
           /\ Closed(gn, op, r) \subseteq Closed(gn, op, r2)
           /\ Past(gn, op, r) \subseteq Past(gn, op, r2)
           /\ r[1].session \in al /\ r[1].session \notin Past(gn, op, r)
           /\ r[1].type = "ipfix" => Alive(r[1].session, op, r2)
           /\ r[1].type = "close" => /\ r[1].session \notin Closed(gn, op, r)
                                     /\ r[1].session \in Closed(gn, op, r2)
           /\ r[1].type = "garbage" => /\ r[1].session \in Past(gn, op, r2)
                                       /\ ~Alive(r[1].session, op, r)
<1> DEFINE L == Len(r)
           m == r[1]
           s == m.session
<1>1. /\ L \in Nat \ {0} /\ DOMAIN r = 1 .. L /\ DOMAIN r2 = 1 .. L - 1
      /\ \A i \in 1 .. L - 1 : r2[i] = r[i + 1] /\ i + 1 \in 1 .. L /\ 1 < i + 1
      /\ \A i \in 1 .. L : i = 1 \/ \E k \in 1 .. L - 1 : i = k + 1
      /\ 1 \in 1 .. L
  <2>1. /\ L \in Nat \ {0} /\ DOMAIN r = 1 .. L /\ DOMAIN r2 = 1 .. L - 1 /\ 1 \in 1 .. L
        /\ \A i \in 1 .. L - 1 : r2[i] = r[i + 1] /\ i + 1 \in 1 .. L /\ 1 < i + 1
    BY DEF Shorter
  <2> HIDE DEF L
  <2>2. ASSUME NEW i \in 1 .. L, i # 1 PROVE \E k \in 1 .. L - 1 : i = k + 1
    <3>1. i - 1 \in 1 .. L - 1 /\ i = (i - 1) + 1
      BY <2>1, <2>2
    <3>2. QED
      BY <3>1
  <2>3. QED
    BY <2>1, <2>2
<1>2. /\ s \in Session /\ s \in al /\ m.type \in {"ipfix", "close", "garbage"}
      /\ m.type = "close" <=> m = CloseMsg(s)
  <2>1. m \in RingMsg
    BY <1>1
  <2>2. QED
    BY <1>1, <2>1, RingFacts DEF InStep
<1> HIDE DEF L
<1>3. \A t : Alive(t, op, r) <=> Alive(t, op, r2) \/ m = CloseMsg(t)
  <2>1. SUFFICES ASSUME NEW t PROVE Alive(t, op, r) <=> Alive(t, op, r2) \/ m = CloseMsg(t)
    OBVIOUS
  <2>2. (\E i \in 1 .. L : r[i] = CloseMsg(t)) <=> (\E i \in 1 .. L - 1 : r2[i] = CloseMsg(t)) \/ m = CloseMsg(t)
    BY <1>1
  <2>3. QED
    BY <1>1, <2>2 DEF Alive
<1>4. \A t : m = CloseMsg(t) => m.type = "close" /\ t = s
  BY DEF CloseMsg
<1>5. \A j \in 1 .. L - 1 : m.type # "ipfix" /\ s = r2[j].session => m.type = "close" /\ r2[j].type = "garbage"
  BY <1>1 DEF InStep
<1>6. /\ \A i \in 1 .. L - 1 : /\ r2[i].session \in al
                               /\ r2[i].type = "ipfix" => Alive(r2[i].session, op, r)
                               /\ r2[i].type # "ipfix" => r2[i].session \notin op
      /\ \A i, j \in 1 .. L - 1 : i < j /\ r2[i].type # "ipfix" /\ r2[i].session = r2[j].session
            => r2[i].type = "close" /\ r2[j].type = "garbage"
  <2>1. \A i, j \in 1 .. L - 1 : i < j => i + 1 < j + 1
    BY <1>1
  <2>2. ASSUME NEW i \in 1 .. L - 1, NEW j \in 1 .. L - 1, i < j, r2[i].type # "ipfix", r2[i].session = r2[j].session
        PROVE  r2[i].type = "close" /\ r2[j].type = "garbage"
    <3> DEFINE k == i + 1
               l == j + 1
    <3>1. k \in 1 .. L /\ l \in 1 .. L /\ k < l /\ r2[i] = r[k] /\ r2[j] = r[l]
      BY <1>1, <2>1, <2>2
    <3> HIDE DEF k, l
    <3>2. r[k].type # "ipfix" /\ r[k].session = r[l].session
      BY <2>2, <3>1
    <3>3. r[k].type = "close" /\ r[l].type = "garbage"
      BY <1>1, <3>1, <3>2 DEF InStep
    <3>4. QED
      BY <3>1, <3>3
  <2>3. ASSUME NEW i \in 1 .. L - 1

        PROVE  /\ r2[i].session \in al
               /\ r2[i].type = "ipfix" => Alive(r2[i].session, op, r)
               /\ r2[i].type # "ipfix" => r2[i].session \notin op
    BY <1>1 DEF InStep
  <2>4. QED
    BY <2>2, <2>3
<1> HIDE DEF m, s

<1>7. InStep(al, op, r2)
  <2>1. \A i \in 1 .. L - 1 : r2[i].type = "ipfix" => Alive(r2[i].session, op, r2)
    BY <1>3, <1>4, <1>5, <1>6
  <2>2. QED
    BY <1>1, <1>6, <2>1 DEF InStep
<1>8. \A t : Alive(t, op, r) => Alive(t, op, r2) \/ (m.type = "close" /\ t = s)
  BY <1>3, <1>4
<1>9. Closed(gn, op, r) \subseteq Closed(gn, op, r2)
  BY <1>3 DEF Closed
<1>10. Past(gn, op, r) \subseteq Past(gn, op, r2)
  BY <1>1, <1>9 DEF Past
<1>11. s \notin Past(gn, op, r)
  BY <1>1 DEF Past, s, m
<1>12. m.type = "ipfix" => Alive(s, op, r2)
  <2>1. m.type = "ipfix" => Alive(s, op, r)
    BY <1>1 DEF InStep, m, s
  <2>2. QED
    BY <1>4, <2>1, <1>3
<1>13. s \in Session /\ s[2] <= gn[s[1]]
  BY <1>2 DEF Distinct
<1>14. m.type # "ipfix" => ~Alive(s, op, r2)
  <2>1. \A i \in 1 .. L - 1 : m.type # "ipfix" => r2[i] # CloseMsg(s)
    BY <1>5 DEF CloseMsg
  <2>2. m.type # "ipfix" => s \notin op
    BY <1>1 DEF InStep, m, s
  <2>3. QED
    BY <1>1, <2>1, <2>2 DEF Alive
<1>15. m.type = "close" => s \notin Closed(gn, op, r) /\ s \in Closed(gn, op, r2)
  BY <1>2, <1>3, <1>13, <1>14 DEF Closed
<1>16. m.type = "garbage" => s \in Past(gn, op, r2) /\ ~Alive(s, op, r)
  BY <1>1, <1>3, <1>4, <1>5, <1>13, <1>14 DEF Closed, Past
<1>17. QED
  BY <1>2, <1>7, <1>8, <1>9, <1>10, <1>11, <1>12, <1>15, <1>16 DEF m, s

LEMMA Forgetting ==
    ASSUME NEW al \in SUBSET Session, NEW op \in SUBSET al, NEW gn, NEW r, NEW s \in Past(gn, op, r),
           Distinct(al, gn), InStep(al, op, r)
    PROVE  InStep(al \ {s}, op, r) /\ op \subseteq al \ {s} /\ Distinct(al \ {s}, gn)
<1>1. s \notin op /\ \A i \in DOMAIN r : r[i].session # s
  BY DEF Past, Closed, Alive
<1>2. QED
  BY <1>1 DEF InStep, Distinct

-----------------------------------------------------------------------------
(* What is behind the parser.                                                *)

LEMMA TrafficStays ==
    ASSUME NEW past, NEW past2, NEW closed, NEW closed2, NEW al, NEW al2, NEW d,
           past \subseteq past2, closed \subseteq closed2, al \subseteq al2, Traffic(past, closed, al, d)
    PROVE  Traffic(past2, closed2, al2, d)
BY DEF Traffic

LEMMA TrafficGrows ==
    ASSUME NEW past, NEW closed, NEW al, NEW d \in Seq(DownMsg), NEW e \in Seq(DownMsg), Longer(d, e, 1),
           Traffic(past, closed, al, d),
           e[Len(d) + 1].type = "close" => e[Len(d) + 1].session \notin closed,
           e[Len(d) + 1].type = "garbage" => e[Len(d) + 1].session \in past,
           e[Len(d) + 1].type = "tmplts" /\ e[Len(d) + 1].closing => e[Len(d) + 1].session \in closed,
           e[Len(d) + 1].type = "parsed" => e[Len(d) + 1].session \in al /\ e[Len(d) + 1].session \notin past
    PROVE  Traffic(past, closed, al, e)
<1> DEFINE L == Len(d)
           m == e[L + 1]
<1>1. /\ L \in Nat /\ DOMAIN d = 1 .. L /\ DOMAIN e = 1 .. L + 1 /\ Len(e) = L + 1
      /\ \A i \in 1 .. L : e[i] = d[i]
      /\ \A i \in 1 .. L + 1 : i \in 1 .. L \/ i = L + 1
  BY DEF Longer
<1>2. m \in DownMsg /\ m.type \in {"parsed", "close", "garbage", "tmplts"} /\ (m.type = "close" <=> m = CloseMsg(m.session))
  <2>1. m \in DownMsg
    BY <1>1
  <2>2. QED
    BY <2>1, DownFacts
<1>3. /\ m.type = "close" => m.session \notin closed
      /\ m.type = "garbage" => m.session \in past
      /\ m.type = "tmplts" /\ m.closing => m.session \in closed
      /\ m.type = "parsed" => m.session \in al /\ m.session \notin past
  OBVIOUS
<1>4. e[L + 1] = m
  OBVIOUS
<1> HIDE DEF L, m
<1>5. \A j \in 1 .. L + 1 : e[j].type = "garbage" => e[j].session \in past
  BY <1>1, <1>3, <1>4 DEF Traffic
<1>6. ASSUME NEW j \in 1 .. L + 1, e[j].type = "tmplts", e[j].closing
      PROVE  e[j].session \in closed /\ \A k \in j .. L + 1 : e[k] # CloseMsg(e[j].session)
  <2>1. CASE j \in 1 .. L
    <3>1. e[j].session \in closed /\ \A k \in j .. L : e[k] # CloseMsg(e[j].session)
      BY <1>1, <1>6, <2>1 DEF Traffic
    <3>2. m # CloseMsg(e[j].session)
      BY <1>3, <3>1 DEF CloseMsg
    <3>3. \A k \in j .. L + 1 : k \in j .. L \/ k = L + 1
      BY <1>1
    <3>4. QED
      BY <1>4, <3>1, <3>2, <3>3
  <2>2. CASE j = L + 1
    <3>1. \A k \in j .. L + 1 : k = L + 1
      BY <1>1, <2>2
    <3>2. m # CloseMsg(m.session)
      BY <1>4, <1>6, <2>2 DEF CloseMsg
    <3>3. QED
      BY <1>3, <1>4, <1>6, <2>2, <3>1, <3>2
  <2>3. QED
    BY <1>1, <2>1, <2>2
<1>7. ASSUME NEW j \in 1 .. L + 1, e[j].type = "parsed"
      PROVE  e[j].session \in al /\ \A i \in 1 .. j - 1 : e[i].type = "garbage" => e[i].session # e[j].session
  <2>1. CASE j \in 1 .. L
    <3>1. \A i \in 1 .. j - 1 : i \in 1 .. L
      BY <1>1, <2>1
    <3>2. QED
      BY <1>1, <1>7, <2>1, <3>1 DEF Traffic
  <2>2. CASE j = L + 1
    <3>1. \A i \in 1 .. j - 1 : i \in 1 .. L
      BY <1>1, <2>2
    <3>2. QED
      BY <1>1, <1>3, <1>4, <1>7, <2>2, <3>1 DEF Traffic
  <2>3. QED
    BY <1>1, <2>1, <2>2
<1>8. QED
  BY <1>1, <1>5, <1>6, <1>7 DEF Traffic

LEMMA TrafficEnds ==
    ASSUME NEW past, NEW closed, NEW al, NEW d \in Seq(DownMsg), NEW e \in Seq(DownMsg), Shorter(d, e),
           Traffic(past, closed, al, d)
    PROVE  /\ Traffic(past, closed, al, e)
           /\ d[1].type = "garbage" => d[1].session \in past /\ Traffic(past, closed, al \ {d[1].session}, e)
<1> DEFINE L == Len(d)
<1>1. /\ L \in Nat \ {0} /\ DOMAIN d = 1 .. L /\ DOMAIN e = 1 .. L - 1 /\ Len(e) = L - 1 /\ 1 \in 1 .. L
      /\ \A i \in 1 .. L - 1 : e[i] = d[i + 1] /\ i + 1 \in 1 .. L /\ 1 \in 1 .. (i + 1) - 1
      /\ \A j \in 1 .. L - 1, k \in 1 .. L : k \in 1 .. j - 1 => k + 1 \in 1 .. (j + 1) - 1 /\ k \in 1 .. L - 1
      /\ \A j \in 1 .. L - 1, k \in 1 .. L : k \in j .. L - 1 => k + 1 \in j + 1 .. L /\ k \in 1 .. L - 1
  BY DEF Shorter
<1>2. \A j \in 1 .. L - 1, k \in Int : k \in 1 .. j - 1 \/ k \in j .. L - 1 => k \in 1 .. L
  BY <1>1
<1> HIDE DEF L
<1>3. \A j \in 1 .. L - 1 : e[j].type = "garbage" => e[j].session \in past
  BY <1>1 DEF Traffic
<1>4. ASSUME NEW j \in 1 .. L - 1, e[j].type = "tmplts", e[j].closing
      PROVE  e[j].session \in closed /\ \A k \in j .. L - 1 : e[k] # CloseMsg(e[j].session)
  <2>1. d[j + 1].session \in closed /\ \A k \in j + 1 .. L : d[k] # CloseMsg(d[j + 1].session)
    BY <1>1, <1>4 DEF Traffic
  <2>2. QED
    BY <1>1, <1>2, <2>1
<1>5. ASSUME NEW j \in 1 .. L - 1, e[j].type = "parsed"
      PROVE  /\ e[j].session \in al /\ \A i \in 1 .. j - 1 : e[i].type = "garbage" => e[i].session # e[j].session
             /\ d[1].type = "garbage" => d[1].session # e[j].session
  <2>1. /\ d[j + 1].session \in al
        /\ \A i \in 1 .. (j + 1) - 1 : d[i].type = "garbage" => d[i].session # d[j + 1].session
    BY <1>1, <1>5 DEF Traffic
  <2>2. QED
    BY <1>1, <1>2, <2>1
<1>6. d[1].type = "garbage" => d[1].session \in past
  BY <1>1 DEF Traffic
<1>7. QED
  BY <1>1, <1>3, <1>4, <1>5, <1>6 DEF Traffic

-----------------------------------------------------------------------------
(* The contexts.                                                             *)

LEMMA NewContext ==
    ASSUME NEW kept, NEW n \in Nat, NEW fr, NEW lo, NEW d, Owned(kept, n, fr, lo, d)
    PROVE  Owned(kept \cup {n + 1}, n + 1, fr, lo, d) /\ n + 1 \notin kept
<1>1. \A c : c \in 1 .. n + 1 <=> c \in 1 .. n \/ c = n + 1
  OBVIOUS
<1>2. n + 1 \notin 1 .. n
  OBVIOUS
<1> DEFINE m == n + 1
           N == 1 .. n
           M == 1 .. m
<1> HIDE DEF m, N, M
<1>3. (\A c : c \in M <=> c \in N \/ c = m) /\ m \notin N
  BY <1>1, <1>2 DEF m, N, M
<1>4. /\ \A c : c \in N <=> c \in kept \/ c \in fr \/ c \in lo \/ \E j \in DOMAIN d : Holds(d[j], c)
      /\ \A c : c \in kept => c \notin fr /\ c \notin lo
      /\ \A c : c \in fr => c \notin lo
      /\ \A j \in DOMAIN d : \A c : Holds(d[j], c) => c \notin kept /\ c \notin fr /\ c \notin lo
      /\ \A i, j \in DOMAIN d : \A c : Holds(d[i], c) /\ Holds(d[j], c) => i = j
      /\ \A j \in DOMAIN d : \A c : d[j].type = "parsed" /\ c \in d[j].ctxs =>
              c \in N /\ c \notin fr /\ \A i \in 1 .. j - 1 : ~Holds(d[i], c)
  BY DEF Owned, N
<1>5. m \notin kept /\ m \notin fr /\ m \notin lo /\ \A j \in DOMAIN d : ~Holds(d[j], m)
  BY <1>3, <1>4
<1> DEFINE kept2 == kept \cup {m}
<1>6. \A c : c \in kept2 <=> c \in kept \/ c = m
  OBVIOUS
<1> HIDE DEF kept2
<1>7. Owned(kept2, m, fr, lo, d)
  <2>1. \A c : c \in M <=> c \in kept2 \/ c \in fr \/ c \in lo \/ \E j \in DOMAIN d : Holds(d[j], c)
    BY <1>3, <1>4, <1>6
  <2>2. \A c : c \in kept2 => c \notin fr /\ c \notin lo
    BY <1>4, <1>5, <1>6
  <2>3. \A j \in DOMAIN d : \A c : Holds(d[j], c) => c \notin kept2 /\ c \notin fr /\ c \notin lo
    BY <1>4, <1>5, <1>6
  <2>4. \A j \in DOMAIN d : \A c : d[j].type = "parsed" /\ c \in d[j].ctxs =>
              c \in M /\ c \notin fr /\ \A i \in 1 .. j - 1 : ~Holds(d[i], c)
    BY <1>3, <1>4
  <2>5. QED
    BY <1>4, <2>1, <2>2, <2>3, <2>4 DEF Owned, M
<1>8. QED
  BY <1>5, <1>7 DEF kept2, m

LEMMA LosingContexts ==
    ASSUME NEW kept, NEW gone \in SUBSET kept, NEW n, NEW fr, NEW lo, NEW d, Owned(kept, n, fr, lo, d)
    PROVE  Owned(kept \ gone, n, fr, lo \cup gone, d)
<1> DEFINE kept2 == kept \ gone
           lo2 == lo \cup gone
<1>1. /\ \A c : c \in kept2 <=> c \in kept /\ c \notin gone
      /\ \A c : c \in lo2 <=> c \in lo \/ c \in gone
      /\ \A c : c \in gone => c \in kept
  OBVIOUS
<1> HIDE DEF kept2, lo2
<1>2. \A c : c \in 1 .. n <=> c \in kept2 \/ c \in fr \/ c \in lo2 \/ \E j \in DOMAIN d : Holds(d[j], c)
  BY <1>1 DEF Owned
<1>3. \A c : c \in kept2 => c \notin fr /\ c \notin lo2
  BY <1>1 DEF Owned
<1>4. \A c : c \in fr => c \notin lo2
  BY <1>1 DEF Owned
<1>5. \A j \in DOMAIN d : \A c : Holds(d[j], c) => c \notin kept2 /\ c \notin fr /\ c \notin lo2
  BY <1>1 DEF Owned
<1>6. QED
  BY <1>2, <1>3, <1>4, <1>5 DEF Owned, kept2, lo2

\* A message behind the parser that may take contexts out of the records.
LEMMA OwnedGrows ==
    ASSUME NEW kept, NEW gone \in SUBSET kept, NEW n, NEW fr, NEW lo,
           NEW d \in Seq(DownMsg), NEW e \in Seq(DownMsg), Longer(d, e, 1), Owned(kept, n, fr, lo, d),
           IF e[Len(d) + 1].type = "tmplts" THEN e[Len(d) + 1].ctxs = gone ELSE gone = {},
           e[Len(d) + 1].type = "parsed" => e[Len(d) + 1].ctxs \subseteq kept
    PROVE  Owned(kept \ gone, n, fr, lo, e)
<1> DEFINE L == Len(d)
           m == e[L + 1]
           kept2 == kept \ gone
<1>1. /\ L \in Nat /\ DOMAIN d = 1 .. L /\ DOMAIN e = 1 .. L + 1 /\ \A i \in 1 .. L : e[i] = d[i]
      /\ \A i \in 1 .. L + 1 : i \in 1 .. L \/ i = L + 1
      /\ L + 1 \in 1 .. L + 1 /\ L + 1 \notin 1 .. L /\ \A i \in 1 .. L : i \in 1 .. L + 1
      /\ \A j \in 1 .. L + 1 : \A i \in 1 .. j - 1 : i \in 1 .. L
  BY DEF Longer
<1>2. e[L + 1] = m
  OBVIOUS
<1>3. \A c : Holds(m, c) <=> c \in gone
  BY DEF Holds
<1>4. \A c : m.type = "parsed" /\ c \in m.ctxs => c \in kept /\ c \notin gone
  OBVIOUS
<1>5. /\ \A c : c \in kept2 <=> c \in kept /\ c \notin gone
      /\ \A c : c \in gone => c \in kept
  OBVIOUS
<1>6. /\ \A c : c \in 1 .. n <=> c \in kept \/ c \in fr \/ c \in lo \/ \E j \in 1 .. L : Holds(d[j], c)
      /\ \A c : c \in kept => c \notin fr /\ c \notin lo
      /\ \A c : c \in fr => c \notin lo
      /\ \A j \in 1 .. L : \A c : Holds(d[j], c) => c \notin kept /\ c \notin fr /\ c \notin lo
      /\ \A i, j \in 1 .. L : \A c : Holds(d[i], c) /\ Holds(d[j], c) => i = j
      /\ \A j \in 1 .. L : \A c : d[j].type = "parsed" /\ c \in d[j].ctxs =>
              c \in 1 .. n /\ c \notin fr /\ \A i \in 1 .. j - 1 : ~Holds(d[i], c)
  BY <1>1 DEF Owned
<1> HIDE DEF L, m, kept2
<1>7. \A c : (\E j \in 1 .. L + 1 : Holds(e[j], c)) <=> (\E j \in 1 .. L : Holds(d[j], c)) \/ c \in gone
  BY <1>1, <1>2, <1>3
<1>8. \A c : c \in 1 .. n <=> c \in kept2 \/ c \in fr \/ c \in lo \/ \E j \in 1 .. L + 1 : Holds(e[j], c)
  BY <1>5, <1>6, <1>7
<1>9. \A c : c \in kept2 => c \notin fr /\ c \notin lo
  BY <1>5, <1>6
<1>10. \A j \in 1 .. L + 1 : \A c : Holds(e[j], c) => c \notin kept2 /\ c \notin fr /\ c \notin lo
  BY <1>1, <1>2, <1>3, <1>5, <1>6
<1>11. \A i, j \in 1 .. L + 1 : \A c : Holds(e[i], c) /\ Holds(e[j], c) => i = j
  BY <1>1, <1>2, <1>3, <1>5, <1>6
<1>12. ASSUME NEW j \in 1 .. L + 1, NEW c, e[j].type = "parsed", c \in e[j].ctxs
       PROVE  c \in 1 .. n /\ c \notin fr /\ \A i \in 1 .. j - 1 : ~Holds(e[i], c)
  <2>1. CASE j \in 1 .. L
    BY <1>1, <1>6, <1>12, <2>1
  <2>2. CASE j = L + 1
    <3>1. c \in kept
      BY <1>2, <1>4, <1>12, <2>2
    <3>2. \A i \in 1 .. L : ~Holds(d[i], c)
      BY <1>6, <3>1
    <3>3. QED
      BY <1>1, <1>6, <3>1, <3>2
  <2>3. QED
    BY <1>1, <2>1, <2>2
<1>13. QED
  BY <1>1, <1>6, <1>8, <1>9, <1>10, <1>11, <1>12 DEF Owned, kept2

LEMMA OwnedEnds ==
    ASSUME NEW kept, NEW n, NEW fr, NEW lo, NEW d \in Seq(DownMsg), NEW e \in Seq(DownMsg), Shorter(d, e),
           Owned(kept, n, fr, lo, d)
    PROVE  Owned(kept, n, IF d[1].type = "tmplts" THEN fr \cup d[1].ctxs ELSE fr, lo, e)
<1> DEFINE L == Len(d)
           fr2 == IF d[1].type = "tmplts" THEN fr \cup d[1].ctxs ELSE fr
<1>1. /\ L \in Nat \ {0} /\ DOMAIN d = 1 .. L /\ DOMAIN e = 1 .. L - 1 /\ 1 \in 1 .. L
      /\ \A i \in 1 .. L - 1 : e[i] = d[i + 1] /\ i + 1 \in 1 .. L /\ i + 1 # 1 /\ 1 \in 1 .. (i + 1) - 1
      /\ \A j \in 1 .. L - 1 : \A i \in 1 .. j - 1 : i + 1 \in 1 .. (j + 1) - 1 /\ i \in 1 .. L - 1
  BY DEF Shorter
<1>2. \A i \in 1 .. L : i = 1 \/ \E k \in 1 .. L - 1 : i = k + 1
  <2>1. ASSUME NEW i \in 1 .. L, i # 1 PROVE \E k \in 1 .. L - 1 : i = k + 1
    <3>1. i - 1 \in 1 .. L - 1 /\ i = (i - 1) + 1
      BY <1>1, <2>1
    <3>2. QED
      BY <3>1
  <2>2. QED
    BY <2>1
<1>3. \A i, j \in 1 .. L - 1 : i + 1 = j + 1 => i = j
  BY <1>1
<1>4. \A c : c \in fr2 <=> c \in fr \/ Holds(d[1], c)
  BY DEF Holds
<1>5. /\ \A c : c \in 1 .. n <=> c \in kept \/ c \in fr \/ c \in lo \/ \E j \in 1 .. L : Holds(d[j], c)
      /\ \A c : c \in kept => c \notin fr /\ c \notin lo
      /\ \A c : c \in fr => c \notin lo
      /\ \A j \in 1 .. L : \A c : Holds(d[j], c) => c \notin kept /\ c \notin fr /\ c \notin lo
      /\ \A i, j \in 1 .. L : \A c : Holds(d[i], c) /\ Holds(d[j], c) => i = j
      /\ \A j \in 1 .. L : \A c : d[j].type = "parsed" /\ c \in d[j].ctxs =>
              c \in 1 .. n /\ c \notin fr /\ \A i \in 1 .. j - 1 : ~Holds(d[i], c)
  BY <1>1 DEF Owned
<1> HIDE DEF L, fr2
<1>6. \A c : (\E j \in 1 .. L : Holds(d[j], c)) <=> Holds(d[1], c) \/ \E j \in 1 .. L - 1 : Holds(e[j], c)
  BY <1>1, <1>2
<1>7. \A c : c \in 1 .. n <=> c \in kept \/ c \in fr2 \/ c \in lo \/ \E j \in 1 .. L - 1 : Holds(e[j], c)
  BY <1>4, <1>5, <1>6
<1>8. \A c : Holds(d[1], c) => c \notin kept /\ c \notin fr /\ c \notin lo
  BY <1>1, <1>5
<1>9. (\A c : c \in kept => c \notin fr2 /\ c \notin lo) /\ (\A c : c \in fr2 => c \notin lo)
  BY <1>4, <1>5, <1>8
<1>10. ASSUME NEW j \in 1 .. L - 1, NEW c, Holds(e[j], c) PROVE c \notin kept /\ c \notin fr2 /\ c \notin lo
  <2>1. Holds(d[j + 1], c) /\ j + 1 \in 1 .. L /\ j + 1 # 1
    BY <1>1, <1>10
  <2>2. ~Holds(d[1], c)
    BY <1>1, <1>5, <2>1
  <2>3. QED
    BY <1>4, <1>5, <2>1, <2>2
<1>11. \A i, j \in 1 .. L - 1 : \A c : Holds(e[i], c) /\ Holds(e[j], c) => i = j
  <2>1. \A i, j \in 1 .. L - 1 : \A c : Holds(e[i], c) /\ Holds(e[j], c) => i + 1 = j + 1
    BY <1>1, <1>5
  <2>2. QED
    BY <1>3, <2>1
<1>12. ASSUME NEW j \in 1 .. L - 1, NEW c, e[j].type = "parsed", c \in e[j].ctxs
       PROVE  c \in 1 .. n /\ c \notin fr2 /\ \A i \in 1 .. j - 1 : ~Holds(e[i], c)
  <2>1. c \in 1 .. n /\ c \notin fr /\ \A i \in 1 .. (j + 1) - 1 : ~Holds(d[i], c)
    BY <1>1, <1>5, <1>12
  <2>2. ~Holds(d[1], c)
    BY <1>1, <2>1
  <2>3. QED
    BY <1>1, <1>4, <2>1, <2>2
<1>13. QED
  BY <1>1, <1>7, <1>9, <1>10, <1>11, <1>12 DEF Owned, fr2

-----------------------------------------------------------------------------
(* How many contexts there are.                                              *)

LEMMA WaitingIsFinite ==
    ASSUME NEW r \in Seq(RingMsg)
    PROVE  IsFiniteSet(Waiting(r)) /\ Cardinality(Waiting(r)) \in Nat /\ Waiting(r) \subseteq 1 .. Len(r)
<1>1. 1 \in Int /\ Len(r) \in Int /\ Waiting(r) \subseteq 1 .. Len(r)
  BY DEF Waiting
<1>2. IsFiniteSet(1 .. Len(r))
  BY <1>1, FS_Interval
<1>3. IsFiniteSet(Waiting(r))
  BY <1>1, <1>2, FS_Subset
<1>4. QED
  BY <1>1, <1>3, FS_CardinalityType

LEMMA NumberedGrows ==
    ASSUME NEW n, NEW k, NEW r \in Seq(RingMsg), NEW r2 \in Seq(RingMsg), Numbered(n, r, k)
    PROVE  /\ Longer(r, r2, 2) /\ r2[Len(r) + 1].type = "close" /\ r2[Len(r) + 2].type = "garbage" => Numbered(n, r2, k)
           /\ Longer(r, r2, 1) /\ r2[Len(r) + 1].type = "ipfix" /\ k < MaxMsg => Numbered(n, r2, k + 1)
<1> DEFINE L == Len(r)
<1>1. L \in Nat /\ DOMAIN r = 1 .. L /\ DOMAIN r2 = 1 .. Len(r2)
  OBVIOUS
<1>2. ASSUME Longer(r, r2, 2), r2[L + 1].type = "close", r2[L + 2].type = "garbage" PROVE Waiting(r2) = Waiting(r)
  <2>1. /\ DOMAIN r2 = 1 .. L + 2 /\ \A i \in 1 .. L : r2[i] = r[i]
        /\ \A i \in 1 .. L + 2 : i \in 1 .. L \/ i = L + 1 \/ i = L + 2
        /\ \A i \in 1 .. L : i \in 1 .. L + 2
    BY <1>1, <1>2 DEF Longer
  <2> HIDE DEF L
  <2>2. QED
    BY <1>1, <1>2, <2>1 DEF Waiting
<1>3. ASSUME Longer(r, r2, 1), r2[L + 1].type = "ipfix", k < MaxMsg PROVE Numbered(n, r2, k + 1)
  <2>1. /\ DOMAIN r2 = 1 .. L + 1 /\ \A i \in 1 .. L : r2[i] = r[i]
        /\ \A i \in 1 .. L + 1 : i \in 1 .. L \/ i = L + 1
        /\ \A i \in 1 .. L : i \in 1 .. L + 1
        /\ L + 1 \in 1 .. L + 1 /\ L + 1 \notin 1 .. L
    BY <1>1, <1>3 DEF Longer
  <2> HIDE DEF L
  <2>2. Waiting(r2) = Waiting(r) \cup {L + 1} /\ L + 1 \notin Waiting(r)
    BY <1>1, <1>3, <2>1 DEF Waiting
  <2>3. Cardinality(Waiting(r2)) = Cardinality(Waiting(r)) + 1
    BY <2>2, WaitingIsFinite, FS_AddElement
  <2>4. QED
    BY <1>3, <2>3, WaitingIsFinite, BoundsAssumption DEF Numbered
<1>4. QED
  BY <1>2, <1>3 DEF Numbered

LEMMA NumberedTakes ==
    ASSUME NEW n, NEW k, NEW r \in Seq(RingMsg), NEW r2 \in Seq(RingMsg), Shorter(r, r2), Numbered(n, r, k)
    PROVE  /\ Numbered(n, r2, k)
           /\ r[1].type = "ipfix" => n + 1 \in Ctx /\ Numbered(n + 1, r2, k)
<1> DEFINE L == Len(r)
           D == Waiting(r2)
           E == Waiting(r) \ {1}
           f == [i \in D |-> i + 1]
<1>1. /\ L \in Nat \ {0} /\ DOMAIN r = 1 .. L /\ DOMAIN r2 = 1 .. L - 1
      /\ \A i \in 1 .. L - 1 : r2[i] = r[i + 1] /\ i + 1 \in 1 .. L /\ i + 1 # 1
      /\ \A i \in 1 .. L : i = 1 \/ (i - 1 \in 1 .. L - 1 /\ (i - 1) + 1 = i)
  BY DEF Shorter
<1> HIDE DEF L
<1>2. \A i \in D : i + 1 \in E
  BY <1>1 DEF Waiting
<1>3. \A i \in E : i - 1 \in D /\ (i - 1) + 1 = i
  BY <1>1 DEF Waiting
<1>4. D \subseteq Nat /\ IsFiniteSet(D) /\ Cardinality(D) \in Nat
  <2>1. \A i \in 1 .. L - 1 : i \in Nat
    BY <1>1
  <2>2. QED
    BY <1>1, <2>1, WaitingIsFinite DEF Waiting
<1>5. IsFiniteSet(Waiting(r)) /\ Cardinality(Waiting(r)) \in Nat /\ IsFiniteSet(E)
  BY WaitingIsFinite, FS_Subset
<1> HIDE DEF D, E
<1>6. Cardinality(E) = Cardinality(D)
  <2>1. f \in [D -> E]
    BY <1>2
  <2>2. \A a, b \in D : f[a] = f[b] => a = b
    BY <1>4
  <2>3. \A i \in E : \E a \in D : f[a] = i
    BY <1>3
  <2> HIDE DEF f
  <2>4. f \in Bijection(D, E)
    BY <2>1, <2>2, <2>3, Fun_IsBij
  <2>5. ExistsBijection(D, E)
    BY <2>4 DEF ExistsBijection
  <2>6. QED
    BY <1>4, <1>5, <2>5, FS_Bijection
<1>7. Cardinality(Waiting(r2)) <= Cardinality(Waiting(r))
  BY <1>4, <1>5, <1>6, FS_CardinalityType, FS_Subset DEF D, E
<1>8. r[1].type = "ipfix" => Cardinality(Waiting(r)) = Cardinality(Waiting(r2)) + 1
  <2>1. r[1].type = "ipfix" => 1 \in Waiting(r)
    BY <1>1 DEF Waiting
  <2>2. QED
    BY <1>4, <1>5, <1>6, <2>1, FS_RemoveElement DEF D, E
<1>9. Cardinality(Waiting(r2)) \in Nat
  BY <1>4 DEF D
<1>10. QED
  BY <1>5, <1>7, <1>8, <1>9, BoundsAssumption DEF Numbered, Ctx

-----------------------------------------------------------------------------
(* The steps of the input.                                                   *)

LEMMA CloseStep ==
    ASSUME IInv, NEW s \in open, CloseSession(s)
    PROVE  /\ ring' \in Seq(RingMsg) /\ Len(ring') <= RingCap /\ Longer(ring, ring', 2) /\ open' = open \ {s}
           /\ ring'[Len(ring) + 1] = CloseMsg(s) /\ ring'[Len(ring) + 2] = SessionGarbage(s)
<1>1. ring \in Seq(RingMsg) /\ s \in Session
  BY DEF IInv, Types
<1>2. CloseMsg(s) \in RingMsg /\ SessionGarbage(s) \in RingMsg
  BY <1>1, RingMade
<1>3. ring' = ring \o <<CloseMsg(s), SessionGarbage(s)>> /\ Len(ring) + 2 <= RingCap /\ open' = open \ {s}
  BY DEF CloseSession
<1>4. ring' \in Seq(RingMsg) /\ Longer(ring, ring', 2)
      /\ ring'[Len(ring) + 1] = CloseMsg(s) /\ ring'[Len(ring) + 2] = SessionGarbage(s)
  BY <1>1, <1>2, <1>3, TwoMore
<1>5. QED
  BY <1>3, <1>4 DEF Longer

\* What the invariant says after a step of the input that leaves the ring and
\* the sessions alone, closes one, sends a message of one or opens one.
InputKeeps == UNCHANGED <<gen, alloc, open, ring, sent>>
InputCloses == UNCHANGED <<gen, alloc, sent>> /\ \E s \in open : CloseSession(s)
InputSends ==
    /\ UNCHANGED <<gen, alloc, open>> /\ sent < MaxMsg /\ sent' = sent + 1 /\ Len(ring) < RingCap
    /\ \E s \in open, o \in Odid, k \in Kind : ring' = Append(ring, Ipfix(s, o, k))
InputOpens ==
    /\ UNCHANGED <<ring, sent>>
    /\ \E a \in Addr : /\ gen[a] < MaxGen /\ (\A s \in alloc : s[1] # a)
                       /\ gen' = [gen EXCEPT ![a] = @ + 1]
                       /\ alloc' = alloc \cup {<<a, gen[a] + 1>>}
                       /\ open' = open \cup {<<a, gen[a] + 1>>}

LEMMA InputDoes ==
    ASSUME IInv, Input
    PROVE  /\ UNCHANGED <<transport, recs, room, down, ctxs, freed, lost, bad>>
           /\ ipc' \in {"poll", "get", "ended", "gone"} /\ fpipe' \in Seq(Session)
           /\ InputKeeps \/ InputCloses \/ InputSends \/ InputOpens
<1>1. fpipe \in Seq(Session)
  BY DEF IInv, Types
<1>2. CASE Poll
  <2>1. CASE fpipe = <<>>
    BY <1>1, <1>2, <2>1 DEF Poll, inputIdle, InputKeeps
  <2>2. CASE fpipe # <<>>
    <3>1. fpipe' = Tail(fpipe) /\ fpipe' \in Seq(Session)
      BY <1>1, <1>2, <2>2 DEF Poll
    <3>2. InputKeeps \/ InputCloses
      BY <1>2, <2>2 DEF Poll, InputKeeps, InputCloses
    <3>3. QED
      BY <1>2, <3>1, <3>2 DEF Poll, inputIdle
  <2>3. QED
    BY <2>1, <2>2
<1>3. CASE GetNothing \/ InputEnd
  BY <1>1, <1>3 DEF GetNothing, InputEnd, inputIdle, InputKeeps
<1>4. ASSUME NEW a \in Addr, GetOpen(a) PROVE InputOpens /\ UNCHANGED <<fpipe, inputIdle>> /\ ipc' = "poll"
  BY <1>4 DEF GetOpen, InputOpens
<1>5. ASSUME NEW s \in Session, GetClose(s) PROVE InputCloses /\ UNCHANGED <<fpipe, inputIdle>> /\ ipc' = "poll"
  BY <1>5 DEF GetClose, InputCloses
<1>6. ASSUME NEW s \in Session, NEW o \in Odid, NEW k \in Kind, GetMessage(s, o, k)
      PROVE  InputSends /\ UNCHANGED <<fpipe, inputIdle>> /\ ipc' = "poll"
  BY <1>6 DEF GetMessage, InputSends
<1>7. CASE (InputOpens \/ InputCloses \/ InputSends) /\ UNCHANGED <<fpipe, inputIdle>> /\ ipc' = "poll"
  BY <1>1, <1>7 DEF inputIdle
<1>8. QED
  BY <1>2, <1>3, <1>4, <1>5, <1>6, <1>7 DEF Input

LEMMA InputRing ==
    ASSUME IInv, Input
    PROVE  /\ gen' \in [Addr -> 0 .. MaxGen] /\ open' \subseteq alloc' /\ alloc' \subseteq Session
           /\ ring' \in Seq(RingMsg) /\ Len(ring') <= RingCap
           /\ Numbered(ctxs, ring', sent') /\ Distinct(alloc', gen') /\ InStep(alloc', open', ring')
           /\ \A t : Alive(t, open, ring) => Alive(t, open', ring')
           /\ Closed(gen, open, ring) \subseteq Closed(gen', open', ring')
           /\ Past(gen, open, ring) \subseteq Past(gen', open', ring')
           /\ alloc \subseteq alloc'
<1>1. /\ gen \in [Addr -> 0 .. MaxGen] /\ alloc \in SUBSET Session /\ open \in SUBSET alloc
      /\ ring \in Seq(RingMsg) /\ Len(ring) <= RingCap
      /\ Numbered(ctxs, ring, sent) /\ Distinct(alloc, gen) /\ InStep(alloc, open, ring)
  BY DEF IInv, Types
<1>2. CASE InputKeeps
  BY <1>1, <1>2 DEF InputKeeps
<1>3. CASE InputCloses
  <2>1. PICK s \in open : CloseSession(s)
    BY <1>3 DEF InputCloses
  <2>2. /\ ring' \in Seq(RingMsg) /\ Len(ring') <= RingCap /\ Longer(ring, ring', 2) /\ open' = open \ {s}
        /\ ring'[Len(ring) + 1] = CloseMsg(s) /\ ring'[Len(ring) + 2] = SessionGarbage(s)
    BY <2>1, CloseStep
  <2>3. ring'[Len(ring) + 1].type = "close" /\ ring'[Len(ring) + 2].type = "garbage"
    BY <1>1, <2>2, RingMade
  <2>4. Numbered(ctxs, ring', sent)
    BY <1>1, <2>2, <2>3, NumberedGrows
  <2>5. /\ InStep(alloc, open \ {s}, ring')
        /\ \A t : Alive(t, open, ring) <=> Alive(t, open \ {s}, ring')
        /\ Closed(gen, open, ring) = Closed(gen, open \ {s}, ring')
        /\ Past(gen, open, ring) \subseteq Past(gen, open \ {s}, ring')
    BY <1>1, <2>2, Closing
  <2>6. UNCHANGED <<gen, alloc, sent>>
    BY <1>3 DEF InputCloses
  <2>7. QED
    BY <1>1, <2>2, <2>4, <2>5, <2>6
<1>4. CASE InputSends
  <2>1. PICK s \in open, o \in Odid, k \in Kind : ring' = Append(ring, Ipfix(s, o, k))
    BY <1>4 DEF InputSends
  <2>2. Ipfix(s, o, k) \in RingMsg /\ Ipfix(s, o, k).type = "ipfix" /\ Ipfix(s, o, k).session = s
    BY <1>1, RingMade
  <2>3. ring' \in Seq(RingMsg) /\ Longer(ring, ring', 1) /\ ring'[Len(ring) + 1] = Ipfix(s, o, k)
    BY <1>1, <2>1, <2>2, OneMore
  <2>4. Len(ring') <= RingCap
    BY <1>1, <1>4, <2>3, BoundsAssumption DEF InputSends, Longer
  <2>5. sent < MaxMsg /\ sent' = sent + 1 /\ UNCHANGED <<gen, alloc, open>>
    BY <1>4 DEF InputSends
  <2>6. Numbered(ctxs, ring', sent + 1)
    BY <1>1, <2>2, <2>3, <2>5, NumberedGrows
  <2>7. /\ InStep(alloc, open, ring')
        /\ \A t : Alive(t, open, ring) <=> Alive(t, open, ring')
        /\ Closed(gen, open, ring) = Closed(gen, open, ring')
        /\ Past(gen, open, ring) \subseteq Past(gen, open, ring')
    BY <1>1, <2>2, <2>3, Sending
  <2>8. QED
    BY <1>1, <2>3, <2>4, <2>5, <2>6, <2>7
<1>5. CASE InputOpens
  <2>1. PICK a \in Addr : /\ gen[a] < MaxGen /\ (\A s \in alloc : s[1] # a)
                          /\ gen' = [gen EXCEPT ![a] = @ + 1]
                          /\ alloc' = alloc \cup {<<a, gen[a] + 1>>}
                          /\ open' = open \cup {<<a, gen[a] + 1>>}
    BY <1>5 DEF InputOpens
  <2>2. /\ <<a, gen[a] + 1>> \in Session /\ gen' \in [Addr -> 0 .. MaxGen]
        /\ Distinct(alloc', gen') /\ InStep(alloc', open', ring)
        /\ \A t : Alive(t, open, ring) => Alive(t, open', ring)
        /\ Closed(gen, open, ring) \subseteq Closed(gen', open', ring)
        /\ Past(gen, open, ring) \subseteq Past(gen', open', ring)
    BY <1>1, <2>1, Opening
  <2>3. UNCHANGED <<ring, sent>>
    BY <1>5 DEF InputOpens
  <2>4. QED
    BY <1>1, <2>1, <2>2, <2>3
<1>6. QED
  BY <1>2, <1>3, <1>4, <1>5, InputDoes

LEMMA InputStep == IInv /\ Input => IInv'
<1>1. SUFFICES ASSUME IInv, Input PROVE IInv'
  OBVIOUS
<1>2. /\ UNCHANGED <<transport, recs, room, down, ctxs, freed, lost, bad>>
      /\ ipc' \in {"poll", "get", "ended", "gone"} /\ fpipe' \in Seq(Session)
  BY <1>1, InputDoes
<1>3. /\ gen' \in [Addr -> 0 .. MaxGen] /\ open' \subseteq alloc' /\ alloc' \subseteq Session
      /\ ring' \in Seq(RingMsg) /\ Len(ring') <= RingCap
      /\ Numbered(ctxs, ring', sent') /\ Distinct(alloc', gen') /\ InStep(alloc', open', ring')
      /\ \A t : Alive(t, open, ring) => Alive(t, open', ring')
      /\ Closed(gen, open, ring) \subseteq Closed(gen', open', ring')
      /\ Past(gen, open, ring) \subseteq Past(gen', open', ring')
      /\ alloc \subseteq alloc'
  BY <1>1, InputRing
<1>4. Types'
  BY <1>1, <1>2, <1>3 DEF IInv, Types
<1>5. \A s \in Sess(recs') : Alive(s, open', ring')
  BY <1>1, <1>2, <1>3 DEF IInv
<1>6. Traffic(Past(gen', open', ring'), Closed(gen', open', ring'), alloc', down')
  <2>1. Traffic(Past(gen, open, ring), Closed(gen, open, ring), alloc, down)
    BY <1>1 DEF IInv
  <2>2. QED
    BY <1>2, <1>3, <2>1, TrafficStays
<1>7. Owned(Kept(recs'), ctxs', freed', lost', down')
  BY <1>1, <1>2 DEF IInv
<1>8. QED
  BY <1>2, <1>3, <1>4, <1>5, <1>6, <1>7 DEF IInv

-----------------------------------------------------------------------------
(* The steps of the parser.                                                  *)

LEMMA ParserTakes ==
    ASSUME IInv, ring # <<>>, ring' = Tail(ring), UNCHANGED <<gen, alloc, open>>
    PROVE  /\ ring' \in Seq(RingMsg) /\ Len(ring') <= RingCap /\ Head(ring) = ring[1] /\ ring[1] \in RingMsg
           /\ InStep(alloc, open, ring')
           /\ \A t : Alive(t, open, ring) => Alive(t, open, ring') \/ (ring[1].type = "close" /\ t = ring[1].session)
           /\ Closed(gen, open, ring) \subseteq Closed(gen, open, ring')
           /\ Past(gen, open, ring) \subseteq Past(gen, open, ring')
           /\ ring[1].session \in alloc /\ ring[1].session \notin Past(gen, open, ring)
           /\ ring[1].type = "ipfix" => Alive(ring[1].session, open, ring')
           /\ ring[1].type = "close" => /\ ring[1].session \notin Closed(gen, open, ring)
                                        /\ ring[1].session \in Closed(gen, open, ring')
           /\ ring[1].type = "garbage" => /\ ring[1].session \in Past(gen, open, ring')
                                          /\ ~Alive(ring[1].session, open, ring)
           /\ Numbered(ctxs, ring', sent)
           /\ ring[1].type = "ipfix" => ctxs + 1 \in Ctx /\ Numbered(ctxs + 1, ring', sent)
<1>1. /\ alloc \in SUBSET Session /\ open \in SUBSET alloc
      /\ ring \in Seq(RingMsg) /\ Len(ring) <= RingCap
      /\ Numbered(ctxs, ring, sent) /\ Distinct(alloc, gen) /\ InStep(alloc, open, ring)
  BY DEF IInv, Types
<1>2. ring' \in Seq(RingMsg) /\ Shorter(ring, ring') /\ Head(ring) = ring[1] /\ ring[1] \in RingMsg
  BY <1>1, OneLess
<1>3. Len(ring') <= RingCap
  BY <1>1, <1>2, BoundsAssumption DEF Shorter
<1>4. /\ Numbered(ctxs, ring', sent)
      /\ ring[1].type = "ipfix" => ctxs + 1 \in Ctx /\ Numbered(ctxs + 1, ring', sent)
  BY <1>1, <1>2, NumberedTakes
<1>5. /\ InStep(alloc, open, ring')
      /\ \A t : Alive(t, open, ring) => Alive(t, open, ring') \/ (ring[1].type = "close" /\ t = ring[1].session)
      /\ Closed(gen, open, ring) \subseteq Closed(gen, open, ring')
      /\ Past(gen, open, ring) \subseteq Past(gen, open, ring')
      /\ ring[1].session \in alloc /\ ring[1].session \notin Past(gen, open, ring)
      /\ ring[1].type = "ipfix" => Alive(ring[1].session, open, ring')
      /\ ring[1].type = "close" => /\ ring[1].session \notin Closed(gen, open, ring)
                                   /\ ring[1].session \in Closed(gen, open, ring')
      /\ ring[1].type = "garbage" => /\ ring[1].session \in Past(gen, open, ring')
                                     /\ ~Alive(ring[1].session, open, ring)
  <2>1. \A gn, r2 : r2 \in Seq(RingMsg) /\ Shorter(ring, r2) /\ Distinct(alloc, gn) =>
           /\ InStep(alloc, open, r2)
           /\ \A t : Alive(t, open, ring) => Alive(t, open, r2) \/ (ring[1].type = "close" /\ t = ring[1].session)
           /\ Closed(gn, open, ring) \subseteq Closed(gn, open, r2)
           /\ Past(gn, open, ring) \subseteq Past(gn, open, r2)
           /\ ring[1].session \in alloc /\ ring[1].session \notin Past(gn, open, ring)
           /\ ring[1].type = "ipfix" => Alive(ring[1].session, open, r2)
           /\ ring[1].type = "close" => /\ ring[1].session \notin Closed(gn, open, ring)
                                        /\ ring[1].session \in Closed(gn, open, r2)
           /\ ring[1].type = "garbage" => /\ ring[1].session \in Past(gn, open, r2)
                                          /\ ~Alive(ring[1].session, open, ring)
    BY <1>1, Taking
  <2>2. QED
    BY <1>1, <1>2, <2>1
<1>6. QED

  BY <1>2, <1>3, <1>4, <1>5

\* What the invariant needs of the parser's side.
Behind(rs, n, lo, d, past, closed, al) ==
    /\ Table(rs) /\ d \in Seq(DownMsg)
    /\ Traffic(past, closed, al, d) /\ Owned(Kept(rs), n, freed, lo, d)

\* The records of a session go with a garbage message.
LEMMA GarbageGoes ==
    ASSUME NEW s \in Session, NEW rs, NEW n, NEW lo, NEW d, NEW past, NEW closed, NEW al,
           Behind(rs, n, lo, d, past, closed, al), NEW closing \in BOOLEAN, closing => s \in closed
    PROVE  LET e == d \o Garbage(s, rs, closing)
           IN  Behind(SessionRemove(s, rs), n, lo, e, past, closed, al) /\ Len(e) <= Len(d) + 1
<1> DEFINE e == d \o Garbage(s, rs, closing)
           qs == SessionRemove(s, rs)
           G == CtxsOf(s, rs)
           g == CtxGarbage(s, G, closing)
<1>1. /\ Table(rs) /\ d \in Seq(DownMsg) /\ Len(d) \in Nat
      /\ Traffic(past, closed, al, d) /\ Owned(Kept(rs), n, freed, lo, d)
  BY DEF Behind
<1>2. Table(qs) /\ Kept(qs) = Kept(rs) \ G
  BY <1>1, RemoveFacts
<1>3. G \subseteq Kept(rs) /\ Kept(rs) \subseteq Ctx /\ (OfSession(s, rs) = {} <=> G = {})
  BY <1>1, CtxsOfFacts, KeptCount
<1>4. g \in DownMsg /\ g.type = "tmplts" /\ g.session = s /\ g.ctxs = G /\ g.closing = closing
  BY <1>3, GarbageMade
<1> HIDE DEF qs, G, g
<1>5. CASE OfSession(s, rs) = {}
  <2>1. e = d /\ Kept(qs) = Kept(rs)
    BY <1>1, <1>2, <1>3, <1>5 DEF Garbage
  <2> HIDE DEF e
  <2>2. Behind(qs, n, lo, e, past, closed, al)
    BY <1>1, <1>2, <2>1 DEF Behind
  <2>3. QED
    BY <1>1, <2>1, <2>2 DEF qs, e
<1>6. CASE OfSession(s, rs) # {}
  <2>1. e = Append(d, g)
    <3>1. e = d \o <<g>>
      BY <1>6 DEF Garbage, g, G
    <3>2. QED
      BY <1>1, <1>4, <3>1, AppendIsConcat
  <2> HIDE DEF e
  <2>2. e \in Seq(DownMsg) /\ Longer(d, e, 1) /\ e[Len(d) + 1] = g
    BY <1>1, <1>4, <2>1, OneMore
  <2>3. Traffic(past, closed, al, e)
    BY <1>1, <1>4, <2>2, TrafficGrows
  <2>4. Owned(Kept(rs) \ G, n, freed, lo, e)
    BY <1>1, <1>3, <1>4, <2>2, OwnedGrows
  <2>5. Len(e) <= Len(d) + 1
    BY <1>1, <2>2 DEF Longer
  <2>6. QED
    BY <1>2, <2>2, <2>3, <2>4, <2>5 DEF Behind, qs, e
<1>7. QED
  BY <1>5, <1>6

\* Or they are lost.
LEMMA GarbageLost ==
    ASSUME NEW s \in Session, NEW rs, NEW n, NEW lo, NEW d, NEW past, NEW closed, NEW al,
           Behind(rs, n, lo, d, past, closed, al)
    PROVE  Behind(SessionRemove(s, rs), n, lo \cup CtxsOf(s, rs), d, past, closed, al)
<1>1. Table(rs) /\ d \in Seq(DownMsg) /\ Traffic(past, closed, al, d) /\ Owned(Kept(rs), n, freed, lo, d)
  BY DEF Behind
<1>2. Table(SessionRemove(s, rs)) /\ Kept(SessionRemove(s, rs)) = Kept(rs) \ CtxsOf(s, rs)
  BY <1>1, RemoveFacts
<1>3. CtxsOf(s, rs) \subseteq Kept(rs)
  BY <1>1, CtxsOfFacts
<1>4. Owned(Kept(rs) \ CtxsOf(s, rs), n, freed, lo \cup CtxsOf(s, rs), d)
  BY <1>1, <1>3, LosingContexts
<1>5. QED
  BY <1>1, <1>2, <1>4 DEF Behind

LEMMA OneBehind ==
    ASSUME NEW rs, NEW n, NEW lo, NEW d, NEW past, NEW closed, NEW al, Behind(rs, n, lo, d, past, closed, al),
           NEW m \in DownMsg, m.type # "tmplts",
           m.type = "close" => m.session \notin closed,
           m.type = "garbage" => m.session \in past,
           m.type = "parsed" => m.session \in al /\ m.session \notin past /\ m.ctxs \subseteq Kept(rs)
    PROVE  Behind(rs, n, lo, Append(d, m), past, closed, al) /\ Len(Append(d, m)) = Len(d) + 1
<1> DEFINE e == Append(d, m)
<1>1. Table(rs) /\ d \in Seq(DownMsg) /\ Traffic(past, closed, al, d) /\ Owned(Kept(rs), n, freed, lo, d)
  BY DEF Behind
<1>2. e \in Seq(DownMsg) /\ Longer(d, e, 1) /\ e[Len(d) + 1] = m
  BY <1>1, OneMore
<1> HIDE DEF e
<1>3. Traffic(past, closed, al, e)
  BY <1>1, <1>2, TrafficGrows
<1>4. Owned(Kept(rs) \ {}, n, freed, lo, e)
  <2>1. {} \in SUBSET Kept(rs)
    OBVIOUS
  <2>2. QED
    BY <1>1, <1>2, <2>1, OwnedGrows
<1>5. Kept(rs) \ {} = Kept(rs)
  OBVIOUS
<1>6. Len(e) = Len(d) + 1
  BY <1>2 DEF Longer
<1>7. QED
  BY <1>1, <1>2, <1>3, <1>4, <1>5, <1>6 DEF Behind, e

\* The session is forgotten, or blocked and asked for.
LEMMA Removal ==
    ASSUME NEW s \in Session, NEW rs, NEW n, NEW past, NEW closed, NEW al, Behind(rs, n, lost, down, past, closed, al),
           NEW request \in BOOLEAN, NEW memory \in BOOLEAN, RemoveSession(s, rs, request, memory),
           fpipe \in Seq(Session), bad \subseteq Session
    PROVE  /\ Behind(recs', n, lost', down', past, closed, al)
           /\ Len(recs') <= Len(rs) /\ Sess(recs') \subseteq Sess(rs) /\ Len(down') <= Len(down) + 1
           /\ fpipe' \in Seq(Session) /\ bad' \subseteq Session
<1>1. Table(rs) /\ down \in Seq(DownMsg) /\ Len(down) \in Nat /\ Len(rs) \in Nat
  BY DEF Behind, Table
<1>2. CASE Feedback /\ request
  <2>1. recs' = SessionBlock(s, rs) /\ fpipe' = Append(fpipe, s) /\ bad' = bad \cup {s} /\ UNCHANGED <<down, lost>>
    BY <1>2 DEF RemoveSession
  <2>2. Table(recs') /\ Len(recs') = Len(rs) /\ Kept(recs') = Kept(rs) /\ Sess(recs') = Sess(rs)
    BY <1>1, <2>1, BlockFacts
  <2>3. Behind(recs', n, lost', down', past, closed, al)
    BY <2>1, <2>2 DEF Behind
  <2>4. QED
    BY <1>1, <2>1, <2>2, <2>3
<1>3. CASE ~(Feedback /\ request)
  <2>1. /\ recs' = SessionRemove(s, rs) /\ UNCHANGED <<fpipe, bad>>
        /\ down' = IF memory THEN down \o Garbage(s, rs, FALSE) ELSE down
        /\ lost' = IF memory THEN lost ELSE lost \cup CtxsOf(s, rs)
    BY <1>3 DEF RemoveSession
  <2>2. Behind(recs', n, lost', down', past, closed, al) /\ Len(down') <= Len(down) + 1
    <3>1. CASE memory
      BY <2>1, <3>1, GarbageGoes
    <3>2. CASE ~memory
      BY <1>1, <2>1, <3>2, GarbageLost
    <3>3. QED
      BY <3>1, <3>2
  <2>3. Len(recs') <= Len(rs) /\ Sess(recs') \subseteq Sess(rs)
    BY <1>1, <2>1, RemoveFacts
  <2>4. QED
    BY <2>1, <2>2, <2>3
<1>4. QED
  BY <1>2, <1>3

LEMMA RecGetFacts ==
    ASSUME IInv, NEW m \in RingMsg, m.type = "ipfix", ctxs + 1 \in Ctx, NEW past, NEW closed,
           Traffic(past, closed, alloc, down)
    PROVE  LET rs == RecGet(m)
               n == IF IsNew(m) THEN ctxs + 1 ELSE ctxs
               at == Found(rs, Key(m))
           IN  /\ Behind(rs, n, lost, down, past, closed, alloc)
               /\ Len(rs) <= Len(recs) + 1
               /\ \A t \in Sess(rs) : t \in Sess(recs) \/ t = m.session
               /\ at = 0 => m.kind = "norec"
               /\ at # 0 => at \in DOMAIN rs
<1> DEFINE rs == RecGet(m)
           key == Key(m)
           r == NewCtx(m)
<1>1. Table(recs) /\ Owned(Kept(recs), ctxs, freed, lost, down) /\ ctxs \in Nat /\ down \in Seq(DownMsg)
  BY DEF IInv, Types, Numbered
<1>2. recs \in Seq(Rec) /\ Ordered(recs) /\ Len(recs) \in Nat
  BY <1>1 DEF Table
<1>3. m.session \in Session /\ m.odid \in Odid
  BY RingFacts
<1>4. Keyed(key) /\ key.session = m.session /\ key.odid = m.odid
  BY <1>3 DEF Keyed, Key
<1>5. r \in Rec /\ r.session = m.session /\ r.odid = m.odid /\ r.ctx = ctxs + 1
  BY <1>3 DEF NewCtx, Rec
<1> HIDE DEF key, r
<1>6. CASE IsNew(m)
  <2>1. Found(recs, key) = 0
    BY <1>6 DEF IsNew, key
  <2>2. \A k \in DOMAIN recs : ~Same(recs[k], key)
    BY <1>2, <1>4, <2>1, FoundFacts
  <2>3. \A k \in DOMAIN recs : ~Same(recs[k], r)
    BY <1>4, <1>5, <2>2 DEF Same
  <2>4. ctxs + 1 \notin Kept(recs) /\ Owned(Kept(recs) \cup {ctxs + 1}, ctxs + 1, freed, lost, down)
    BY <1>1, NewContext
  <2>5. rs = Sorted(Append(recs, r))
    BY <1>6 DEF RecGet, r
  <2> HIDE DEF rs
  <2>6. /\ Table(rs) /\ Len(rs) = Len(recs) + 1
        /\ Kept(rs) = Kept(recs) \cup {r.ctx} /\ Sess(rs) = Sess(recs) \cup {r.session}
        /\ \E k \in DOMAIN rs : rs[k] = r
    BY <1>1, <1>5, <2>3, <2>4, <2>5, SortedFacts
  <2>7. Owned(Kept(rs), ctxs + 1, freed, lost, down)
    BY <1>5, <2>4, <2>6
  <2>8. Found(rs, key) # 0 /\ Found(rs, key) \in DOMAIN rs
    <3>1. rs \in Seq(Rec) /\ Ordered(rs)
      BY <2>6 DEF Table
    <3>2. \E k \in DOMAIN rs : Same(rs[k], key)
      BY <1>4, <1>5, <2>6 DEF Same
    <3>3. QED
      BY <1>4, <3>1, <3>2, FoundFacts
  <2>9. Behind(rs, ctxs + 1, lost, down, past, closed, alloc)
    BY <1>1, <2>6, <2>7 DEF Behind
  <2>10. QED
    BY <1>2, <1>5, <1>6, <2>6, <2>8, <2>9 DEF rs, key
<1>7. CASE ~IsNew(m)
  <2>1. rs = recs
    BY <1>7 DEF RecGet
  <2>2. Found(recs, key) # 0 => Found(recs, key) \in DOMAIN recs
    BY <1>2, <1>4, FoundFacts
  <2>3. Found(recs, key) = 0 => m.kind = "norec"
    BY <1>7 DEF IsNew, key
  <2>4. Behind(recs, ctxs, lost, down, past, closed, alloc)
    BY <1>1 DEF Behind
  <2> HIDE DEF rs
  <2>5. QED
    BY <1>2, <1>7, <2>1, <2>2, <2>3, <2>4 DEF rs, key
<1>8. QED
  BY <1>6, <1>7

\* The invariant after a step of the parser.
LEMMA AfterParser ==
    ASSUME IInv, UNCHANGED <<transport, gen, alloc, open, freed, sent>>, ipc' \in {"poll", "get", "ended", "gone"},
           ring' \in Seq(RingMsg), Len(ring') <= RingCap, InStep(alloc, open, ring'), Numbered(ctxs', ring', sent),
           \A t \in Sess(recs') : Alive(t, open, ring'),
           Behind(recs', ctxs', lost', down', Past(gen, open, ring'), Closed(gen, open, ring'), alloc),
           Len(down') <= RingCap, Len(recs') <= room', room' \in Nat \ {0},
           fpipe' \in Seq(Session), bad' \subseteq Session
    PROVE  IInv'
<1>1. /\ Table(recs') /\ down' \in Seq(DownMsg)
      /\ Traffic(Past(gen, open, ring'), Closed(gen, open, ring'), alloc, down')
      /\ Owned(Kept(recs'), ctxs', freed, lost', down')
  BY DEF Behind
<1>2. Types'
  BY <1>1 DEF IInv, Types
<1>3. Distinct(alloc, gen)
  BY DEF IInv
<1>4. UNCHANGED <<transport, gen, alloc, open, freed, sent>>
  OBVIOUS
<1>5. QED
  BY <1>1, <1>2, <1>3, <1>4 DEF IInv

LEMMA MessageStep ==
    ASSUME IInv, NEW memory \in BOOLEAN, ParseMessage(memory)
    PROVE  IInv'
<1> DEFINE m == ring[1]
           s == m.session
           rs == RecGet(m)
           at == Found(rs, Key(m))
           n == IF IsNew(m) THEN ctxs + 1 ELSE ctxs
           past == Past(gen, open, ring')
           closed == Closed(gen, open, ring')
<1>1. /\ ring # <<>> /\ Head(ring).type = "ipfix" /\ Len(down) + 2 <= RingCap /\ ring' = Tail(ring)
      /\ UNCHANGED <<transport, gen, alloc, open, ipc, freed, sent, hit>>
  BY DEF ParseMessage, parserIdle
<1>2. /\ ring' \in Seq(RingMsg) /\ Len(ring') <= RingCap /\ Head(ring) = m /\ m \in RingMsg /\ m.type = "ipfix"
      /\ InStep(alloc, open, ring')
      /\ \A t : Alive(t, open, ring) => Alive(t, open, ring')
      /\ Closed(gen, open, ring) \subseteq closed
      /\ Past(gen, open, ring) \subseteq past
      /\ s \in alloc /\ s \notin Past(gen, open, ring)
      /\ Alive(s, open, ring')
      /\ ctxs + 1 \in Ctx /\ Numbered(ctxs + 1, ring', sent) /\ Numbered(ctxs, ring', sent)
  BY <1>1, ParserTakes
<1>3. /\ Traffic(Past(gen, open, ring), Closed(gen, open, ring), alloc, down)
      /\ \A t \in Sess(recs) : Alive(t, open, ring)
      /\ ctxs \in Nat
  BY DEF IInv, Numbered
<1>4. /\ Table(recs) /\ Len(recs) <= room /\ room \in Nat \ {0} /\ alloc \subseteq Session
      /\ down \in Seq(DownMsg) /\ fpipe \in Seq(Session) /\ bad \subseteq Session
      /\ ipc \in {"poll", "get", "ended", "gone"}
  BY DEF IInv, Types
<1>5. s \in Session
  BY <1>2, <1>4
<1>6. /\ Behind(rs, n, lost, down, Past(gen, open, ring), Closed(gen, open, ring), alloc)
      /\ Len(rs) <= Len(recs) + 1
      /\ \A t \in Sess(rs) : t \in Sess(recs) \/ t = s
      /\ at = 0 => m.kind = "norec"
      /\ at # 0 => at \in DOMAIN rs
  BY <1>2, <1>3, RecGetFacts
<1>7. ctxs' = n /\ room' = IF Len(rs) > room THEN 2 * room ELSE room
  BY <1>2 DEF ParseMessage
<1>8. \/ recs' = rs /\ UNCHANGED <<down, fpipe, bad, lost>>
      \/ \E request \in BOOLEAN : RemoveSession(s, rs, request, memory)
      \/ /\ at # 0 /\ recs' = rs /\ down' = Append(down, Parsed(s, rs[at].ctx))
         /\ UNCHANGED <<fpipe, bad, lost>>
  <2> DEFINE OK == at # 0 \/ m.kind = "norec"
  <2>1. at = 0 => m.kind = "norec"
    BY <1>6
  <2> HIDE DEF rs, at, OK
  <2>2. CASE at # 0 /\ rs[at].blocked
    BY <1>2, <2>2 DEF ParseMessage, rs, at
  <2>3. CASE ~(at # 0 /\ rs[at].blocked)
    BY <1>2, <2>1, <2>3 DEF ParseMessage, rs, at
  <2>4. QED
    BY <2>2, <2>3
<1> HIDE DEF m, s, rs, at, n
<1>9. Numbered(n, ring', sent)
  BY <1>2 DEF n
<1>10. \A t \in Sess(rs) : Alive(t, open, ring')
  BY <1>2, <1>3, <1>6
<1>11. Table(rs) /\ Len(rs) \in Nat /\ Len(down) \in Nat /\ Len(recs) \in Nat
  BY <1>4, <1>6 DEF Behind, Table
<1>12. room' \in Nat \ {0} /\ Len(rs) <= room'
  BY <1>4, <1>6, <1>7, <1>11
<1> HIDE DEF past, closed
<1>13. /\ Behind(recs', n, lost', down', past, closed, alloc)
       /\ Len(recs') <= Len(rs) /\ Sess(recs') \subseteq Sess(rs) /\ Len(down') <= Len(down) + 1
       /\ fpipe' \in Seq(Session) /\ bad' \subseteq Session
  <2>1. Behind(rs, n, lost, down, past, closed, alloc)
    BY <1>2, <1>6, TrafficStays DEF Behind
  <2>2. CASE recs' = rs /\ UNCHANGED <<down, fpipe, bad, lost>>
    BY <1>4, <1>11, <2>1, <2>2
  <2>3. ASSUME NEW request \in BOOLEAN, RemoveSession(s, rs, request, memory)
        PROVE  /\ Behind(recs', n, lost', down', past, closed, alloc)
               /\ Len(recs') <= Len(rs) /\ Sess(recs') \subseteq Sess(rs) /\ Len(down') <= Len(down) + 1
               /\ fpipe' \in Seq(Session) /\ bad' \subseteq Session
    BY <1>4, <1>5, <2>1, <2>3, Removal
  <2>4. CASE at # 0 /\ recs' = rs /\ down' = Append(down, Parsed(s, rs[at].ctx)) /\ UNCHANGED <<fpipe, bad, lost>>
    <3> DEFINE c == rs[at].ctx
               p == Parsed(s, c)
    <3>1. c \in Kept(rs) /\ c \in Ctx
      BY <1>6, <1>11, <2>4, KeptCount DEF Kept
    <3> HIDE DEF c
    <3>2. p \in DownMsg /\ p.type = "parsed" /\ p.session = s /\ p.ctxs = {c}
      BY <1>5, <3>1, DownMade
    <3> HIDE DEF p
    <3>3. p.ctxs \subseteq Kept(rs)
      BY <3>1, <3>2
    <3>4. Behind(rs, n, lost, Append(down, p), Past(gen, open, ring), Closed(gen, open, ring), alloc)
          /\ Len(Append(down, p)) = Len(down) + 1
      BY <1>2, <1>6, <3>2, <3>3, OneBehind
    <3>5. Behind(rs, n, lost, Append(down, p), past, closed, alloc)
      BY <1>2, <3>4, TrafficStays DEF Behind
    <3>6. down' = Append(down, p)
      BY <2>4 DEF p, c
    <3>7. QED
      BY <1>4, <1>11, <2>4, <3>4, <3>5, <3>6
  <2>5. QED
    BY <1>8, <2>2, <2>3, <2>4
<1>14. \A t \in Sess(recs') : Alive(t, open, ring')
  BY <1>10, <1>13
<1>15. Len(recs') \in Nat /\ Len(down') \in Nat
  BY <1>13 DEF Behind, Table
<1>16. Len(down') <= RingCap /\ Len(recs') <= room'
  BY <1>1, <1>11, <1>12, <1>13, <1>15, BoundsAssumption
<1>17. QED
  BY <1>1, <1>2, <1>4, <1>7, <1>9, <1>12, <1>13, <1>14, <1>16, AfterParser DEF past, closed

LEMMA CloseMessageStep ==
    ASSUME IInv, NEW memory \in BOOLEAN, ParseClose(memory)
    PROVE  IInv'
<1> DEFINE m == ring[1]
           s == m.session
           past == Past(gen, open, ring')
           closed == Closed(gen, open, ring')
           g == IF memory THEN Garbage(s, recs, TRUE) ELSE <<>>
           d == Append(down, m)
<1>1. /\ ring # <<>> /\ Head(ring).type = "close" /\ Len(down) + 2 <= RingCap /\ ring' = Tail(ring)
      /\ UNCHANGED <<room, fpipe, ctxs, bad, transport, gen, alloc, open, ipc, freed, sent, hit>>
  BY DEF ParseClose, parserIdle
<1>2. /\ ring' \in Seq(RingMsg) /\ Len(ring') <= RingCap /\ Head(ring) = m /\ m \in RingMsg /\ m.type = "close"
      /\ InStep(alloc, open, ring')
      /\ \A t : Alive(t, open, ring) => Alive(t, open, ring') \/ t = s
      /\ Closed(gen, open, ring) \subseteq closed
      /\ Past(gen, open, ring) \subseteq past
      /\ s \in alloc /\ s \notin Closed(gen, open, ring) /\ s \in closed
      /\ Numbered(ctxs, ring', sent)
  BY <1>1, ParserTakes
<1>3. /\ Traffic(Past(gen, open, ring), Closed(gen, open, ring), alloc, down)
      /\ \A t \in Sess(recs) : Alive(t, open, ring)
      /\ Owned(Kept(recs), ctxs, freed, lost, down)
  BY DEF IInv
<1>4. /\ Table(recs) /\ Len(recs) <= room /\ room \in Nat \ {0} /\ alloc \subseteq Session
      /\ down \in Seq(DownMsg) /\ fpipe \in Seq(Session) /\ bad \subseteq Session
      /\ ipc \in {"poll", "get", "ended", "gone"}
  BY DEF IInv, Types
<1>5. s \in Session /\ m \in DownMsg
  <2>1. s \in Session
    BY <1>2, <1>4
  <2>2. m = CloseMsg(s)
    BY <1>2, RingFacts
  <2>3. QED
    BY <2>1, <2>2, DownMade
<1>6. /\ recs' = SessionRemove(s, recs)
      /\ down' = down \o (<<m>> \o g)
      /\ lost' = IF memory THEN lost ELSE lost \cup CtxsOf(s, recs)
  BY <1>2 DEF ParseClose, WithGarbage
<1> HIDE DEF past, closed, m, s, g
<1>7. Behind(recs, ctxs, lost, d, past, closed, alloc) /\ Len(d) = Len(down) + 1 /\ d \in Seq(DownMsg)
  <2>1. Behind(recs, ctxs, lost, down, Past(gen, open, ring), Closed(gen, open, ring), alloc)
    BY <1>3, <1>4 DEF Behind
  <2>2. Behind(recs, ctxs, lost, d, Past(gen, open, ring), Closed(gen, open, ring), alloc) /\ Len(d) = Len(down) + 1
    BY <1>2, <1>5, <2>1, OneBehind DEF s
  <2> HIDE DEF d
  <2>3. QED
    BY <1>2, <2>2, TrafficStays DEF Behind
<1>8. down' = d \o g
  <2>1. g \in Seq(DownMsg)
    <3>1. CASE ~memory
      BY <3>1 DEF g
    <3>2. CASE memory
      <4>1. CtxsOf(s, recs) \in SUBSET Ctx
        BY <1>4, <1>5, CtxsOfFacts, KeptCount
      <4> DEFINE h == CtxGarbage(s, CtxsOf(s, recs), TRUE)
      <4>2. h \in DownMsg
        BY <1>5, <4>1, GarbageMade
      <4>3. g \in {<<>>, <<h>>}
        BY <3>2 DEF g, Garbage
      <4> HIDE DEF h, g
      <4>4. <<>> \in Seq(DownMsg) /\ <<h>> \in Seq(DownMsg)
        BY <4>2
      <4>5. QED
        BY <4>3, <4>4


    <3>3. QED
      BY <3>1, <3>2
  <2>2. d = down \o <<m>>
    BY <1>4, <1>5, AppendIsConcat
  <2>3. <<m>> \in Seq(DownMsg)
    BY <1>5
  <2> HIDE DEF d
  <2>4. (down \o <<m>>) \o g = down \o (<<m>> \o g)
    BY <1>4, <2>1, <2>3, ConcatAssociative
  <2>5. QED
    BY <1>6, <2>2, <2>4
<1> HIDE DEF d
<1>9. Behind(recs', ctxs, lost', down', past, closed, alloc) /\ Len(down') <= Len(d) + 1
  <2>1. CASE memory
    BY <1>2, <1>5, <1>6, <1>7, <1>8, <2>1, GarbageGoes DEF g
  <2>2. CASE ~memory
    <3>1. down' = d
      BY <1>7, <1>8, <2>2, ConcatEmptySeq DEF g
    <3>2. Len(d) <= Len(d) + 1
      BY <1>7
    <3>3. QED
      BY <1>5, <1>6, <1>7, <2>2, <3>1, <3>2, GarbageLost
  <2>3. QED
    BY <2>1, <2>2
<1>10. Len(recs') <= Len(recs) /\ \A t : t \in Sess(recs') <=> t \in Sess(recs) /\ t[1] # s[1]
  BY <1>4, <1>5, <1>6, RemoveFacts
<1>11. \A t \in Sess(recs') : Alive(t, open, ring')
  BY <1>2, <1>3, <1>10
<1>12. Len(recs') \in Nat /\ Len(recs) \in Nat /\ Len(down') \in Nat /\ Len(down) \in Nat
  BY <1>4, <1>9 DEF Behind, Table
<1>13. Len(down') <= RingCap /\ Len(recs') <= room
  BY <1>1, <1>4, <1>7, <1>9, <1>10, <1>12, BoundsAssumption
<1>14. QED
  BY <1>1, <1>2, <1>4, <1>9, <1>11, <1>13, AfterParser DEF past, closed

LEMMA GarbageStep ==
    ASSUME IInv, PassGarbage
    PROVE  IInv'
<1> DEFINE m == ring[1]
           past == Past(gen, open, ring')
           closed == Closed(gen, open, ring')
<1>1. /\ ring # <<>> /\ Head(ring).type = "garbage" /\ Len(down) < RingCap /\ ring' = Tail(ring)
      /\ down' = Append(down, Head(ring))
      /\ UNCHANGED <<recs, room, fpipe, ctxs, lost, bad, transport, gen, alloc, open, ipc, freed, sent, hit>>
  BY DEF PassGarbage, parserIdle
<1>2. /\ ring' \in Seq(RingMsg) /\ Len(ring') <= RingCap /\ Head(ring) = m /\ m \in RingMsg /\ m.type = "garbage"
      /\ InStep(alloc, open, ring')
      /\ \A t : Alive(t, open, ring) => Alive(t, open, ring')
      /\ Closed(gen, open, ring) \subseteq closed
      /\ Past(gen, open, ring) \subseteq past
      /\ m.session \in alloc /\ m.session \in past
      /\ Numbered(ctxs, ring', sent)
  BY <1>1, ParserTakes
<1>3. /\ Traffic(Past(gen, open, ring), Closed(gen, open, ring), alloc, down)
      /\ \A t \in Sess(recs) : Alive(t, open, ring)
      /\ Owned(Kept(recs), ctxs, freed, lost, down)
  BY DEF IInv
<1>4. /\ Table(recs) /\ Len(recs) <= room /\ room \in Nat \ {0} /\ alloc \subseteq Session
      /\ down \in Seq(DownMsg) /\ fpipe \in Seq(Session) /\ bad \subseteq Session
      /\ ipc \in {"poll", "get", "ended", "gone"}
  BY DEF IInv, Types
<1>5. m \in DownMsg
  <2>1. m.session \in Session
    BY <1>2, <1>4
  <2>2. m = SessionGarbage(m.session)
    BY <1>2, RingFacts
  <2>3. QED
    BY <2>1, <2>2, DownMade
<1> HIDE DEF past, closed, m
<1>6. Behind(recs, ctxs, lost, down, past, closed, alloc)
  BY <1>2, <1>3, <1>4, TrafficStays DEF Behind
<1>7. Behind(recs, ctxs, lost, Append(down, m), past, closed, alloc) /\ Len(Append(down, m)) = Len(down) + 1
  BY <1>2, <1>5, <1>6, OneBehind
<1>8. down' = Append(down, m)
  BY <1>1, <1>2
<1>9. Len(down') <= RingCap
  BY <1>1, <1>4, <1>7, <1>8, BoundsAssumption
<1>10. Behind(recs', ctxs', lost', down', past, closed, alloc)
  BY <1>1, <1>7, <1>8
<1>11. \A t \in Sess(recs') : Alive(t, open, ring')
  BY <1>1, <1>2, <1>3
<1>12. QED
  BY <1>1, <1>2, <1>4, <1>9, <1>10, <1>11, AfterParser DEF past, closed

LEMMA EmptyTable == Table(<<>>) /\ Kept(<<>>) = {} /\ Sess(<<>>) = {} /\ Len(<<>>) = 0
BY DEF Table, Ordered, OneEach, Kept, Sess

LEMMA DestroyStep ==
    ASSUME IInv, NEW memory \in BOOLEAN, Destroy(memory)
    PROVE  IInv'
<1> DEFINE past == Past(gen, open, ring)
           closed == Closed(gen, open, ring)
           left == Kept(recs)
           g == CtxGarbage(NoSession, left, FALSE)
<1>1. /\ ring' = ring /\ Len(down) < RingCap /\ ipc' = "gone" /\ recs' = <<>>
      /\ UNCHANGED <<transport, gen, alloc, open, room, fpipe, ctxs, freed, sent, bad, hit>>
  BY DEF Destroy
<1>2. IF memory THEN down' = Append(down, g) /\ lost' = lost ELSE lost' = lost \cup left /\ down' = down
  BY DEF Destroy, Kept
<1>3. /\ ring \in Seq(RingMsg) /\ Len(ring) <= RingCap
      /\ Table(recs) /\ Len(recs) <= room /\ room \in Nat \ {0}
      /\ down \in Seq(DownMsg) /\ Len(down) <= RingCap /\ fpipe \in Seq(Session) /\ bad \subseteq Session
  BY DEF IInv, Types
<1>4. /\ Traffic(past, closed, alloc, down) /\ Owned(left, ctxs, freed, lost, down)
      /\ InStep(alloc, open, ring) /\ Numbered(ctxs, ring, sent)
  BY DEF IInv
<1>5. g \in DownMsg /\ g.type = "tmplts" /\ g.ctxs = left /\ g.closing = FALSE
  <2>1. left \in SUBSET Ctx
    BY <1>3, KeptCount
  <2>2. QED
    BY <2>1, GarbageMade
<1>6. left \in SUBSET left /\ left \ left = {}
  OBVIOUS
<1> HIDE DEF past, closed, left, g
<1>7. Traffic(past, closed, alloc, down') /\ Owned({}, ctxs, freed, lost', down') /\ down' \in Seq(DownMsg) /\ Len(down') <= RingCap
  <2>1. CASE memory
    <3>1. down' = Append(down, g) /\ lost' = lost
      BY <1>2, <2>1
    <3>2. down' \in Seq(DownMsg) /\ Longer(down, down', 1) /\ down'[Len(down) + 1] = g
      BY <1>3, <1>5, <3>1, OneMore
    <3>3. Traffic(past, closed, alloc, down')
      BY <1>3, <1>4, <1>5, <3>2, TrafficGrows
    <3>4. Owned(left \ left, ctxs, freed, lost, down')
      BY <1>3, <1>4, <1>5, <1>6, <3>2, OwnedGrows
    <3>5. Len(down') <= RingCap
      BY <1>1, <1>3, <3>2, BoundsAssumption DEF Longer
    <3>6. QED
      BY <1>6, <3>1, <3>2, <3>3, <3>4, <3>5
  <2>2. CASE ~memory
    <3>1. Owned(left \ left, ctxs, freed, lost \cup left, down)
      BY <1>4, <1>6, LosingContexts
    <3>2. QED
      BY <1>2, <1>3, <1>4, <1>6, <2>2, <3>1
  <2>3. QED
    BY <2>1, <2>2
<1>8. Behind(recs', ctxs, lost', down', past, closed, alloc)
  BY <1>1, <1>7, EmptyTable DEF Behind
<1>9. /\ \A t \in Sess(recs') : Alive(t, open, ring)
      /\ Len(recs') <= room
  BY <1>1, <1>3, EmptyTable
<1>10. QED
  BY <1>1, <1>3, <1>4, <1>7, <1>8, <1>9, AfterParser DEF past, closed

LEMMA ConsumeStep ==
    ASSUME IInv, Consume
    PROVE  IInv'
<1> DEFINE past == Past(gen, open, ring)
           closed == Closed(gen, open, ring)
           m == down[1]
<1>1. /\ down # <<>> /\ down' = Tail(down)
      /\ UNCHANGED <<transport, gen, open, ipc, ring, recs, room, fpipe, ctxs, lost, sent, bad, hit>>
  BY DEF Consume
<1>2. Types /\ down \in Seq(DownMsg) /\ Len(down) <= RingCap /\ alloc \in SUBSET Session /\ open \in SUBSET alloc
  BY DEF IInv, Types
<1>3. /\ Traffic(past, closed, alloc, down) /\ Owned(Kept(recs), ctxs, freed, lost, down)
      /\ InStep(alloc, open, ring) /\ Distinct(alloc, gen) /\ Numbered(ctxs, ring, sent)
      /\ \A s \in Sess(recs) : Alive(s, open, ring)
  BY DEF IInv
<1>4. down' \in Seq(DownMsg) /\ Shorter(down, down') /\ Head(down) = m
  BY <1>1, <1>2, OneLess
<1>5. /\ alloc' = IF m.type = "garbage" THEN alloc \ {m.session} ELSE alloc
      /\ freed' = IF m.type = "tmplts" THEN freed \cup m.ctxs ELSE freed
  BY <1>4 DEF Consume
<1>6. Owned(Kept(recs), ctxs, freed', lost, down')
  BY <1>2, <1>3, <1>4, <1>5, OwnedEnds
<1> HIDE DEF past, closed, m
<1>7. /\ Traffic(past, closed, alloc', down') /\ InStep(alloc', open, ring) /\ Distinct(alloc', gen)
      /\ open \subseteq alloc' /\ alloc' \subseteq Session
  <2>1. /\ Traffic(past, closed, alloc, down')
        /\ m.type = "garbage" => m.session \in past /\ Traffic(past, closed, alloc \ {m.session}, down')
    BY <1>2, <1>3, <1>4, TrafficEnds DEF m
  <2>2. CASE m.type = "garbage"
    <3>1. m.session \in Past(gen, open, ring)
      BY <2>1, <2>2 DEF past
    <3>2. /\ InStep(alloc \ {m.session}, open, ring) /\ open \subseteq alloc \ {m.session}
          /\ Distinct(alloc \ {m.session}, gen)
      BY <1>2, <1>3, <3>1, Forgetting
    <3>3. QED
      BY <1>2, <1>5, <2>1, <2>2, <3>2
  <2>3. CASE m.type # "garbage"
    BY <1>2, <1>3, <1>5, <2>1, <2>3
  <2>4. QED
    BY <2>2, <2>3
<1>8. Len(down') <= RingCap
  BY <1>2, <1>4, BoundsAssumption DEF Shorter
<1>9. Types'
  BY <1>1, <1>2, <1>4, <1>7, <1>8 DEF Types
<1>10. QED
  BY <1>1, <1>3, <1>6, <1>7, <1>9 DEF IInv, past, closed

LEMMA Start == Init => IInv
<1>1. SUFFICES ASSUME Init PROVE IInv
  OBVIOUS
<1>2. Types
  <2>1. gen \in [Addr -> 0 .. MaxGen]
    BY <1>1, BoundsAssumption DEF Init
  <2>2. Len(recs) <= room /\ Table(recs) /\ room \in Nat \ {0}
    BY <1>1, EmptyTable, BoundsAssumption DEF Init
  <2>3. ring \in Seq(RingMsg) /\ down \in Seq(DownMsg) /\ fpipe \in Seq(Session) /\ Len(ring) <= RingCap /\ Len(down) <= RingCap
    BY <1>1, BoundsAssumption DEF Init
  <2>4. QED
    BY <1>1, <2>1, <2>2, <2>3 DEF Init, Types
<1>3. Numbered(ctxs, ring, sent)
  <2>1. Waiting(ring) = {}
    BY <1>1 DEF Init, Waiting
  <2>2. Cardinality(Waiting(ring)) = 0
    BY <2>1, FS_EmptySet
  <2>3. QED
    BY <1>1, <2>2, BoundsAssumption DEF Init, Numbered
<1>4. Distinct(alloc, gen) /\ InStep(alloc, open, ring)
  BY <1>1 DEF Init, Distinct, InStep
<1>5. \A s \in Sess(recs) : Alive(s, open, ring)
  BY <1>1, EmptyTable DEF Init
<1>6. Traffic(Past(gen, open, ring), Closed(gen, open, ring), alloc, down)
  BY <1>1 DEF Init, Traffic
<1>7. Owned(Kept(recs), ctxs, freed, lost, down)
  BY <1>1, EmptyTable DEF Init, Owned
<1>8. QED
  BY <1>2, <1>3, <1>4, <1>5, <1>6, <1>7 DEF IInv

LEMMA Invariance == Spec => []IInv
<1>1. Init => IInv
  BY Start
<1>2. IInv /\ [Next]_vars => IInv'
  <2>1. SUFFICES ASSUME IInv, [Next]_vars PROVE IInv'
    OBVIOUS
  <2>2. CASE Input
    BY <2>1, <2>2, InputStep
  <2>3. CASE Parser
    BY <2>1, <2>3, MessageStep, CloseMessageStep, GarbageStep, DestroyStep DEF Parser
  <2>4. CASE Consume
    BY <2>1, <2>4, ConsumeStep
  <2>5. CASE Gone \/ UNCHANGED vars
    <3>1. UNCHANGED vars
      BY <2>5 DEF Gone
    <3>2. QED
      BY <2>1, <3>1 DEF vars, IInv, Types
  <2>6. QED
    BY <2>1, <2>2, <2>3, <2>4, <2>5 DEF Next
<1>3. QED
  BY <1>1, <1>2, PTL DEF Spec

-----------------------------------------------------------------------------
(* The theorems.                                                             *)

(* The parser's records, rings and sessions are what they seem, and there is *)
(* room in the array for its records (parser.c, parser_rec_get).             *)
THEOREM TypeCorrect == Spec => []TypeOK
<1>1. IInv => TypeOK
  <2>1. SUFFICES ASSUME IInv PROVE TypeOK
    OBVIOUS
  <2>2. Types /\ Numbered(ctxs, ring, sent) /\ Owned(Kept(recs), ctxs, freed, lost, down)
    BY <2>1 DEF IInv
  <2>3. ctxs \in 0 .. MaxMsg /\ sent \in 0 .. MaxMsg
    BY <2>2, WaitingIsFinite, BoundsAssumption DEF Numbered, Types
  <2>4. freed \cup lost \subseteq 1 .. ctxs
    BY <2>2 DEF Owned
  <2>5. recs \in Seq(Rec) /\ \A k \in DOMAIN fpipe : fpipe[k] \in Session
    BY <2>2 DEF Types, Table
  <2>6. QED
    BY <2>2, <2>3, <2>4, <2>5 DEF Types, TypeOK
<1>2. QED
  BY <1>1, Invariance, PTL

(* What a parsed message refers to is still there when it is processed.      *)
THEOREM ParsedIsSafe == Spec => []RefersToLiving
<1>1. IInv => RefersToLiving
  <2>1. SUFFICES ASSUME IInv, NEW j \in DOMAIN down, down[j].type = "parsed"
                 PROVE  /\ down[j].session \in alloc /\ down[j].ctxs \cap freed = {}
                        /\ \A i \in 1 .. j - 1 :
                              /\ down[i].type = "garbage" => down[i].session # down[j].session
                              /\ down[i].type = "tmplts" => down[i].ctxs \cap down[j].ctxs = {}
    BY DEF RefersToLiving
  <2>2. down[j].session \in alloc /\ \A i \in 1 .. j - 1 : down[i].type = "garbage" => down[i].session # down[j].session
    BY <2>1 DEF IInv, Traffic
  <2>3. \A c : c \in down[j].ctxs => c \notin freed /\ \A i \in 1 .. j - 1 : ~Holds(down[i], c)
    BY <2>1 DEF IInv, Owned
  <2>4. QED
    BY <2>2, <2>3 DEF Holds
<1>2. QED
  BY <1>1, Invariance, PTL

(* The binary search finds the record of a session and an ODID, there is no  *)
(* other one, and none is of a session that is gone.                         *)
THEOREM RecordsAreFresh == Spec => []NoStaleRecord
<1>1. IInv => NoStaleRecord
  <2>1. SUFFICES ASSUME IInv, NEW k \in DOMAIN recs
                 PROVE  /\ recs[k].session \in alloc
                        /\ recs[k].ctx \notin freed
                        /\ \A i \in DOMAIN ring : ring[i].type = "ipfix" /\ IsOf(ring[i].session, recs[k])
                              => ring[i].session = recs[k].session
                        /\ Found(recs, recs[k]) = k
    BY DEF NoStaleRecord
  <2>2. Types /\ Distinct(alloc, gen) /\ InStep(alloc, open, ring) /\ Owned(Kept(recs), ctxs, freed, lost, down)
    BY <2>1 DEF IInv
  <2>3. recs \in Seq(Rec) /\ Ordered(recs) /\ Keyed(recs[k])
    BY <2>1, <2>2, RecFacts DEF Types, Table
  <2>4. recs[k].session \in alloc
    <3>1. Alive(recs[k].session, open, ring)
      BY <2>1 DEF IInv, Sess
    <3>2. \A i \in DOMAIN ring : ring[i] = CloseMsg(recs[k].session) => ring[i].session = recs[k].session
      BY DEF CloseMsg
    <3>3. QED
      BY <2>2, <3>1, <3>2 DEF Alive, InStep, Types
  <2>5. recs[k].ctx \notin freed
    BY <2>1, <2>2 DEF Owned, Kept
  <2>6. \A i \in DOMAIN ring : IsOf(ring[i].session, recs[k]) => ring[i].session = recs[k].session
    BY <2>2, <2>4 DEF Distinct, InStep, IsOf
  <2>7. Found(recs, recs[k]) = k
    <3>1. Same(recs[k], recs[k])
      BY DEF Same
    <3>2. Found(recs, recs[k]) \in DOMAIN recs /\ Same(recs[Found(recs, recs[k])], recs[k])
      BY <2>1, <2>3, <3>1, FoundFacts
    <3>3. QED
      BY <2>1, <2>3, <3>2, Irreflexive
  <2>8. QED
    BY <2>4, <2>5, <2>6, <2>7
<1>2. QED
  BY <1>1, Invariance, PTL

(* Every template manager is destroyed once, or lost where memory is.        *)
THEOREM EachHasAPlace == Spec => []ContextsAccounted
<1>1. IInv => ContextsAccounted
  <2> DEFINE going == {j \in DOMAIN down : down[j].type = "tmplts"}
  <2>1. SUFFICES ASSUME IInv
                 PROVE  /\ Kept(recs) \cup freed \cup lost \cup UNION {down[j].ctxs : j \in going} = 1 .. ctxs
                        /\ lost \cap (Kept(recs) \cup freed) = {} /\ Cardinality(Kept(recs)) = Len(recs)
                        /\ \A j \in going : down[j].ctxs \cap (Kept(recs) \cup freed \cup lost) = {}
                        /\ \A i, j \in going : i # j => down[i].ctxs \cap down[j].ctxs = {}
    BY DEF ContextsAccounted, Kept
  <2>2. Table(recs) /\ Owned(Kept(recs), ctxs, freed, lost, down)
    BY <2>1 DEF IInv, Types
  <2>3. Cardinality(Kept(recs)) = Len(recs)
    BY <2>2, KeptCount
  <2>4. \A c : c \in UNION {down[j].ctxs : j \in going} <=> \E j \in DOMAIN down : Holds(down[j], c)
    BY DEF Holds
  <2>5. \A j \in going : \A c : c \in down[j].ctxs <=> Holds(down[j], c)
    BY DEF Holds
  <2>6. Kept(recs) \cup freed \cup lost \cup UNION {down[j].ctxs : j \in going} = 1 .. ctxs
    BY <2>2, <2>4 DEF Owned
  <2>7. lost \cap (Kept(recs) \cup freed) = {}
    BY <2>2 DEF Owned
  <2>8. \A j \in going : down[j].ctxs \cap (Kept(recs) \cup freed \cup lost) = {}
    BY <2>2, <2>5 DEF Owned
  <2>9. \A i, j \in going : i # j => down[i].ctxs \cap down[j].ctxs = {}
    BY <2>2, <2>5 DEF Owned
  <2>10. QED
    BY <2>3, <2>6, <2>7, <2>8, <2>9
<1>2. QED
  BY <1>1, Invariance, PTL

(* The templates of a closed session go after its close message.             *)
THEOREM CloseComesFirst == Spec => []TemplatesOutliveClose
<1>1. IInv => TemplatesOutliveClose
  <2>1. SUFFICES ASSUME IInv, NEW i \in DOMAIN down, down[i].type = "tmplts", down[i].closing
                 PROVE  /\ down[i].session \notin open
                        /\ \A j \in DOMAIN ring : ring[j] # CloseMsg(down[i].session)
                        /\ \A j \in i .. Len(down) : down[j] # CloseMsg(down[i].session)
    BY DEF TemplatesOutliveClose
  <2>2. /\ down[i].session \in Closed(gen, open, ring)
        /\ \A j \in i .. Len(down) : down[j] # CloseMsg(down[i].session)
    BY <2>1 DEF IInv, Traffic
  <2>3. QED
    BY <2>2 DEF Closed, Alive
<1>2. QED
  BY <1>1, Invariance, PTL
=============================================================================
