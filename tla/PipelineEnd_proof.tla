------------------------- MODULE PipelineEnd_proof -------------------------
(* Proofs about the end of the pipeline: nothing follows a terminate         *)
(* message, the configurator is told of every one, garbage is destroyed      *)
(* after all that refers to it, and a slow termination loses nothing.  They  *)
(* rest on the custody of messages.                                          *)
EXTENDS MCPipeline, Pipeline_proof, FunctionTheorems, WellFoundedInduction

-----------------------------------------------------------------------------
(* Nothing follows a terminate message.                                      *)

\* The instances that write to the ring of n.  The first intermediate reads
\* what all parsers write, and tells them by the message.
Preds(n) == {w \in Nodes : IF w = Mgr THEN n \in OutNodes ELSE w \notin OutNodes /\ Succ(w) = n}
From(w, n, m) == n = Inter(1) => w = Parser(m[2])

\* A ring that has the terminate message of w; one with nothing behind that
\* message; and one that has nothing from w.
Closed(s, n, w) == \E j \in DOMAIN s : Type(s[j]) = "term" /\ From(w, n, s[j])
Final(s, n, w) == \A j, k \in DOMAIN s :
    j < k /\ Type(s[j]) = "term" /\ From(w, n, s[j]) => ~From(w, n, s[k])
None(s, n, w) == \A j \in DOMAIN s : ~From(w, n, s[j])

\* w has given n its terminate message; n has got its last one.
Ended(w, n) == Terminating(w) /\ \A k \in DOMAIN out[w] : out[w][k][1] # n
Finished(n) == pc[n] \in {"destroy", "exit"} \/ Type(cur[n]) = "term"

\* The inputs whose terminate message the first intermediate still waits for.
Unfinished == {i \in Inputs : ~Ended(Parser(i), Inter(1)) \/ Closed(ring[Inter(1)], Inter(1), Parser(i))}

\* What a thread has to push ends with its terminate message.
Tagged(m, ps) == \A k \in DOMAIN ps : Type(ps[k][2]) = "term" <=> (k = Len(ps) /\ Type(m) = "term")

TermInv ==
    /\ \A n \in Readers : \A w \in Preds(n) :
          /\ Final(ring[n], n, w)
          /\ Closed(ring[n], n, w) => Ended(w, n)
          /\ Ended(w, n) => Closed(ring[n], n, w) \/ None(ring[n], n, w)
    /\ \A w \in Nodes \ {Mgr} : Tagged(cur[w], out[w])
    /\ \A n \in Readers : Finished(n) => ring[n] = <<>> /\ \A w \in Preds(n) : Ended(w, n)
    /\ ~Finished(Inter(1)) => termCnt = Cardinality(Unfinished) /\ termCnt >= 1
    /\ \A n \in Readers \ {Inter(1)} : \A w \in Preds(n) : Ended(w, n) /\ ~Closed(ring[n], n, w) => Finished(n)

\* When all threads have been joined nothing is left.
EndInv == cpc = "done" => live = {} /\ \A n \in Nodes : pc[n] = "exit"

LEMMA PredFacts ==
    /\ Preds(Inter(1)) = {Parser(i) : i \in Inputs}
    /\ \A n \in Readers : n # Inter(1) => \E w \in Nodes : Preds(n) = {w}
    /\ \A n \in Readers : \A w \in Preds(n) : w \in InNodes \cup Movers /\ w \in Nodes
    /\ \A w \in InNodes \cup Movers : w # Mgr =>
           /\ Succ(w) \in Readers /\ w \in Preds(Succ(w))
           /\ \A n \in Readers : w \in Preds(n) => n = Succ(w)
    /\ \A n \in Readers : Mgr \in Preds(n) <=> n \in OutNodes
<1>1. Mgr \in Nodes /\ Mgr \in Inters /\ Mgr \notin OutNodes
  BY SuccFacts, NodeFacts DEF Nodes, Readers, Movers
<1>2. \A w \in Nodes : w \in InNodes \/ w \in Parsers \/ w \in Inters \/ w \in OutNodes
  BY DEF Nodes, Readers, Movers
<1>3. \A n \in Readers : \A w \in Preds(n) : w \in InNodes \cup Movers /\ w \in Nodes
  BY <1>1, <1>2 DEF Preds, Movers
<1>4. ASSUME NEW w \in InNodes \cup Movers, w # Mgr
      PROVE  /\ Succ(w) \in Readers /\ w \in Preds(Succ(w))
             /\ \A n \in Readers : w \in Preds(n) => n = Succ(w)
  <2>1. w \in Nodes /\ w \notin OutNodes
    BY NodeFacts DEF Nodes, Readers, Movers
  <2>2. Succ(w) \in Readers
    BY <1>4, SuccFacts DEF Readers
  <2>3. QED
    BY <1>4, <2>1, <2>2 DEF Preds
<1>5. \A n \in Readers : Mgr \in Preds(n) <=> n \in OutNodes
  BY <1>1 DEF Preds
<1>6. \A i \in Inputs : In(i) \in Nodes /\ In(i) \in InNodes /\ Parser(i) \in Parsers /\ Parser(i) \in Nodes
                        /\ Parser(i) \notin InNodes /\ In(i) # Mgr /\ Parser(i) # Mgr
  BY <1>1, NodeFacts DEF Nodes, Readers, Movers
<1>7. Preds(Inter(1)) = {Parser(i) : i \in Inputs}
  <2>1. Inter(1) \in Inters /\ Inter(1) \in Readers /\ Inter(1) \notin OutNodes /\ Inter(1) \notin Parsers
    BY SuccFacts, NodeFacts DEF Readers, Movers
  <2>2. ASSUME NEW w \in Preds(Inter(1)) PROVE w \in Parsers
    <3>1. w # Mgr /\ w \in InNodes \cup Movers /\ Succ(w) = Inter(1)
      BY <1>3, <1>5, <2>1 DEF Preds
    <3>2. CASE w \in InNodes
      <4>1. Succ(w) \in Parsers
        BY <3>2, <1>6, SuccFacts, NodeFacts
      <4>2. QED
        BY <2>1, <3>1, <4>1
    <3>3. CASE w \in Inters
      <4>1. w[2] \in 1 .. NInter + 1 /\ w = Inter(w[2]) /\ w \notin InNodes /\ w \notin Parsers
        BY <3>3, NodeFacts DEF Readers, Movers
      <4>2. Succ(w) = Inter(w[2] + 1)
        BY <3>3, <4>1 DEF Succ
      <4>3. Inter(w[2] + 1)[2] = w[2] + 1 /\ Inter(1)[2] = 1
        BY DEF Inter
      <4>4. w[2] + 1 = 1 /\ w[2] \in Nat /\ w[2] >= 1
        BY <3>1, <4>1, <4>2, <4>3, SizesAssumption
      <4>5. QED
        BY <4>4
    <3>4. QED
      BY <3>1, <3>2, <3>3 DEF Movers
  <2>3. \A w \in Parsers : w \in Preds(Inter(1))
    <3>1. ASSUME NEW w \in Parsers PROVE w \in Preds(Inter(1))
      <4>1. Succ(w) = Inter(1) /\ w \in InNodes \cup Movers /\ w # Mgr
        BY <1>1, SuccFacts, NodeFacts DEF Movers
      <4>2. QED
        BY <1>4, <4>1
    <3>2. QED
      BY <3>1
  <2>4. QED
    BY <2>2, <2>3 DEF Parsers
<1>8. ASSUME NEW n \in Readers, n # Inter(1) PROVE \E w \in Nodes : Preds(n) = {w}
  <2>1. CASE n \in Parsers
    <3>1. n[2] \in Inputs /\ n = Parser(n[2]) /\ n \notin OutNodes /\ n \notin Inters
      BY <2>1, NodeFacts
    <3>2. Succ(In(n[2])) = n /\ In(n[2]) \in InNodes \cup Movers
      BY <3>1, <1>6, SuccFacts
    <3>3. ASSUME NEW w \in Preds(n) PROVE w = In(n[2])
      <4>1. w # Mgr /\ w \in InNodes \cup Movers /\ Succ(w) = n
        BY <1>3, <1>5, <3>1 DEF Preds
      <4>2. w \notin Movers
        BY <3>1, <4>1, SuccFacts
      <4>3. w \in InNodes /\ w = In(w[2]) /\ w[2] \in Inputs
        BY <4>1, <4>2, NodeFacts
      <4>4. Parser(w[2]) = Parser(n[2])
        BY <3>1, <4>1, <4>3, SuccFacts
      <4>5. w[2] = n[2]
        BY <4>4 DEF Parser
      <4>6. QED
        BY <4>3, <4>5
    <3>4. QED
      BY <1>4, <1>6, <3>1, <3>2, <3>3
  <2>2. CASE n \in Inters
    <3>1. n[2] \in 1 .. NInter + 1 /\ n = Inter(n[2]) /\ n \notin OutNodes /\ n \notin Parsers /\ NInter \in Nat
      BY <2>2, NodeFacts, SizesAssumption
    <3>2. n[2] - 1 \in 1 .. NInter + 1 /\ n[2] - 1 # NInter + 1
      BY <1>8, <3>1
    <3> DEFINE p == Inter(n[2] - 1)
    <3>3. p \in Inters /\ p[2] = n[2] - 1 /\ Mgr[2] = NInter + 1
      BY <3>2, NodeFacts DEF Mgr, Inter
    <3>4. p # Mgr
      BY <3>2, <3>3
    <3>5. Succ(p) = n
      <4>1. Succ(p) = Inter(p[2] + 1)
        BY <3>3, NodeFacts DEF Succ, Readers, Movers
      <4>2. p[2] + 1 = n[2]
        BY <3>1, <3>3
      <4>3. QED
        BY <3>1, <4>1, <4>2
    <3>6. ASSUME NEW w \in Preds(n) PROVE w = p
      <4>1. w # Mgr /\ w \in InNodes \cup Movers /\ Succ(w) = n
        BY <1>3, <1>5, <3>1 DEF Preds
      <4>2. w \notin InNodes
        BY <3>1, <4>1, SuccFacts, NodeFacts
      <4>3. w \notin Parsers
        BY <1>8, <4>1, SuccFacts
      <4>4. w \in Inters /\ w[2] \in 1 .. NInter + 1 /\ w = Inter(w[2])
        BY <4>1, <4>2, <4>3, NodeFacts DEF Movers
      <4>5. Succ(w) = Inter(w[2] + 1)
        BY <4>2, <4>3, <4>4 DEF Succ
      <4>6. w[2] + 1 = n[2]
        BY <3>1, <4>1, <4>5 DEF Inter
      <4>7. w[2] = n[2] - 1
        BY <3>1, <4>4, <4>6
      <4>8. QED
        BY <4>4, <4>7
    <3>7. p \in Preds(n) /\ p \in Nodes
      <4>1. p \in InNodes \cup Movers
        BY <3>3 DEF Movers
      <4>2. QED
        BY <1>3, <1>4, <3>4, <3>5, <4>1
    <3>8. QED
      BY <3>6, <3>7
  <2>3. CASE n \in OutNodes
    <3>1. ASSUME NEW w \in Preds(n) PROVE w = Mgr
      <4>1. SUFFICES ASSUME w # Mgr PROVE FALSE
        OBVIOUS
      <4>2. w \in InNodes \cup Movers /\ Succ(w) = n
        BY <1>3, <4>1 DEF Preds
      <4>3. Succ(w) \in Movers
        BY <4>1, <4>2, SuccFacts
      <4>4. QED
        BY <2>3, <4>2, <4>3, NodeFacts DEF Movers
    <3>2. QED
      BY <1>1, <1>5, <2>3, <3>1
  <2>4. QED
    BY <2>1, <2>2, <2>3 DEF Readers, Movers
<1>9. QED
  BY <1>3, <1>4, <1>5, <1>7, <1>8

LEMMA LaneTail ==
    ASSUME NEW S, NEW s \in Seq(S), s # <<>>, NEW n, NEW w
    PROVE  /\ Final(s, n, w) => Final(Tail(s), n, w)
           /\ Closed(Tail(s), n, w) => Closed(s, n, w)
           /\ Closed(s, n, w) => Closed(Tail(s), n, w) \/ (Type(Head(s)) = "term" /\ From(w, n, Head(s)))
           /\ Type(Head(s)) = "term" /\ From(w, n, Head(s)) => Closed(s, n, w)
           /\ None(s, n, w) => None(Tail(s), n, w)
           /\ Final(s, n, w) /\ Type(Head(s)) = "term" /\ From(w, n, Head(s)) => None(Tail(s), n, w)
<1>1. /\ Head(s) = s[1] /\ 1 \in DOMAIN s /\ DOMAIN s = 1 .. Len(s) /\ Len(s) \in Nat
      /\ DOMAIN Tail(s) = 1 .. Len(s) - 1
      /\ \A k \in DOMAIN Tail(s) : k + 1 \in DOMAIN s /\ Tail(s)[k] = s[k + 1]
      /\ \A k \in DOMAIN s : k = 1 \/ (k - 1 \in DOMAIN Tail(s) /\ s[k] = Tail(s)[k - 1])
  OBVIOUS
<1>2. Final(s, n, w) => Final(Tail(s), n, w)
  BY <1>1 DEF Final
<1>3. Closed(Tail(s), n, w) => Closed(s, n, w)
  BY <1>1 DEF Closed
<1>4. Closed(s, n, w) => Closed(Tail(s), n, w) \/ (Type(Head(s)) = "term" /\ From(w, n, Head(s)))
  <2>1. ASSUME NEW j \in DOMAIN s, Type(s[j]) = "term", From(w, n, s[j])
        PROVE  Closed(Tail(s), n, w) \/ (Type(Head(s)) = "term" /\ From(w, n, Head(s)))
    <3>1. CASE j = 1
      BY <1>1, <2>1, <3>1
    <3>2. CASE j - 1 \in DOMAIN Tail(s) /\ s[j] = Tail(s)[j - 1]
      <4>1. PICK k \in DOMAIN Tail(s) : Tail(s)[k] = s[j]
        BY <3>2
      <4>2. QED
        BY <2>1, <4>1 DEF Closed
    <3>3. QED
      BY <1>1, <3>1, <3>2
  <2>2. QED
    BY <2>1 DEF Closed
<1>5. None(s, n, w) => None(Tail(s), n, w)
  BY <1>1 DEF None
<1>6. Final(s, n, w) /\ Type(Head(s)) = "term" /\ From(w, n, Head(s)) => None(Tail(s), n, w)
  <2>1. ASSUME Final(s, n, w), Type(s[1]) = "term", From(w, n, s[1]), NEW k \in DOMAIN Tail(s)
        PROVE  ~From(w, n, Tail(s)[k])
    <3>1. k + 1 \in DOMAIN s /\ 1 < k + 1 /\ Tail(s)[k] = s[k + 1] /\ 1 \in DOMAIN s
      BY <1>1, <2>1
    <3>2. QED
      BY <2>1, <3>1 DEF Final
  <2>2. QED
    BY <1>1, <2>1 DEF None
<1>7. QED
  BY <1>1, <1>2, <1>3, <1>4, <1>5, <1>6 DEF Closed

LEMMA LaneAppend ==
    ASSUME NEW S, NEW s \in Seq(S), NEW x \in S, NEW n, NEW w
    PROVE  /\ Final(s, n, w) /\ (Closed(s, n, w) => ~From(w, n, x)) => Final(Append(s, x), n, w)
           /\ Closed(Append(s, x), n, w) <=> Closed(s, n, w) \/ (Type(x) = "term" /\ From(w, n, x))
           /\ None(s, n, w) /\ ~From(w, n, x) => None(Append(s, x), n, w)
<1>1. /\ DOMAIN s = 1 .. Len(s) /\ Len(s) \in Nat /\ Len(s) + 1 \in DOMAIN Append(s, x)
      /\ DOMAIN Append(s, x) = 1 .. Len(s) + 1
      /\ \A k \in DOMAIN s : k \in DOMAIN Append(s, x) /\ Append(s, x)[k] = s[k]
      /\ Append(s, x)[Len(s) + 1] = x
      /\ \A k \in DOMAIN Append(s, x) : k = Len(s) + 1 \/ k \in DOMAIN s
  OBVIOUS
<1>2. ASSUME Final(s, n, w), Closed(s, n, w) => ~From(w, n, x) PROVE Final(Append(s, x), n, w)
  <2>1. SUFFICES ASSUME NEW j \in DOMAIN Append(s, x), NEW k \in DOMAIN Append(s, x), j < k,
                        Type(Append(s, x)[j]) = "term", From(w, n, Append(s, x)[j])
                 PROVE  ~From(w, n, Append(s, x)[k])
    BY DEF Final
  <2>2. j \in DOMAIN s
    BY <1>1, <2>1
  <2>3. CASE k = Len(s) + 1
    BY <1>1, <1>2, <2>1, <2>2, <2>3 DEF Closed
  <2>4. CASE k \in DOMAIN s
    BY <1>1, <1>2, <2>1, <2>2, <2>4 DEF Final
  <2>5. QED
    BY <1>1, <2>3, <2>4
<1>3. Closed(Append(s, x), n, w) <=> Closed(s, n, w) \/ (Type(x) = "term" /\ From(w, n, x))
  BY <1>1 DEF Closed
<1>4. None(s, n, w) /\ ~From(w, n, x) => None(Append(s, x), n, w)
  BY <1>1 DEF None
<1>5. QED
  BY <1>2, <1>3, <1>4

LEMMA UnfinishedFacts == IsFiniteSet(Unfinished) /\ IsFiniteSet(Unfinished') /\ \A i, j : Parser(i) = Parser(j) => i = j
<1>1. IsFiniteSet(Inputs)
  BY SizesAssumption, FS_Interval DEF Inputs
<1>2. Unfinished \subseteq Inputs /\ Unfinished' \subseteq Inputs
  BY DEF Unfinished
<1>3. \A i, j : Parser(i) = Parser(j) => i = j
  BY DEF Parser
<1>4. QED
  BY <1>1, <1>2, <1>3, FS_Subset

\* Steps that give nobody a message.
LEMMA TermKept ==
    ASSUME TermInv, UNCHANGED <<ring, termCnt>>,
           \A n \in Readers : Finished(n)' = Finished(n) /\ \A w \in Preds(n) : Ended(w, n)' = Ended(w, n),
           \A w \in Nodes \ {Mgr} : Tagged(cur'[w], out'[w])
    PROVE  TermInv'
<1>1. \A n : Preds(n)' = Preds(n)
  BY DEF Preds
<1>2. /\ \A n \in Readers : \A w \in Preds(n) :
          /\ Final(ring'[n], n, w)
          /\ Closed(ring'[n], n, w) => Ended(w, n)'
          /\ Ended(w, n)' => Closed(ring'[n], n, w) \/ None(ring'[n], n, w)
      /\ \A n \in Readers : Finished(n)' => ring'[n] = <<>> /\ \A w \in Preds(n) : Ended(w, n)'
  BY DEF TermInv
<1>3. ~Finished(Inter(1))' => termCnt' = Cardinality(Unfinished') /\ termCnt' >= 1
  <2>1. Inter(1) \in Readers /\ \A i \in Inputs : Parser(i) \in Preds(Inter(1))
    BY PredFacts, SuccFacts DEF Readers, Movers
  <2>2. \A i \in Inputs : Ended(Parser(i), Inter(1))' = Ended(Parser(i), Inter(1))
    BY <2>1
  <2>3. Unfinished' = Unfinished
    BY <2>2 DEF Unfinished
  <2>4. QED
    BY <2>1, <2>3 DEF TermInv
<1>4. \A n \in Readers \ {Inter(1)} : \A w \in Preds(n) : Ended(w, n)' /\ ~Closed(ring'[n], n, w) => Finished(n)'
  BY DEF TermInv
<1>5. QED
  BY <1>1, <1>2, <1>3, <1>4 DEF TermInv

LEMMA TermPop ==
    ASSUME IInv, TermInv, NEW n \in Readers, pc[n] = "loop", ring[n] # <<>>,
           ring' = [ring EXCEPT ![n] = Tail(@)], out' = out, NEW m, m = Head(ring[n]),
           NEW a \in {"loop", "decide", "release"}, NEW c, pc' = [pc EXCEPT ![n] = a], cur' = [cur EXCEPT ![n] = c],
           Type(c) = "term" <=> Type(m) = "term" /\ ~IsEarlyTerm(n, m),
           termCnt' = IF IsEarlyTerm(n, m) THEN termCnt - 1 ELSE termCnt
    PROVE  TermInv'
<1>1. /\ n \in Nodes /\ ring[n] \in Seq(Msgs) /\ m \in Msgs /\ out[n] = <<>>
      /\ pc \in [Nodes -> InputStates \cup MoverStates \cup OutStates] /\ cur \in [Nodes -> Msgs \cup {NoMsg}]
      /\ ring \in [Readers -> Seq(Msgs)] /\ Tail(ring[n]) \in Seq(Msgs)
  BY TailFacts DEF Nodes, IInv, CustodyInv, ThreadInv, PipesInv
<1>2. ~Finished(n) /\ (Finished(n)' <=> Type(c) = "term") /\ ring'[n] = Tail(ring[n])
  BY <1>1 DEF TermInv, Finished
<1>3. \A k \in Readers \ {n} : ring'[k] = ring[k] /\ Finished(k)' = Finished(k)
  BY <1>1 DEF Finished, Nodes
<1>4. ASSUME NEW u \in Nodes, NEW k PROVE Ended(u, k)' = Ended(u, k)
  <2>1. CASE u = n
    <3>1. ~Terminating(u) /\ ~Terminating(u)'
      BY <1>1, <2>1 DEF Terminating
    <3>2. QED
      BY <3>1 DEF Ended
  <2>2. CASE u # n
    <3>1. pc'[u] = pc[u] /\ cur'[u] = cur[u] /\ out'[u] = out[u]
      BY <1>1, <2>2
    <3>2. QED
      BY <3>1 DEF Ended, Terminating
  <2>3. QED
    BY <2>1, <2>2
<1>5. \A k \in Readers : \A w \in Preds(k) : w \in Nodes
  BY PredFacts
<1>6. ASSUME NEW k \in Readers, NEW w \in Preds(k)
      PROVE  /\ Final(ring'[k], k, w)
             /\ Closed(ring'[k], k, w) => Ended(w, k)'
             /\ Ended(w, k)' => Closed(ring'[k], k, w) \/ None(ring'[k], k, w)
  <2>1. Ended(w, k)' = Ended(w, k)
    BY <1>4, <1>5
  <2>2. CASE k = n
    BY <1>1, <1>2, <2>1, <2>2, LaneTail DEF TermInv
  <2>3. CASE k # n
    BY <1>3, <2>1, <2>3 DEF TermInv
  <2>4. QED
    BY <2>2, <2>3
<1>7. \A w \in Nodes \ {Mgr} : Tagged(cur'[w], out'[w])
  <2>1. Tagged(c, <<>>)
    BY DEF Tagged
  <2>2. QED
    BY <1>1, <2>1 DEF TermInv
\* The parser of the head of the ring has nothing behind it.
<1>8. ASSUME n = Inter(1), Type(m) = "term"
      PROVE  /\ m[2] \in Inputs /\ m[2] \in Unfinished /\ Parser(m[2]) \in Preds(n) /\ Ended(Parser(m[2]), n)
             /\ None(Tail(ring[n]), n, Parser(m[2])) /\ ~Closed(Tail(ring[n]), n, Parser(m[2]))
  <2>1. m[2] \in Inputs /\ Parser(m[2]) \in Preds(n) /\ From(Parser(m[2]), n, m)
    BY <1>1, <1>8, MsgFacts, PredFacts DEF From
  <2>2. Closed(ring[n], n, Parser(m[2])) /\ None(Tail(ring[n]), n, Parser(m[2]))
    BY <1>1, <1>8, <2>1, LaneTail DEF TermInv
  <2>3. QED
    BY <1>8, <2>1, <2>2 DEF TermInv, Unfinished, None, Closed
<1>9. ASSUME Finished(n)' PROVE ring'[n] = <<>> /\ \A w \in Preds(n) : Ended(w, n)'
  <2>1. Type(m) = "term" /\ ~IsEarlyTerm(n, m)
    BY <1>2, <1>9
  <2>2. CASE n # Inter(1)
    <3>1. PICK w \in Nodes : Preds(n) = {w}
      BY <2>2, PredFacts
    <3>2. \A x : From(w, n, x)
      BY <2>2 DEF From
    <3>3. Closed(ring[n], n, w) /\ None(Tail(ring[n]), n, w)
      BY <1>1, <2>1, <3>1, <3>2, LaneTail DEF TermInv
    <3>4. DOMAIN Tail(ring[n]) = {}
      BY <3>2, <3>3 DEF None
    <3>5. Tail(ring[n]) = <<>>
      BY <1>1, <3>4
    <3>6. QED
      BY <1>2, <1>4, <3>1, <3>3, <3>5 DEF TermInv
  <2>3. CASE n = Inter(1)
    <3>1. termCnt = Cardinality(Unfinished) /\ ~(termCnt > 1)
      BY <1>2, <2>1, <2>3 DEF TermInv, IsEarlyTerm
    <3>2. m[2] \in Unfinished
      BY <1>8, <2>1, <2>3
    <3>3. Unfinished = {m[2]}
      <4>1. IsFiniteSet(Unfinished) /\ Cardinality(Unfinished) \in Nat
        BY UnfinishedFacts, FS_CardinalityType
      <4>2. Cardinality(Unfinished \ {m[2]}) = Cardinality(Unfinished) - 1 /\ IsFiniteSet(Unfinished \ {m[2]})
        BY <3>2, <4>1, FS_RemoveElement
      <4>3. Cardinality(Unfinished \ {m[2]}) \in Nat
        BY <4>2, FS_CardinalityType
      <4>4. Cardinality(Unfinished \ {m[2]}) = 0
        BY <3>1, <4>1, <4>2, <4>3
      <4>5. Unfinished \ {m[2]} = {}
        BY <4>2, <4>4, FS_EmptySet
      <4>6. QED
        BY <3>2, <4>5
    <3>4. ASSUME NEW i \in Inputs PROVE Ended(Parser(i), n) /\ None(Tail(ring[n]), n, Parser(i))
      <4>1. CASE i = m[2]
        BY <1>8, <2>1, <2>3, <4>1
      <4>2. CASE i # m[2]
        <5>1. Ended(Parser(i), n) /\ ~Closed(ring[n], n, Parser(i)) /\ Parser(i) \in Preds(n)
          BY <2>3, <3>3, <4>2, PredFacts DEF Unfinished
        <5>2. None(ring[n], n, Parser(i))
          BY <5>1 DEF TermInv
        <5>3. QED
          BY <1>1, <5>1, <5>2, LaneTail
      <4>3. QED
        BY <4>1, <4>2
    <3>5. DOMAIN Tail(ring[n]) = {}
      <4>1. SUFFICES ASSUME NEW j \in DOMAIN Tail(ring[n]) PROVE FALSE
        OBVIOUS
      <4>2. Tail(ring[n])[j] \in Msgs
        BY <1>1, <4>1
      <4>3. Tail(ring[n])[j][2] \in Inputs
        BY <4>2, MsgFacts
      <4>4. None(Tail(ring[n]), n, Parser(Tail(ring[n])[j][2]))
        BY <3>4, <4>3
      <4>5. QED
        BY <4>1, <4>4 DEF None, From
    <3>6. Tail(ring[n]) = <<>>
      BY <1>1, <3>5
    <3>7. \A w \in Preds(n) : Ended(w, n)
      BY <2>3, <3>4, PredFacts
    <3>8. QED
      BY <1>2, <1>4, <1>5, <3>6, <3>7
  <2>4. QED
    BY <2>2, <2>3
<1>10. ASSUME ~Finished(Inter(1))' PROVE termCnt' = Cardinality(Unfinished') /\ termCnt' >= 1
  <2>1. Inter(1) \in Readers /\ \A i \in Inputs : Parser(i) \in Nodes /\ Parser(i) \in Preds(Inter(1))
    BY PredFacts, SuccFacts, NodeFacts DEF Readers, Movers, Nodes
  <2>2. \A i \in Inputs : Ended(Parser(i), Inter(1))' = Ended(Parser(i), Inter(1))
    BY <1>4, <2>1
  <2>3. CASE n # Inter(1)
    <3>1. ring'[Inter(1)] = ring[Inter(1)] /\ ~Finished(Inter(1)) /\ termCnt' = termCnt
      BY <1>3, <1>10, <2>1, <2>3 DEF IsEarlyTerm
    <3>2. Unfinished' = Unfinished
      BY <2>2, <3>1 DEF Unfinished
    <3>3. QED
      BY <3>1, <3>2 DEF TermInv
  <2>4. CASE n = Inter(1) /\ Type(m) # "term"
    <3>1. \A i \in Inputs : Closed(Tail(ring[n]), n, Parser(i)) <=> Closed(ring[n], n, Parser(i))
      BY <1>1, <2>4, LaneTail
    <3>2. Unfinished' = Unfinished
      BY <1>2, <2>2, <2>4, <3>1 DEF Unfinished
    <3>3. termCnt' = termCnt
      BY <2>4 DEF IsEarlyTerm
    <3>4. QED
      BY <1>2, <2>4, <3>2, <3>3 DEF TermInv
  <2>5. CASE n = Inter(1) /\ Type(m) = "term"
    <3>1. IsEarlyTerm(n, m) /\ termCnt' = termCnt - 1 /\ termCnt = Cardinality(Unfinished)
      BY <1>2, <1>10, <2>5 DEF TermInv
    <3>2. \A i \in Inputs : i # m[2] => ~From(Parser(i), n, m)
      BY <2>5, UnfinishedFacts DEF From
    <3>3. \A i \in Inputs : i # m[2] => Closed(Tail(ring[n]), n, Parser(i)) <=> Closed(ring[n], n, Parser(i))
      BY <1>1, <3>2, LaneTail
    <3>4. m[2] \in Unfinished /\ ~Closed(Tail(ring[n]), n, Parser(m[2])) /\ Ended(Parser(m[2]), n)
      BY <1>8, <2>5
    <3>5. Unfinished' = Unfinished \ {m[2]}
      BY <1>2, <2>2, <2>5, <3>3, <3>4 DEF Unfinished
    <3>6. Cardinality(Unfinished \ {m[2]}) = Cardinality(Unfinished) - 1
      BY <3>4, UnfinishedFacts, FS_RemoveElement
    <3>7. termCnt' >= 1
      <4>1. termCnt \in 0 .. NIn /\ termCnt > 1
        BY <3>1 DEF IsEarlyTerm, IInv, NumbersInv
      <4>2. QED
        BY <3>1, <4>1
    <3>8. QED
      BY <3>1, <3>5, <3>6, <3>7
  <2>6. QED
    BY <2>3, <2>4, <2>5
<1>11. \A k \in Readers : Finished(k)' => ring'[k] = <<>> /\ \A w \in Preds(k) : Ended(w, k)'
  <2>1. ASSUME NEW k \in Readers, k # n, Finished(k)' PROVE ring'[k] = <<>> /\ \A w \in Preds(k) : Ended(w, k)'
    <3>1. Finished(k) /\ ring'[k] = ring[k]
      BY <1>3, <2>1
    <3>2. QED
      BY <1>4, <1>5, <3>1 DEF TermInv
  <2>2. QED
    BY <1>9, <2>1
<1>12. ASSUME NEW k \in Readers \ {Inter(1)}, NEW w \in Preds(k), Ended(w, k)', ~Closed(ring'[k], k, w) PROVE Finished(k)'
  <2>1. Ended(w, k)
    BY <1>4, <1>5, <1>12
  <2>2. CASE k = n
    <3>1. CASE Closed(ring[n], n, w)
      <4>1. Type(m) = "term"
        BY <1>1, <1>2, <1>12, <2>2, <3>1, LaneTail
      <4>2. ~IsEarlyTerm(n, m)
        BY <1>12, <2>2 DEF IsEarlyTerm
      <4>3. QED
        BY <1>2, <2>2, <4>1, <4>2
    <3>2. CASE ~Closed(ring[n], n, w)
      BY <1>2, <1>12, <2>1, <2>2, <3>2 DEF TermInv
    <3>3. QED
      BY <3>1, <3>2
  <2>3. CASE k # n
    <3>1. Finished(k)
      BY <1>3, <1>12, <2>1, <2>3 DEF TermInv
    <3>2. QED
      BY <1>3, <2>3, <3>1
  <2>4. QED
    BY <2>2, <2>3
<1>13. \A k : Preds(k)' = Preds(k)
  BY DEF Preds
<1>14. QED
  BY <1>6, <1>7, <1>10, <1>11, <1>12, <1>13 DEF TermInv

LEMMA TermPush ==
    ASSUME IInv, TermInv, NEW w \in InNodes \cup Movers, PushOne(w)
    PROVE  TermInv'
<1>1. PICK to \in Readers, m \in Msgs : Head(out[w]) = <<to, m>>
  BY PushHead DEF PushOne, IInv
<1>2. /\ pc[w] = "push" /\ ring' = [ring EXCEPT ![to] = Append(@, m)]
      /\ Start(w, cur[w], Tail(out[w]), rc[w]) /\ termCnt' = termCnt
  <2>1. Head(out[w])[1] = to /\ Head(out[w])[2] = m
    BY <1>1
  <2>2. QED
    BY <2>1 DEF PushOne
<1>3. /\ w \in Nodes /\ w \notin OutNodes /\ ring \in [Readers -> Seq(Msgs)] /\ ring[to] \in Seq(Msgs)
      /\ out[w] \in Seq(Readers \X Msgs) /\ out[w] # <<>> /\ IsInjective(out[w])
      /\ Targets(w, cur[w], out[w]) /\ (Type(cur[w]) = "term" => rc[w] = "ok")
      /\ pc \in [Nodes -> InputStates \cup MoverStates \cup OutStates] /\ cur \in [Nodes -> Msgs \cup {NoMsg}]
      /\ out \in [Nodes -> Seq(Readers \X Msgs)]
  BY <1>2, NodeFacts DEF Nodes, Readers, Movers, IInv, CustodyInv, ThreadInv, PipesInv, OnceInv
<1>4. /\ out[w][1] = <<to, m>> /\ 1 \in DOMAIN out[w] /\ Len(Tail(out[w])) = Len(out[w]) - 1 /\ Len(out[w]) \in Nat
      /\ Len(out[w]) >= 1 /\ DOMAIN out[w] = 1 .. Len(out[w]) /\ DOMAIN Tail(out[w]) = 1 .. Len(out[w]) - 1
      /\ \A k \in DOMAIN Tail(out[w]) : k + 1 \in DOMAIN out[w] /\ Tail(out[w])[k] = out[w][k + 1]
      /\ \A k \in DOMAIN out[w] : k = 1 \/ (k - 1 \in DOMAIN Tail(out[w]) /\ out[w][k] = Tail(out[w])[k - 1])
      /\ (Tail(out[w]) = <<>> <=> Len(out[w]) = 1)
  <2>1. /\ out[w][1] = Head(out[w]) /\ 1 \in DOMAIN out[w] /\ Len(out[w]) \in Nat /\ Len(out[w]) >= 1
        /\ DOMAIN out[w] = 1 .. Len(out[w])
    BY <1>3
  <2>2. Tail(out[w]) \in Seq(Readers \X Msgs) /\ Len(Tail(out[w])) = Len(out[w]) - 1
    BY <1>3
  <2>3. /\ DOMAIN Tail(out[w]) = 1 .. Len(out[w]) - 1
        /\ \A k \in DOMAIN Tail(out[w]) : k + 1 \in DOMAIN out[w] /\ Tail(out[w])[k] = out[w][k + 1]
    BY <1>3, <2>2
  <2>4. \A k \in DOMAIN out[w] : k = 1 \/ (k - 1 \in DOMAIN Tail(out[w]) /\ out[w][k] = Tail(out[w])[k - 1])
    BY <1>3, <2>1, <2>3
  <2>5. Tail(out[w]) = <<>> <=> Len(out[w]) = 1
    <3>1. Tail(out[w]) = <<>> <=> Len(Tail(out[w])) = 0
      BY <2>2, EmptySeq
    <3>2. QED
      BY <2>1, <2>2, <3>1
  <2>6. QED
    BY <1>1, <2>1, <2>2, <2>3, <2>4, <2>5
<1>5. /\ out[w][1][1] = to /\ out[w][1][2] = m
  BY <1>4
<1>6. /\ out'[w] = Tail(out[w]) /\ pc'[w] = (IF Tail(out[w]) = <<>> THEN After(w, cur[w], rc[w]) ELSE "push")
      /\ cur'[w] = (IF Tail(out[w]) = <<>> THEN NoMsg ELSE cur[w])
      /\ \A k \in Nodes \ {w} : pc'[k] = pc[k] /\ cur'[k] = cur[k] /\ out'[k] = out[k]
  BY <1>2, <1>3 DEF Start
<1>7. /\ After(w, cur[w], rc[w]) \in {"loop", "get", "handle", "exit"}
      /\ (Type(cur[w]) = "term" <=> After(w, cur[w], rc[w]) = "exit")
  <2>1. After(w, cur[w], rc[w]) \in {"loop", "get", "handle", "exit"}
    BY DEF After
  <2>2. Type(cur[w]) = "term" => After(w, cur[w], rc[w]) = "exit"
    <3>1. SUFFICES ASSUME Type(cur[w]) = "term" PROVE After(w, cur[w], rc[w]) = "exit"
      OBVIOUS
    <3>2. rc[w] = "ok" /\ ~IsPeriodic(cur[w])
      BY <1>3, <3>1 DEF IsPeriodic
    <3>3. QED
      BY <3>1, <3>2 DEF After
  <2>3. Type(cur[w]) # "term" => After(w, cur[w], rc[w]) # "exit"
    BY DEF After
  <2>4. QED
    BY <2>1, <2>2, <2>3
<1>8. Type(NoMsg) # "term"
  BY MsgFacts
<1>9. (Terminating(w) <=> Type(cur[w]) = "term") /\ (Terminating(w)' <=> Type(cur[w]) = "term")
  BY <1>2, <1>6, <1>7 DEF Terminating
<1>10. \A k \in Readers : Finished(k)' = Finished(k)
  <2>1. Finished(w)' = Finished(w)
    BY <1>2, <1>6, <1>7, <1>8 DEF Finished
  <2>2. \A k \in Nodes \ {w} : Finished(k)' = Finished(k)
    BY <1>6 DEF Finished
  <2>3. QED
    BY <2>1, <2>2 DEF Nodes
<1>11. w \in Preds(to)
  <2>1. CASE w = Mgr
    <3>1. to \in OutNodes
      BY <1>3, <1>4, <1>5, <2>1 DEF Targets
    <3>2. QED
      BY <2>1, <3>1, PredFacts
  <2>2. CASE w # Mgr
    <3>1. to = Succ(w)
      BY <1>3, <1>4, <1>5, <2>2 DEF Targets
    <3>2. QED
      BY <2>2, <3>1, PredFacts
  <2>3. QED
    BY <2>1, <2>2
<1>12. From(w, to, m)
  <2>1. SUFFICES ASSUME to = Inter(1) PROVE w = Parser(m[2])
    BY DEF From
  <2>2. PICK i \in Inputs : w = Parser(i)
    BY <1>11, <2>1, PredFacts
  <2>3. w # Mgr
    BY <2>2, NodeFacts, SuccFacts
  <2>4. m \in At(<<"out", w>>)
    <3>1. m \in Pushed(out[w])
      BY <1>4, <1>5 DEF Pushed
    <3>2. QED
      BY <1>3, <2>3, <3>1 DEF At, ToPush
  <2>5. <<"out", w>> \in Places
    BY <1>3, PlaceFacts
  <2>6. m[2] = i
    BY <2>2, <2>4, <2>5 DEF IInv, OriginInv
  <2>7. QED
    BY <2>2, <2>6
<1>13. ASSUME NEW u \in Preds(to), u # w PROVE ~From(u, to, m)
  <2>1. to = Inter(1)
    BY <1>11, <1>13, PredFacts
  <2>2. QED
    BY <1>12, <1>13, <2>1 DEF From
<1>14. ~Ended(w, to) /\ ~Closed(ring[to], to, w) /\ ~Finished(to)
  <2>1. ~Ended(w, to)
    BY <1>4, <1>5 DEF Ended
  <2>2. QED
    BY <1>11, <2>1 DEF TermInv
<1>15. ASSUME NEW k \in Readers, NEW u \in Preds(k), u # w \/ k # to PROVE Ended(u, k)' = Ended(u, k)
  <2>1. u \in Nodes
    BY PredFacts
  <2>2. CASE u # w
    BY <1>6, <2>1, <2>2 DEF Ended, Terminating
  <2>3. CASE u = w
    <3>1. k # to
      BY <1>15, <2>3
    <3>2. (\A j \in DOMAIN out'[w] : out'[w][j][1] # k) <=> (\A j \in DOMAIN out[w] : out[w][j][1] # k)
      <4>1. ASSUME \A j \in DOMAIN out[w] : out[w][j][1] # k, NEW j \in DOMAIN Tail(out[w]) PROVE Tail(out[w])[j][1] # k
        BY <1>4, <4>1
      <4>2. ASSUME \A j \in DOMAIN Tail(out[w]) : Tail(out[w])[j][1] # k, NEW j \in DOMAIN out[w] PROVE out[w][j][1] # k
        <5>1. CASE j = 1
          BY <1>5, <3>1, <5>1
        <5>2. CASE j - 1 \in DOMAIN Tail(out[w]) /\ out[w][j] = Tail(out[w])[j - 1]
          BY <4>2, <5>2
        <5>3. QED
          BY <1>4, <4>2, <5>1, <5>2
      <4>3. QED
        BY <1>6, <4>1, <4>2
    <3>3. QED
      BY <1>9, <2>3, <3>2 DEF Ended
  <2>4. QED
    BY <2>2, <2>3
<1>16. Ended(w, to)' <=> Type(m) = "term"
  <2>1. CASE w = Mgr
    <3>1. m = cur[w]
      BY <1>3, <1>4, <1>5, <2>1 DEF Targets
    <3>2. ASSUME NEW j \in DOMAIN Tail(out[w]) PROVE Tail(out[w])[j][1] # to
      <4>1. j + 1 \in DOMAIN out[w] /\ j + 1 # 1 /\ Tail(out[w])[j] = out[w][j + 1]
        BY <1>4, <3>2
      <4>2. out[w][j + 1] # out[w][1]
        BY <1>3, <1>4, <4>1 DEF IsInjective
      <4>3. out[w][j + 1][2] = m /\ out[w][j + 1] \in Readers \X Msgs
        BY <1>3, <2>1, <3>1, <4>1 DEF Targets
      <4>4. out[w][j + 1][1] # to
        BY <1>4, <4>2, <4>3
      <4>5. QED
        BY <4>1, <4>4
    <3>3. QED
      BY <1>6, <1>9, <3>1, <3>2 DEF Ended
  <2>2. CASE w # Mgr
    <3>1. \A j \in DOMAIN out[w] : out[w][j][1] = to
      BY <1>3, <1>4, <1>5, <2>2 DEF Targets
    <3>2. (\A j \in DOMAIN Tail(out[w]) : Tail(out[w])[j][1] # to) <=> Len(out[w]) = 1
      <4>1. CASE Len(out[w]) = 1
        BY <1>4, <4>1
      <4>2. CASE Len(out[w]) # 1
        <5>1. 1 \in DOMAIN Tail(out[w]) /\ Tail(out[w])[1][1] = to
          BY <1>4, <3>1, <4>2
        <5>2. QED
          BY <4>2, <5>1
      <4>3. QED
        BY <4>1, <4>2
    <3>3. Type(m) = "term" <=> Len(out[w]) = 1 /\ Type(cur[w]) = "term"
      BY <1>3, <1>4, <1>5, <2>2 DEF TermInv, Tagged
    <3>4. QED
      BY <1>6, <1>9, <3>2, <3>3 DEF Ended
  <2>3. QED
    BY <2>1, <2>2
<1>17. ring'[to] = Append(ring[to], m) /\ \A k \in Readers \ {to} : ring'[k] = ring[k]
  BY <1>2, <1>3
<1>18. ASSUME NEW k \in Readers, NEW u \in Preds(k)
       PROVE  /\ Final(ring'[k], k, u)
              /\ Closed(ring'[k], k, u) => Ended(u, k)'
              /\ Ended(u, k)' => Closed(ring'[k], k, u) \/ None(ring'[k], k, u)
  <2>1. CASE k # to
    BY <1>15, <1>17, <2>1 DEF TermInv
  <2>2. CASE k = to /\ u = w
    <3>1. Final(ring[to], to, w)
      BY <1>11 DEF TermInv
    <3>2. Final(Append(ring[to], m), to, w) /\ (Closed(Append(ring[to], m), to, w) <=> Type(m) = "term")
      BY <1>3, <1>12, <1>14, <3>1, LaneAppend
    <3>3. QED
      BY <1>16, <1>17, <2>2, <3>2
  <2>3. CASE k = to /\ u # w
    <3>1. ~From(u, to, m) /\ Ended(u, to)' = Ended(u, to)
      BY <1>13, <1>15, <2>3
    <3>2. /\ Final(ring[to], to, u) => Final(Append(ring[to], m), to, u)
          /\ Closed(Append(ring[to], m), to, u) <=> Closed(ring[to], to, u)
          /\ None(ring[to], to, u) => None(Append(ring[to], m), to, u)
      BY <1>3, <3>1, LaneAppend
    <3>3. QED
      BY <1>17, <2>3, <3>1, <3>2 DEF TermInv
  <2>4. QED
    BY <2>1, <2>2, <2>3
<1>19. ASSUME NEW u \in Nodes \ {Mgr} PROVE Tagged(cur'[u], out'[u])
  <2>1. CASE u # w
    BY <1>6, <2>1 DEF TermInv
  <2>2. CASE u = w
    <3>1. Tagged(cur[w], out[w])
      BY <2>2 DEF TermInv
    <3>2. CASE Len(out[w]) = 1
      <4>1. DOMAIN out'[w] = {}
        BY <1>4, <1>6, <3>2
      <4>2. QED
        BY <2>2, <4>1 DEF Tagged
    <3>3. CASE Len(out[w]) # 1
      <4>1. cur'[w] = cur[w]
        BY <1>4, <1>6, <3>3
      <4>2. Tagged(cur[w], Tail(out[w]))
        <5>1. ASSUME NEW j \in DOMAIN Tail(out[w])
              PROVE  Type(Tail(out[w])[j][2]) = "term" <=> (j = Len(Tail(out[w])) /\ Type(cur[w]) = "term")
          <6>1. j + 1 \in DOMAIN out[w] /\ Tail(out[w])[j] = out[w][j + 1]
            BY <1>4, <5>1
          <6>2. Type(out[w][j + 1][2]) = "term" <=> (j + 1 = Len(out[w]) /\ Type(cur[w]) = "term")
            BY <3>1, <6>1 DEF Tagged
          <6>3. j = Len(Tail(out[w])) <=> j + 1 = Len(out[w])
            <7>1. j \in Nat /\ Len(out[w]) \in Nat /\ Len(Tail(out[w])) = Len(out[w]) - 1
              BY <1>4, <5>1
            <7>2. QED
              BY <7>1
          <6>4. QED
            BY <6>1, <6>2, <6>3
        <5>2. QED
          BY <5>1 DEF Tagged
      <4>3. QED
        BY <1>6, <2>2, <4>1, <4>2
    <3>4. QED
      BY <3>2, <3>3
  <2>3. QED
    BY <2>1, <2>2
<1>20. ASSUME NEW k \in Readers, Finished(k)' PROVE ring'[k] = <<>> /\ \A u \in Preds(k) : Ended(u, k)'
  <2>1. Finished(k) /\ k # to
    BY <1>10, <1>14, <1>20
  <2>2. QED
    BY <1>15, <1>17, <2>1 DEF TermInv
<1>21. Unfinished' = Unfinished
  <2>1. Inter(1) \in Readers /\ \A i \in Inputs : Parser(i) \in Preds(Inter(1))
    BY PredFacts, SuccFacts DEF Readers, Movers
  <2>2. ASSUME NEW i \in Inputs
        PROVE  (~Ended(Parser(i), Inter(1)) \/ Closed(ring[Inter(1)], Inter(1), Parser(i)))'
                 <=> (~Ended(Parser(i), Inter(1)) \/ Closed(ring[Inter(1)], Inter(1), Parser(i)))
    <3>1. CASE to # Inter(1)
      <4>1. Ended(Parser(i), Inter(1))' = Ended(Parser(i), Inter(1)) /\ ring'[Inter(1)] = ring[Inter(1)]
        BY <1>15, <1>17, <2>1, <3>1
      <4>2. QED
        BY <4>1
    <3>2. CASE to = Inter(1) /\ Parser(i) # w
      <4>1. Ended(Parser(i), to)' = Ended(Parser(i), to) /\ ~From(Parser(i), to, m)
        BY <1>13, <1>15, <2>1, <3>2
      <4>2. Closed(ring'[to], to, Parser(i)) <=> Closed(ring[to], to, Parser(i))
        BY <1>3, <1>17, <4>1, LaneAppend
      <4>3. QED
        BY <3>2, <4>1, <4>2
    <3>3. CASE to = Inter(1) /\ Parser(i) = w
      <4>1. Closed(ring'[to], to, w) <=> Type(m) = "term"
        BY <1>3, <1>12, <1>14, <1>17, LaneAppend
      <4>2. QED
        BY <1>14, <1>16, <3>3, <4>1
    <3>4. QED
      BY <3>1, <3>2, <3>3
  <2>3. QED
    BY <2>2 DEF Unfinished
<1>22. ~Finished(Inter(1))' => termCnt' = Cardinality(Unfinished') /\ termCnt' >= 1
  <2>1. Inter(1) \in Readers
    BY SuccFacts DEF Readers, Movers
  <2>2. QED
    BY <1>2, <1>10, <1>21, <2>1 DEF TermInv
<1>23. ASSUME NEW k \in Readers \ {Inter(1)}, NEW u \in Preds(k), Ended(u, k)', ~Closed(ring'[k], k, u) PROVE Finished(k)'
  <2>1. CASE k = to
    <3>1. u = w
      <4>1. PICK v \in Nodes : Preds(k) = {v}
        BY <1>23, PredFacts
      <4>2. QED
        BY <1>11, <1>23, <2>1, <4>1
    <3>2. Type(m) = "term"
      BY <1>16, <1>23, <2>1, <3>1
    <3>3. Closed(ring'[to], to, w)
      BY <1>3, <1>12, <1>17, <3>2, LaneAppend
    <3>4. QED
      BY <1>23, <2>1, <3>1, <3>3
  <2>2. CASE k # to
    <3>1. Ended(u, k) /\ ~Closed(ring[k], k, u)
      BY <1>15, <1>17, <1>23, <2>2
    <3>2. Finished(k)
      BY <1>23, <3>1 DEF TermInv
    <3>3. QED
      BY <1>10, <3>2
  <2>3. QED
    BY <2>1, <2>2
<1>24. \A k : Preds(k)' = Preds(k)
  BY DEF Preds
<1>25. QED
  BY <1>18, <1>19, <1>20, <1>22, <1>23, <1>24 DEF TermInv

\* A thread that has just got a message has not given anybody its terminate message yet.
LEMMA TermStart ==
    ASSUME IInv, TermInv, NEW w \in InNodes \cup Movers, pc[w] \in {"loop", "get", "decide"},
           NEW m, NEW ps, NEW code, Start(w, m, ps, code), UNCHANGED <<ring, termCnt>>,
           w \in Movers => pc[w] = "decide" /\ m = cur[w],
           w # Mgr => Tagged(m, ps),
           Type(m) = "term" => \A n \in Readers : w \in Preds(n) => \E k \in DOMAIN ps : ps[k][1] = n
    PROVE  TermInv'
<1>1. w \in Nodes /\ w \notin OutNodes /\ Type(NoMsg) # "term"
  BY NodeFacts, MsgFacts DEF Nodes, Readers, Movers
<1>2. /\ out'[w] = ps /\ pc'[w] = (IF ps = <<>> THEN After(w, m, code) ELSE "push")
      /\ cur'[w] = (IF ps = <<>> THEN NoMsg ELSE m)
      /\ \A k \in Nodes \ {w} : pc'[k] = pc[k] /\ cur'[k] = cur[k] /\ out'[k] = out[k]
  BY <1>1 DEF Start, IInv, CustodyInv, ThreadInv
<1>3. After(w, m, code) \in {"loop", "get", "handle", "exit"} /\ (Type(m) # "term" => After(w, m, code) # "exit")
  BY DEF After
<1>4. Type(m) = "term" => ps # <<>>
  <2>1. \E n \in Readers : w \in Preds(n)
    <3>1. CASE w = Mgr
      <4>1. Out(1) \in OutNodes
        BY InputFacts, NodeFacts
      <4>2. QED
        BY <3>1, <4>1, PredFacts DEF Readers
    <3>2. CASE w # Mgr
      BY <3>2, PredFacts
    <3>3. QED
      BY <3>1, <3>2
  <2>2. DOMAIN <<>> = {}
    OBVIOUS
  <2>3. QED
    BY <2>1, <2>2
<1>5. ~Terminating(w) /\ (Terminating(w)' => Type(m) = "term")
  <2>1. ~Terminating(w)
    BY DEF Terminating
  <2>2. Terminating(w)' => Type(m) = "term"
    BY <1>1, <1>2, <1>3 DEF Terminating
  <2>3. QED
    BY <2>1, <2>2
<1>6. ASSUME NEW n \in Readers, NEW u \in Preds(n) PROVE Ended(u, n)' = Ended(u, n)
  <2>1. u \in Nodes
    BY PredFacts
  <2>2. CASE u = w
    <3>1. ~Ended(w, n)
      BY <1>5 DEF Ended
    <3>2. ~Ended(w, n)'
      <4>1. CASE Type(m) = "term"
        <5>1. PICK k \in DOMAIN ps : ps[k][1] = n
          BY <2>2, <4>1
        <5>2. QED
          BY <1>2, <5>1 DEF Ended
      <4>2. CASE Type(m) # "term"
        BY <1>5, <4>2 DEF Ended
      <4>3. QED
        BY <4>1, <4>2
    <3>3. QED
      BY <2>2, <3>1, <3>2 DEF Ended
  <2>3. CASE u # w
    BY <1>2, <2>1, <2>3 DEF Ended, Terminating
  <2>4. QED
    BY <2>2, <2>3
<1>7. ASSUME NEW n \in Readers PROVE Finished(n)' = Finished(n)
  <2>1. CASE n = w
    <3>1. pc[w] = "decide" /\ m = cur[w]
      BY <2>1, NodeFacts DEF Readers
    <3>2. Finished(w) <=> Type(m) = "term"
      BY <3>1 DEF Finished
    <3>3. Finished(w)' <=> Type(m) = "term"
      BY <1>1, <1>2, <1>3, <1>4 DEF Finished
    <3>4. QED
      BY <2>1, <3>2, <3>3 DEF Finished
  <2>2. CASE n # w
    BY <1>2, <2>2 DEF Finished, Nodes
  <2>3. QED
    BY <2>1, <2>2
<1>8. ASSUME NEW u \in Nodes \ {Mgr} PROVE Tagged(cur'[u], out'[u])
  <2>1. CASE u = w
    <3>1. CASE ps = <<>>
      <4>1. DOMAIN out'[u] = {}
        BY <1>2, <2>1, <3>1
      <4>2. QED
        BY <4>1 DEF Tagged
    <3>2. CASE ps # <<>>
      BY <1>2, <1>8, <2>1, <3>2
    <3>3. QED
      BY <3>1, <3>2
  <2>2. CASE u # w
    BY <1>2, <2>2 DEF TermInv
  <2>3. QED
    BY <2>1, <2>2
<1>9. QED
  BY <1>6, <1>7, <1>8, TermKept

\* The same of a thread that pushes to the next instance.
LEMMA TermPushes ==
    ASSUME IInv, TermInv, NEW w \in InNodes \cup Movers, w # Mgr, pc[w] \in {"loop", "get", "decide"},
           NEW m, NEW ms \in Seq(Msgs), NEW code, Start(w, m, Push(w, ms), code), UNCHANGED <<ring, termCnt>>,
           w \in Movers => pc[w] = "decide" /\ m = cur[w],
           \A k \in DOMAIN ms : Type(ms[k]) = "term" <=> (k = Len(ms) /\ Type(m) = "term"),
           Type(m) = "term" => ms # <<>>
    PROVE  TermInv'
<1>1. /\ DOMAIN Push(w, ms) = DOMAIN ms /\ Len(Push(w, ms)) = Len(ms)
      /\ \A k \in DOMAIN ms : Push(w, ms)[k][1] = Succ(w) /\ Push(w, ms)[k][2] = ms[k]
  BY DEF Push
<1>2. Tagged(m, Push(w, ms))
  BY <1>1 DEF Tagged
<1>3. Type(m) = "term" => \A n \in Readers : w \in Preds(n) => \E k \in DOMAIN Push(w, ms) : Push(w, ms)[k][1] = n
  <2>1. ms # <<>> => 1 \in DOMAIN ms
    OBVIOUS
  <2>2. \A n \in Readers : w \in Preds(n) => n = Succ(w)
    BY PredFacts
  <2>3. QED
    BY <1>1, <2>1, <2>2
<1>4. QED
  BY <1>2, <1>3, TermStart

LEMMA TermOfMover ==
    ASSUME IInv, TermInv, NEW n \in Movers,
           MoverPass(n) \/ MoverTerm(n) \/ (n \in Parsers /\ ParserProcess(n[2])) \/ InterProcess(n)
    PROVE  TermInv'
<1> DEFINE m == cur[n]
<1>1. n # Mgr /\ pc[n] = "decide" /\ UNCHANGED <<ring, termCnt>>
  <2>1. n \in Parsers => n = Parser(n[2]) /\ n # Mgr
    BY NodeFacts, SuccFacts
  <2>2. QED
    BY <2>1 DEF MoverPass, MoverTerm, ParserProcess, InterProcess
<1>2. n \in InNodes \cup Movers /\ n \in Nodes /\ m \in Msgs
  BY <1>1 DEF Nodes, Readers, IInv, CustodyInv, ThreadInv
<1>3. ASSUME NEW code, Start(n, m, Push(n, <<m>>), code) PROVE TermInv'
  <2>1. /\ <<m>> \in Seq(Msgs) /\ <<m>> # <<>> /\ DOMAIN <<m>> = {1} /\ Len(<<m>>) = 1 /\ <<m>>[1] = m
    BY <1>2
  <2>2. QED
    BY <1>1, <1>2, <1>3, <2>1, TermPushes
<1>4. CASE MoverPass(n)
  BY <1>3, <1>4 DEF MoverPass
<1>5. CASE InterProcess(n)
  BY <1>3, <1>5 DEF InterProcess
<1>6. CASE n \in Parsers /\ ParserProcess(n[2])
  <2> DEFINE g == TemplateGarbage(n[2])
  <2>1. n = Parser(n[2]) /\ n[2] \in Inputs
    BY <1>6, NodeFacts
  <2>2. IsData(m) /\ Start(n, m, Push(n, ParserOutput(m, IF Type(m) = "close" /\ knows[n[2]] THEN <<g>> ELSE <<>>)), "ok")
    BY <1>6, <2>1 DEF ParserProcess
  <2>3. Type(m) # "term"
    BY <2>2 DEF IsData
  <2>4. CASE Type(m) = "close" /\ knows[n[2]]
    <3>1. g \in Msgs /\ Type(g) # "term"
      <4>1. Type(g) = "garbage"
        BY DEF TemplateGarbage, Type
      <4>2. QED
        BY <2>1, <4>1, MsgFacts
    <3> HIDE DEF g
    <3>2. <<m>> \o <<g>> = <<m, g>>
      BY <1>2, <3>1, JoinFacts
    <3>3. Start(n, m, Push(n, <<m, g>>), "ok")
      BY <2>2, <2>4, <3>2 DEF ParserOutput
    <3>4. <<m, g>> \in Seq(Msgs) /\ \A k \in DOMAIN <<m, g>> : Type(<<m, g>>[k]) # "term"
      BY <1>2, <2>3, <3>1
    <3>5. QED
      BY <1>1, <1>2, <2>3, <3>3, <3>4, TermPushes
  <2>5. CASE ~(Type(m) = "close" /\ knows[n[2]])
    <3>1. ParserOutput(m, <<>>) = <<m>>
      BY <1>2 DEF ParserOutput
    <3>2. QED
      BY <1>3, <2>2, <2>5, <3>1
  <2>6. QED
    BY <2>4, <2>5
<1>7. CASE MoverTerm(n)
  <2>1. Type(m) = "term" /\ Start(n, m, Push(n, (IF n \in Parsers THEN <<ParserGarbage(n[2])>> ELSE <<>>) \o <<m>>), "ok")
    BY <1>7 DEF MoverTerm
  <2>2. CASE n \in Parsers
    <3> DEFINE g == ParserGarbage(n[2])
    <3>1. g \in Msgs /\ Type(g) # "term"
      <4>1. Type(g) = "garbage"
        BY DEF ParserGarbage, Type
      <4>2. n[2] \in Inputs
        BY <2>2, NodeFacts
      <4>3. QED
        BY <4>1, <4>2, MsgFacts
    <3> HIDE DEF g
    <3>2. <<g>> \o <<m>> = <<g, m>>
      BY <1>2, <3>1, JoinFacts
    <3>3. Start(n, m, Push(n, <<g, m>>), "ok")
      BY <2>1, <2>2, <3>2 DEF g
    <3>4. /\ <<g, m>> \in Seq(Msgs) /\ <<g, m>> # <<>>
          /\ \A k \in DOMAIN <<g, m>> : Type(<<g, m>>[k]) = "term" <=> (k = Len(<<g, m>>) /\ Type(m) = "term")
      BY <1>2, <2>1, <3>1
    <3>5. QED
      BY <1>1, <1>2, <3>3, <3>4, TermPushes
  <2>3. CASE n \notin Parsers
    <3>1. <<>> \o <<m>> = <<m>>
      BY <1>2
    <3>2. QED
      BY <1>3, <2>1, <2>3, <3>1
  <2>4. QED
    BY <2>2, <2>3
<1>8. QED
  BY <1>4, <1>5, <1>6, <1>7

LEMMA TermOfManager ==
    ASSUME IInv, TermInv, ManagerProcess
    PROVE  TermInv'
<1> DEFINE m == cur[Mgr]
<1>1. PICK dest \in InOrder(Destinations(m)) :
          Start(Mgr, m, [k \in 1 .. Len(dest) |-> <<Out(dest[k]), m>>], "ok")
  BY DEF ManagerProcess
<1>2. pc[Mgr] = "decide" /\ UNCHANGED <<ring, termCnt>> /\ Mgr \in InNodes \cup Movers
  BY SuccFacts DEF ManagerProcess, Movers
<1> DEFINE ps == [k \in 1 .. Len(dest) |-> <<Out(dest[k]), m>>]
<1>3. ASSUME Type(m) = "term", NEW n \in Readers, Mgr \in Preds(n) PROVE \E k \in DOMAIN ps : ps[k][1] = n
  <2>1. n \in OutNodes /\ n[2] \in Outputs /\ n = Out(n[2])
    BY <1>3, PredFacts, NodeFacts
  <2>2. n[2] \in Destinations(m)
    BY <1>3, <2>1 DEF Destinations
  <2>3. PICK k \in 1 .. Len(dest) : dest[k] = n[2]
    <3>1. Range(dest) = Destinations(m) /\ DOMAIN dest = 1 .. Len(dest)
      <4>1. dest \in [1 .. Cardinality(Destinations(m)) -> Destinations(m)] /\ Range(dest) = Destinations(m)
        BY <1>1 DEF InOrder
      <4>2. Cardinality(Destinations(m)) \in Nat
        <5>1. IsFiniteSet(Destinations(m))
          BY OutputsFinite, FS_Subset DEF Destinations
        <5>2. QED
          BY <5>1, FS_CardinalityType
      <4>3. QED
        BY <4>1, <4>2
    <3>2. QED
      BY <2>2, <3>1 DEF Range
  <2>4. QED
    BY <2>1, <2>3
<1> HIDE DEF ps
<1>4. Start(Mgr, m, ps, "ok")
  BY <1>1 DEF ps
<1>5. QED
  BY <1>2, <1>3, <1>4, TermStart

LEMMA TermOfInput ==
    ASSUME IInv, TermInv, NEW i \in Inputs, InputPipe(i) \/ InputGet(i)
    PROVE  TermInv'
<1> DEFINE n == In(i)
<1>1. n \in InNodes \cup Movers /\ n # Mgr /\ n \notin Movers
  BY NodeFacts, SuccFacts DEF Readers, Movers
<1>2. pc[n] \in {"loop", "get"} /\ UNCHANGED <<ring, termCnt>>
  BY DEF InputPipe, InputGet
<1> DEFINE c == Close(i)
           g == SessionGarbage(i)
<1>3. c \in Msgs /\ g \in Msgs /\ Type(c) = "close" /\ Type(g) = "garbage"
  <2>1. Type(c) = "close" /\ Type(g) = "garbage"
    BY DEF Close, SessionGarbage, Type
  <2>2. QED
    BY <2>1, MsgFacts
<1>4. CloseAll(i) = <<>> \/ CloseAll(i) = <<c, g>>
  BY DEF CloseAll
<1> HIDE DEF c, g
<1>5. CASE InputPipe(i)
  <2>1. PICK m \in Msgs : m = Head(fpipe[i])
    BY <1>5, TailFacts DEF InputPipe, IInv, CustodyInv, PipesInv
  <2>2. IF Type(m) = "term" THEN Start(n, m, Push(n, CloseAll(i) \o <<m>>), "ok")
                            ELSE Start(n, m, Push(n, <<m>>), "ok")
    BY <1>5, <2>1 DEF InputPipe
  <2>3. ASSUME Start(n, m, Push(n, <<m>>), "ok") PROVE TermInv'
    <3>1. <<m>> \in Seq(Msgs) /\ <<m>> # <<>> /\ DOMAIN <<m>> = {1} /\ Len(<<m>>) = 1 /\ <<m>>[1] = m
      OBVIOUS
    <3>2. QED
      BY <1>1, <1>2, <2>3, <3>1, TermPushes
  <2>4. ASSUME Type(m) = "term", CloseAll(i) = <<c, g>> PROVE TermInv'
    <3>1. <<c, g>> \o <<m>> = <<c, g, m>>
      BY <1>3, JoinThree
    <3>2. Start(n, m, Push(n, <<c, g, m>>), "ok")
      BY <2>2, <2>4, <3>1
    <3>3. /\ <<c, g, m>> \in Seq(Msgs) /\ <<c, g, m>> # <<>> /\ Len(<<c, g, m>>) = 3
          /\ \A k \in DOMAIN <<c, g, m>> : Type(<<c, g, m>>[k]) = "term" <=> k = 3
      BY <1>3, <2>4
    <3>4. QED
      BY <1>1, <1>2, <2>4, <3>2, <3>3, TermPushes
  <2>5. <<>> \o <<m>> = <<m>>
    OBVIOUS
  <2>6. QED
    BY <1>4, <2>2, <2>3, <2>4, <2>5
<1>6. CASE InputGet(i)
  <2> DEFINE d == Data(i, made[i] + 1)
  <2>1. Type(NoMsg) # "term"
    BY MsgFacts
  <2>2. ASSUME NEW ms \in Seq(Msgs), \A k \in DOMAIN ms : Type(ms[k]) # "term", NEW code,
               Start(n, NoMsg, Push(n, ms), code)
        PROVE  TermInv'
    BY <1>1, <1>2, <2>1, <2>2, TermPushes
  <2>3. \/ made[i] < MaxData /\ Start(n, NoMsg, Push(n, <<d>>), "ok")
        \/ Start(n, NoMsg, Push(n, CloseAll(i)), "ok")
        \/ \E code \in Codes(n) : Start(n, NoMsg, <<>>, code)
    BY <1>6 DEF InputGet
  <2>4. CASE made[i] < MaxData /\ Start(n, NoMsg, Push(n, <<d>>), "ok")
    <3>1. d \in Msgs /\ Type(d) = "ipfix"
      <4>1. made[i] \in 0 .. MaxData /\ MaxData \in Nat
        BY SizesAssumption DEF IInv, NumbersInv
      <4>2. made[i] + 1 \in 1 .. MaxData
        BY <2>4, <4>1
      <4>3. Type(d) = "ipfix"
        BY DEF Data, Type
      <4>4. QED
        BY <4>2, <4>3, MsgFacts
    <3> HIDE DEF d
    <3>2. <<d>> \in Seq(Msgs) /\ \A k \in DOMAIN <<d>> : Type(<<d>>[k]) # "term"
      BY <3>1
    <3>3. QED
      BY <2>2, <2>4, <3>2
  <2>5. <<>> \in Seq(Msgs) /\ DOMAIN <<>> = {}
    OBVIOUS
  <2>6. CASE Start(n, NoMsg, Push(n, CloseAll(i)), "ok")
    <3>1. <<c, g>> \in Seq(Msgs) /\ \A k \in DOMAIN <<c, g>> : Type(<<c, g>>[k]) # "term"
      BY <1>3
    <3>2. QED
      BY <1>4, <2>2, <2>5, <2>6, <3>1
  <2>7. CASE \E code \in Codes(n) : Start(n, NoMsg, <<>>, code)
    <3>1. Push(n, <<>>) = <<>>
      BY <1>1, <2>5, PushFacts
    <3>2. QED
      BY <2>2, <2>5, <2>7, <3>1
  <2>8. QED
    BY <2>3, <2>4, <2>6, <2>7
<1>7. QED
  BY <1>5, <1>6

\* A step of one thread that neither takes a message nor gives one.
LEMMA TermLocal ==
    ASSUME IInv, TermInv, NEW n \in Nodes, pc[n] \notin {"push", "exit"}, UNCHANGED <<ring, out, termCnt>>,
           \A k \in Nodes \ {n} : pc'[k] = pc[k] /\ cur'[k] = cur[k],
           pc'[n] \in {"loop", "destroy"} \/ n \in OutNodes, Finished(n)' <=> Finished(n)
    PROVE  TermInv'
<1>1. out[n] = <<>> /\ out' = out
  BY DEF IInv, CustodyInv, ThreadInv
<1>2. ASSUME NEW k \in Readers, NEW w \in Preds(k) PROVE Ended(w, k)' = Ended(w, k)
  <2>1. w \in Nodes /\ w \notin OutNodes
    BY PredFacts, NodeFacts DEF Readers, Movers
  <2>2. CASE w = n
    <3>1. pc'[n] # "push" /\ pc'[n] # "exit"
      BY <2>1, <2>2
    <3>2. ~Terminating(n) /\ ~Terminating(n)'
      BY <3>1 DEF Terminating
    <3>3. QED
      BY <2>2, <3>2 DEF Ended
  <2>3. CASE w # n
    BY <1>1, <2>1, <2>3 DEF Ended, Terminating
  <2>4. QED
    BY <2>2, <2>3
<1>3. ASSUME NEW k \in Readers PROVE Finished(k)' = Finished(k)
  <2>1. k \in Nodes
    BY DEF Nodes
  <2>2. CASE k = n
    BY <2>2 DEF Finished
  <2>3. CASE k # n
    BY <2>1, <2>3 DEF Finished
  <2>4. QED
    BY <2>2, <2>3
<1>4. ASSUME NEW w \in Nodes \ {Mgr} PROVE Tagged(cur'[w], out'[w])
  <2>1. CASE w = n
    <3>1. DOMAIN out'[w] = {}
      BY <1>1, <2>1
    <3>2. QED
      BY <3>1 DEF Tagged
  <2>2. CASE w # n
    BY <1>1, <2>2 DEF TermInv
  <2>3. QED
    BY <2>1, <2>2
<1>5. QED
  BY <1>2, <1>3, <1>4, TermKept

\* Steps of the configurator.
LEMMA TermStill ==
    ASSUME TermInv, UNCHANGED <<ring, pc, cur, out, termCnt>>
    PROVE  TermInv'
<1>1. \A n \in Readers : Finished(n)' = Finished(n) /\ \A w \in Preds(n) : Ended(w, n)' = Ended(w, n)
  BY DEF Finished, Ended, Terminating
<1>2. \A w \in Nodes \ {Mgr} : Tagged(cur'[w], out'[w])
  BY DEF TermInv
<1>3. QED
  BY <1>1, <1>2, TermKept

LEMMA TermOfMoverPop ==
    ASSUME IInv, TermInv, NEW n \in Movers, MoverPop(n)
    PROVE  TermInv'
<1>1. PICK m \in Msgs : m = Head(ring[n])
  BY TailFacts DEF MoverPop, IInv, CustodyInv, PipesInv, Readers
<1>2. /\ pc[n] = "loop" /\ ring[n] # <<>> /\ ring' = [ring EXCEPT ![n] = Tail(@)] /\ out' = out
      /\ termCnt' = IF IsEarlyTerm(n, m) THEN termCnt - 1 ELSE termCnt
      /\ IF IsEarlyTerm(n, m) \/ IsOldPeriodic(n, m) \/ (~processing[n] /\ IsData(m))
         THEN UNCHANGED <<pc, cur>>
         ELSE pc' = [pc EXCEPT ![n] = "decide"] /\ cur' = [cur EXCEPT ![n] = m]
  BY <1>1 DEF MoverPop
<1>3. n \in Readers /\ n \in Nodes /\ Type(NoMsg) # "term"
  BY MsgFacts DEF Readers, Nodes
<1>4. CASE IsEarlyTerm(n, m) \/ IsOldPeriodic(n, m) \/ (~processing[n] /\ IsData(m))
  <2>1. cur[n] = NoMsg /\ cur \in [Nodes -> Msgs \cup {NoMsg}] /\ pc \in [Nodes -> InputStates \cup MoverStates \cup OutStates]
    BY <1>2, <1>3 DEF IInv, CustodyInv, ThreadInv
  <2>2. pc' = [pc EXCEPT ![n] = "loop"] /\ cur' = [cur EXCEPT ![n] = NoMsg]
    BY <1>2, <1>3, <1>4, <2>1
  <2>3. Type(m) = "term" => IsEarlyTerm(n, m)
    BY <1>4 DEF IsOldPeriodic, IsPeriodic, IsData
  <2>4. QED
    BY <1>1, <1>2, <1>3, <2>2, <2>3, TermPop
<1>5. CASE ~(IsEarlyTerm(n, m) \/ IsOldPeriodic(n, m) \/ (~processing[n] /\ IsData(m)))
  <2>1. pc' = [pc EXCEPT ![n] = "decide"] /\ cur' = [cur EXCEPT ![n] = m]
    BY <1>2, <1>5
  <2>2. QED
    BY <1>1, <1>2, <1>3, <1>5, <2>1, TermPop
<1>6. QED
  BY <1>4, <1>5

LEMMA TermOfOutput ==
    ASSUME IInv, TermInv, NEW n \in OutNodes, OutThread(n)
    PROVE  TermInv'
<1>1. n \in Readers /\ n \in Nodes /\ Type(NoMsg) # "term"
  BY MsgFacts DEF Readers, Nodes
<1>2. pc \in [Nodes -> InputStates \cup MoverStates \cup OutStates] /\ cur \in [Nodes -> Msgs \cup {NoMsg}]
  BY DEF IInv, CustodyInv, ThreadInv
<1>3. CASE OutPop(n)
  <2>1. PICK m \in Msgs : m = Head(ring[n])
    BY <1>1, <1>3, TailFacts DEF OutPop, IInv, CustodyInv, PipesInv
  <2>2. /\ pc[n] = "loop" /\ ring[n] # <<>> /\ ring' = [ring EXCEPT ![n] = Tail(@)] /\ out' = out
        /\ pc' = [pc EXCEPT ![n] = "release"] /\ cur' = [cur EXCEPT ![n] = m] /\ termCnt' = termCnt
    BY <1>3, <2>1 DEF OutPop
  <2>3. ~IsEarlyTerm(n, m)
    <3>1. n # Inter(1)
      BY SuccFacts, NodeFacts
    <3>2. QED
      BY <3>1 DEF IsEarlyTerm
  <2>4. QED
    BY <1>1, <2>1, <2>2, <2>3, TermPop
<1>4. CASE OutRelease(n)
  <2>1. /\ pc[n] = "release" /\ pc' = [pc EXCEPT ![n] = IF Type(cur[n]) = "term" THEN "destroy" ELSE "loop"]
        /\ cur' = [cur EXCEPT ![n] = NoMsg] /\ UNCHANGED <<ring, out, termCnt>>
    BY <1>4 DEF OutRelease
  <2>2. Finished(n)' <=> Finished(n)
    BY <1>1, <1>2, <2>1 DEF Finished
  <2>3. \A k \in Nodes \ {n} : pc'[k] = pc[k] /\ cur'[k] = cur[k]
    BY <1>2, <2>1
  <2>4. QED
    BY <1>1, <2>1, <2>2, <2>3, TermLocal
<1>5. CASE OutDestroy(n)
  <2>1. pc[n] = "destroy" /\ pc' = [pc EXCEPT ![n] = "exit"] /\ UNCHANGED <<ring, cur, out, termCnt>>
    BY <1>5 DEF OutDestroy
  <2>2. Finished(n)' <=> Finished(n)
    BY <1>1, <1>2, <2>1 DEF Finished
  <2>3. \A k \in Nodes \ {n} : pc'[k] = pc[k] /\ cur'[k] = cur[k]
    BY <1>2, <2>1
  <2>4. QED
    BY <1>1, <2>1, <2>2, <2>3, TermLocal
<1>6. QED
  BY <1>3, <1>4, <1>5 DEF OutThread

\* A thread goes back to the head of its loop.
LEMMA TermOfLoop ==
    ASSUME IInv, TermInv, NEW n \in Nodes, pc[n] \in {"get", "handle"}, pc' = [pc EXCEPT ![n] = "loop"],
           UNCHANGED <<ring, cur, out, termCnt>>
    PROVE  TermInv'
<1>1. pc \in [Nodes -> InputStates \cup MoverStates \cup OutStates]
  BY DEF IInv, CustodyInv, ThreadInv
<1>2. pc'[n] = "loop" /\ (Finished(n)' <=> Finished(n)) /\ \A k \in Nodes \ {n} : pc'[k] = pc[k] /\ cur'[k] = cur[k]
  BY <1>1 DEF Finished
<1>3. QED
  BY <1>2, TermLocal

LEMMA NextTerm == IInv /\ TermInv /\ [Next]_vars => TermInv'
<1>1. SUFFICES ASSUME IInv, TermInv, [Next]_vars PROVE TermInv'
  OBVIOUS
<1>2. ASSUME NEW n \in Nodes, HandleCode(n) PROVE TermInv'
  BY <1>1, <1>2, TermOfLoop DEF HandleCode
<1>3. ASSUME NEW i \in Inputs, InputThread(i) PROVE TermInv'
  <2>1. In(i) \in InNodes \cup Movers /\ In(i) \in Nodes
    BY NodeFacts DEF Nodes
  <2>2. CASE InputPipe(i) \/ InputGet(i)
    BY <1>1, <2>2, TermOfInput
  <2>3. CASE InputSkip(i)
    BY <1>1, <2>1, <2>3, TermOfLoop DEF InputSkip
  <2>4. CASE PushOne(In(i))
    BY <1>1, <2>1, <2>4, TermPush
  <2>5. QED
    BY <1>2, <1>3, <2>1, <2>2, <2>3, <2>4 DEF InputThread
<1>4. ASSUME NEW n \in Movers, MoverThread(n) PROVE TermInv'
  <2>1. n \in InNodes \cup Movers /\ n \in Nodes
    BY DEF Nodes, Readers
  <2>2. CASE MoverPop(n)
    BY <1>1, <2>2, TermOfMoverPop
  <2>3. CASE PushOne(n)
    BY <1>1, <2>1, <2>3, TermPush
  <2>4. CASE ManagerProcess
    BY <1>1, <2>4, TermOfManager
  <2>5. CASE MoverPass(n) \/ MoverTerm(n) \/ (n \in Parsers /\ ParserProcess(n[2])) \/ InterProcess(n)
    BY <1>1, <2>5, TermOfMover
  <2>6. QED
    BY <1>2, <1>4, <2>1, <2>2, <2>3, <2>4, <2>5 DEF MoverThread
<1>5. ASSUME NEW n \in OutNodes, OutThread(n) PROVE TermInv'
  BY <1>1, <1>5, TermOfOutput
<1>6. ASSUME Configurator \/ Signal \/ Idle \/ UNCHANGED vars PROVE TermInv'
  <2>1. UNCHANGED <<ring, pc, cur, out, termCnt>>
    <3>1. CASE Configurator
      BY <3>1 DEF Configurator, Receive, StopNext, Cleanup, threads
    <3>2. CASE Signal
      BY <3>2 DEF Signal, threads
    <3>3. CASE Idle \/ UNCHANGED vars
      BY <3>3 DEF Idle, vars, threads
    <3>4. QED
      BY <1>6, <3>1, <3>2, <3>3
  <2>2. QED
    BY <1>1, <2>1, TermStill
<1>7. QED
  BY <1>1, <1>3, <1>4, <1>5, <1>6 DEF Next

LEMMA InitTerm == Init => TermInv /\ EndInv
<1>1. SUFFICES ASSUME Init PROVE TermInv /\ EndInv
  OBVIOUS
<1>2. /\ ring = [n \in Readers |-> <<>>] /\ pc = [n \in Nodes |-> "loop"] /\ cur = [n \in Nodes |-> NoMsg]
      /\ out = [n \in Nodes |-> <<>>] /\ termCnt = NIn /\ cpc = "run"
  BY <1>1 DEF Init
<1>3. DOMAIN <<>> = {} /\ Type(NoMsg) # "term" /\ \A n \in Readers : n \in Nodes
  BY MsgFacts DEF Nodes
<1>4. \A w \in Nodes : \A k : ~Ended(w, k)
  BY <1>2 DEF Ended, Terminating
<1>5. \A n \in Nodes : ~Finished(n)
  BY <1>2, <1>3 DEF Finished
<1>6. \A n \in Readers : \A w \in Preds(n) : w \in Nodes
  BY PredFacts
<1>7. \A n \in Readers : \A w : Final(ring[n], n, w) /\ ~Closed(ring[n], n, w)
  BY <1>2, <1>3 DEF Final, Closed
<1>8. \A w \in Nodes : Tagged(cur[w], out[w])
  BY <1>2, <1>3 DEF Tagged
<1>9. Unfinished = Inputs
  <2>1. \A i \in Inputs : Parser(i) \in Nodes
    BY NodeFacts DEF Nodes, Readers, Movers
  <2>2. QED
    BY <1>4, <2>1 DEF Unfinished
<1>10. Cardinality(Inputs) = NIn
  <2>1. 1 \in Int /\ NIn \in Int /\ ~(1 > NIn) /\ NIn - 1 + 1 = NIn
    BY SizesAssumption
  <2>2. Cardinality(1 .. NIn) = IF 1 > NIn THEN 0 ELSE NIn - 1 + 1
    BY <2>1, FS_Interval
  <2>3. QED
    BY <2>1, <2>2 DEF Inputs
<1>11. TermInv
  BY <1>2, <1>3, <1>4, <1>5, <1>6, <1>7, <1>8, <1>9, <1>10, SizesAssumption DEF TermInv
<1>12. QED
  BY <1>2, <1>11 DEF EndInv

-----------------------------------------------------------------------------
(* Nothing is left at the end.                                               *)

LEMMA NothingLeft ==
    ASSUME IInv, \A n \in Nodes : pc[n] = "exit", \A n \in Readers : ring[n] = <<>>, \A i \in Inputs : fpipe[i] = <<>>
    PROVE  live = {}
<1>1. ToSet(<<>>) = {} /\ DOMAIN <<>> = {} /\ Mgr \in Nodes
  BY EmptyFacts, SuccFacts DEF Nodes, Readers, Movers
<1>2. \A n \in Nodes : out[n] = <<>>
  BY DEF IInv, CustodyInv, ThreadInv
<1>3. Pushed(<<>>) = {} /\ \A n : Toward(n, <<>>) = {}
  BY <1>1 DEF Pushed, Toward
<1>4. ASSUME NEW p \in Places PROVE At(p) = {}
  <2>1. p[2] \in Nodes /\ (p[2] \in InNodes => p[2][2] \in Inputs)
    BY PlaceFacts, NodeFacts
  <2>2. Holding(p[2]) = {}
    BY <2>1 DEF Holding
  <2>3. InRing(p[2]) = {}
    BY <1>1 DEF InRing
  <2>4. ToPush(p[2]) = {}
    BY <1>1, <1>2, <1>3, <2>1 DEF ToPush
  <2>5. p[2] \in InNodes => ToSet(fpipe[p[2][2]]) = {}
    BY <1>1, <2>1
  <2>6. QED
    BY <2>2, <2>3, <2>4, <2>5 DEF At
<1>5. QED
  BY <1>4 DEF IInv, CustodyInv, LiveInv

LEMMA ReceiveGoesOn == Receive => cpc = "run" /\ cpc' # "done"
<1>1. SUFFICES ASSUME Receive PROVE cpc' # "done"
  BY DEF Receive
<1>2. \A pipes : TerminationSend(pipes) => cpc' = cpc \/ cpc' = "abort"
  BY DEF TerminationSend
<1>3. PeriodicSend => cpc' = cpc \/ cpc' = "abort"
  BY <1>2 DEF PeriodicSend
<1>4. HandleDone => cpc' \in {"run", "abort", "join"}
  BY DEF HandleDone
<1>5. \A type, n : HandleRequest(type, n) => cpc' = cpc \/ cpc' = "abort"
  BY <1>2 DEF HandleRequest
<1>6. cpc = "run" /\ (PeriodicSend \/ cpc' = cpc \/ HandleDone \/ \E type, n : HandleRequest(type, n))
  BY <1>1 DEF Receive
<1>7. QED
  BY <1>3, <1>4, <1>5, <1>6

LEMMA NextEnd == IInv /\ IInv' /\ TermInv /\ EndInv /\ [Next]_vars => EndInv'
<1>1. SUFFICES ASSUME IInv, IInv', TermInv, EndInv, [Next]_vars, cpc' = "done"
               PROVE  live' = {} /\ \A n \in Nodes : pc'[n] = "exit"
  BY DEF EndInv
<1>2. CASE Cleanup
  <2>1. /\ \A n \in Nodes : pc[n] = "exit"
        /\ fpipe' = [i \in Inputs |-> <<>>] /\ UNCHANGED <<ring, pc>>
    BY <1>2 DEF Cleanup, threads
  <2>2. \A n \in Readers : n \in Nodes /\ ring[n] = <<>>
    BY <1>1, <2>1 DEF TermInv, Finished, Nodes
  <2>3. /\ \A n \in Nodes : pc'[n] = "exit"
        /\ \A n \in Readers : ring'[n] = <<>>
        /\ \A i \in Inputs : fpipe'[i] = <<>>
    BY <2>1, <2>2
  <2>4. (IInv /\ (\A n \in Nodes : pc[n] = "exit") /\ (\A n \in Readers : ring[n] = <<>>)
           /\ (\A i \in Inputs : fpipe[i] = <<>>) => live = {})'
    BY NothingLeft, PTL
  <2>5. QED
    BY <1>1, <2>3, <2>4
<1>3. CASE UNCHANGED <<cpc, live, pc>>
  BY <1>1, <1>3 DEF EndInv
<1>4. ASSUME cpc' = cpc, NEW n \in Nodes, pc[n] # "exit" PROVE FALSE
  BY <1>1, <1>4 DEF EndInv
<1>5. ASSUME NEW n \in Nodes, PushOne(n) \/ HandleCode(n) PROVE FALSE
  <2>1. cpc' = cpc /\ pc[n] # "exit"
    BY <1>5 DEF PushOne, HandleCode, config
  <2>2. QED
    BY <1>4, <2>1
<1>6. ASSUME NEW i \in Inputs, InputThread(i) PROVE FALSE
  <2>1. In(i) \in Nodes
    BY NodeFacts DEF Nodes
  <2>2. CASE InputPipe(i) \/ InputGet(i) \/ InputSkip(i)
    <3>1. cpc' = cpc /\ pc[In(i)] # "exit"
      BY <2>2 DEF InputPipe, InputGet, InputSkip, config
    <3>2. QED
      BY <1>4, <2>1, <3>1
  <2>3. QED
    BY <1>5, <1>6, <2>1, <2>2 DEF InputThread
<1>7. ASSUME NEW n \in Movers, MoverThread(n) PROVE FALSE
  <2>1. n \in Nodes /\ Mgr \in Nodes
    BY SuccFacts DEF Nodes, Readers, Movers
  <2>2. CASE MoverPop(n) \/ MoverPass(n) \/ MoverTerm(n) \/ InterProcess(n)
    <3>1. cpc' = cpc /\ pc[n] # "exit"
      BY <2>2 DEF MoverPop, MoverPass, MoverTerm, InterProcess, config
    <3>2. QED
      BY <1>4, <2>1, <3>1
  <2>3. CASE n \in Parsers /\ ParserProcess(n[2])
    <3>1. n = Parser(n[2])
      BY <2>3, NodeFacts
    <3>2. cpc' = cpc /\ pc[n] # "exit"
      BY <2>3, <3>1 DEF ParserProcess, config
    <3>3. QED
      BY <1>4, <2>1, <3>2
  <2>4. CASE ManagerProcess
    <3>1. cpc' = cpc /\ pc[Mgr] # "exit"
      BY <2>4 DEF ManagerProcess, config
    <3>2. QED
      BY <1>4, <2>1, <3>1
  <2>5. QED
    BY <1>5, <1>7, <2>1, <2>2, <2>3, <2>4 DEF MoverThread
<1>8. ASSUME NEW n \in OutNodes, OutThread(n) PROVE FALSE
  <2>1. n \in Nodes
    BY DEF Nodes, Readers
  <2>2. cpc' = cpc /\ pc[n] # "exit"
    BY <1>8 DEF OutThread, OutPop, OutRelease, OutDestroy, config
  <2>3. QED
    BY <1>4, <2>1, <2>2
<1>9. ~Receive
  BY <1>1, ReceiveGoesOn
<1>10. StopNext => UNCHANGED <<cpc, live, pc>>
  BY DEF StopNext, threads
<1>11. Signal => UNCHANGED <<cpc, live, pc>>
  BY DEF Signal, threads, config
<1>12. Idle \/ UNCHANGED vars => UNCHANGED <<cpc, live, pc>>
  BY DEF Idle, vars, threads, config
<1>13. QED
  BY <1>1, <1>2, <1>3, <1>6, <1>7, <1>8, <1>9, <1>10, <1>11, <1>12 DEF Next, Configurator

\* The inductive invariant of the termination.
THEOREM Termination == Spec => [](IInv /\ TermInv /\ EndInv)
<1>1. Init => IInv /\ TermInv /\ EndInv
  BY InitInv, InitTerm
<1>2. (IInv /\ TermInv /\ EndInv) /\ [Next]_vars => (IInv /\ TermInv /\ EndInv)'
  BY NextInv, NextTerm, NextEnd
<1>3. QED
  BY <1>1, <1>2, PTL DEF Spec

LEMMA NothingFollows == IInv /\ TermInv => NothingAfterTerm
<1>1. SUFFICES ASSUME IInv, TermInv, NEW n \in Readers, Finished(n)
               PROVE  ring[n] = <<>> /\ \A w \in Nodes : \A k \in DOMAIN out[w] : out[w][k][1] # n
  BY DEF NothingAfterTerm, Finished
<1>2. ring[n] = <<>> /\ \A w \in Preds(n) : \A k \in DOMAIN out[w] : out[w][k][1] # n
  BY <1>1 DEF TermInv, Ended
<1>3. ASSUME NEW w \in Nodes, w \notin Preds(n), NEW k \in DOMAIN out[w] PROVE out[w][k][1] # n
  <2>1. Targets(w, cur[w], out[w]) /\ pc[w] \in States(w) /\ (out[w] # <<>> <=> pc[w] = "push") /\ out[w] # <<>>
    BY <1>1, <1>3 DEF IInv, CustodyInv, ThreadInv
  <2>2. w \notin OutNodes
    <3>1. SUFFICES ASSUME w \in OutNodes PROVE FALSE
      OBVIOUS
    <3>2. w \notin InNodes /\ w \notin Movers
      BY <3>1, NodeFacts DEF Readers, Movers
    <3>3. QED
      BY <2>1, <3>2 DEF States, OutStates
  <2>3. CASE w = Mgr
    <3>1. n \notin OutNodes
      BY <1>3, <2>3 DEF Preds
    <3>2. QED
      BY <1>3, <2>1, <2>3, <3>1 DEF Targets
  <2>4. CASE w # Mgr
    <3>1. Succ(w) # n
      BY <1>3, <2>2, <2>4 DEF Preds
    <3>2. QED
      BY <1>3, <2>1, <2>4, <3>1 DEF Targets
  <2>5. QED
    BY <2>3, <2>4
<1>4. QED
  BY <1>2, <1>3

(* A terminate message is the last one of an instance: however the messages  *)
(* of the inputs are merged, the first intermediate counts them so that it   *)
(* passes on the last one only, and behind it nothing is in a ring or will   *)
(* come there (thread_intermediate of context.c).                            *)
THEOREM TerminateIsLast == Spec => []NothingAfterTerm
BY Termination, NothingFollows, PTL

LEMMA CountHolds == IInv /\ EndInv => CountIsUsers
<1>1. SUFFICES ASSUME IInv, EndInv PROVE CountIsUsers
  OBVIOUS
<1>2. ASSUME NEW m \in live
      PROVE  refs[m] = Cardinality({o \in Outputs :
                        \/ m \in InRing(Out(o)) \cup Holding(Out(o))
                        \/ \E k \in DOMAIN out[Mgr] : out[Mgr][k] = <<Out(o), m>>})
  <2>1. m \in Msgs /\ refs[m] = Cardinality(Users(m))
    BY <1>1, <1>2 DEF IInv, CustodyInv, LiveInv, RefsInv
  <2>2. ASSUME NEW o \in Outputs
        PROVE  o \in Users(m) <=> \/ m \in InRing(Out(o)) \cup Holding(Out(o))
                                  \/ \E k \in DOMAIN out[Mgr] : out[Mgr][k] = <<Out(o), m>>
    <3>1. Out(o) \in OutNodes /\ Out(o) \in Nodes /\ Out(o) \notin InNodes
      BY NodeFacts DEF Nodes, Readers
    <3>2. /\ At(<<"pipe", Out(o)>>) = {} /\ At(<<"ring", Out(o)>>) = InRing(Out(o))
          /\ At(<<"hand", Out(o)>>) = Holding(Out(o)) /\ At(<<"out", Out(o)>>) = Toward(Out(o), out[Mgr])
      BY <3>1 DEF At, ToPush
    <3>3. m \in Toward(Out(o), out[Mgr]) <=> \E k \in DOMAIN out[Mgr] : out[Mgr][k] = <<Out(o), m>>
      BY <2>1 DEF Toward
    <3>4. o \in Users(m) <=> \E x \in {"pipe", "ring", "hand", "out"} : m \in At(<<x, Out(o)>>)
      <4>1. \A x \in {"pipe", "ring", "hand", "out"} : <<x, Out(o)>> \in Places /\ <<x, Out(o)>>[2] = Out(o)
        BY <3>1 DEF Places
      <4>2. \A p \in Places : p[1] \in {"pipe", "ring", "hand", "out"} /\ p = <<p[1], p[2]>>
        BY DEF Places
      <4>3. QED
        BY <4>1, <4>2 DEF Users
    <3>5. QED
      BY <3>2, <3>3, <3>4
  <2>3. Users(m) = {o \in Outputs : \/ m \in InRing(Out(o)) \cup Holding(Out(o))
                                    \/ \E k \in DOMAIN out[Mgr] : out[Mgr][k] = <<Out(o), m>>}
    <3>1. Users(m) \subseteq Outputs
      BY DEF Users
    <3>2. QED
      BY <2>2, <3>1
  <2>4. QED
    BY <2>1, <2>3
<1>3. QED
  BY <1>1, <1>2 DEF CountIsUsers, EndInv

(* The reference counter is the number of outputs that have still to release *)
(* the message (ipx_msg_header_cnt_set and _dec), and when the threads have  *)
(* been joined and the pipes cleaned no message is left: nothing leaks.      *)
THEOREM NothingLeaks == Spec => []CountIsUsers
BY Termination, CountHolds, PTL

-----------------------------------------------------------------------------
(* The end of the termination.                                               *)

\* Terminate messages that exist, and notifications of those that did.
Terms == {m \in live : Type(m) = "term"}
Dones(s) == {k \in DOMAIN s : s[k][1] = "done"}
Owed == Cardinality(Terms) + Cardinality(Dones(cpipe))

\* The configurator waits for as many notifications as it will get, and every
\* input has got, or is going to get, its terminate message.
TellInv ==
    /\ termSent = Owed
    /\ cpc \in {"join", "done"} <=> state # "running" /\ termSent = 0
    /\ cpc # "abort"
    /\ state = "running" => termSent = 0
    /\ state # "running" => \A i \in Inputs : Terminating(In(i)) \/ Term(i, 1) \in ToSet(fpipe[i])

LEMMA InputsCount == IsFiniteSet(Inputs) /\ Cardinality(Inputs) = NIn
<1>1. 1 \in Int /\ NIn \in Int /\ ~(1 > NIn) /\ NIn - 1 + 1 = NIn
  BY SizesAssumption
<1>2. IsFiniteSet(1 .. NIn) /\ Cardinality(1 .. NIn) = IF 1 > NIn THEN 0 ELSE NIn - 1 + 1
  BY <1>1, FS_Interval
<1>3. QED
  BY <1>1, <1>2 DEF Inputs

LEMMA TermsCount ==
    ASSUME NEW k \in 1 .. 2
    PROVE  IsFiniteSet({Term(i, k) : i \in Inputs}) /\ Cardinality({Term(i, k) : i \in Inputs}) = NIn
<1> DEFINE T == {Term(i, k) : i \in Inputs}
           f == [i \in Inputs |-> Term(i, k)]
<1>1. f \in Bijection(Inputs, T)
  <2>1. f \in [Inputs -> T]
    OBVIOUS
  <2>2. \A a, b \in Inputs : f[a] = f[b] => a = b
    BY DEF Term
  <2>3. \A t \in T : \E i \in Inputs : f[i] = t
    OBVIOUS
  <2> HIDE DEF f, T
  <2>4. QED
    BY <2>1, <2>2, <2>3, Fun_IsBij
<1>2. ExistsBijection(Inputs, T)
  BY <1>1 DEF ExistsBijection
<1> HIDE DEF T
<1>3. IsFiniteSet(T) /\ Cardinality(T) = Cardinality(Inputs)
  BY <1>2, InputsCount, FS_Bijection
<1>4. QED
  BY <1>3, InputsCount DEF T

LEMMA OwedFacts ==
    ASSUME IInv
    PROVE  IsFiniteSet(Terms) /\ Cardinality(Terms) \in Nat /\ (Cardinality(Terms) = 0 <=> Terms = {})
<1> DEFINE T(k) == {Term(i, k) : i \in Inputs}
<1>1. Terms \subseteq T(1) \cup T(2)
  <2>1. SUFFICES ASSUME NEW m \in Msgs, Type(m) = "term" PROVE m \in T(1) \cup T(2)
    BY DEF Terms, IInv, CustodyInv, LiveInv
  <2>2. \E i \in Inputs, k \in 1 .. 2 : m = Term(i, k)
    BY <2>1 DEF Msgs, Type, Data, Close, SessionGarbage, TemplateGarbage, ParserGarbage, Periodic, Stray
  <2>3. \A k \in 1 .. 2 : k = 1 \/ k = 2
    OBVIOUS
  <2>4. QED
    BY <2>2, <2>3
<1>2. IsFiniteSet(T(1)) /\ IsFiniteSet(T(2))
  BY TermsCount
<1> HIDE DEF T
<1>3. IsFiniteSet(Terms)
  <2>1. IsFiniteSet(T(1) \cup T(2))
    BY <1>2, FS_Union
  <2>2. QED
    BY <1>1, <2>1, FS_Subset
<1>4. QED
  BY <1>3, FS_CardinalityType, FS_EmptySet

\* Notifications in a pipe that is read and written.
LEMMA DonesFacts ==
    ASSUME NEW s \in Seq(Requests)
    PROVE  /\ IsFiniteSet(Dones(s)) /\ Cardinality(Dones(s)) \in Nat
           /\ \A x \in Requests : Cardinality(Dones(Append(s, x))) = Cardinality(Dones(s)) + IF x[1] = "done" THEN 1 ELSE 0
           /\ s # <<>> => Cardinality(Dones(s)) = Cardinality(Dones(Tail(s))) + IF Head(s)[1] = "done" THEN 1 ELSE 0
<1>0. \A t \in Seq(Requests) : IsFiniteSet(Dones(t)) /\ Cardinality(Dones(t)) \in Nat
  <2>1. SUFFICES ASSUME NEW t \in Seq(Requests) PROVE IsFiniteSet(Dones(t))
    BY FS_CardinalityType
  <2>2. 1 \in Int /\ Len(t) \in Int /\ Dones(t) \subseteq 1 .. Len(t)
    BY DEF Dones
  <2>3. IsFiniteSet(1 .. Len(t))
    BY <2>2, FS_Interval
  <2>4. QED
    BY <2>2, <2>3, FS_Subset
<1>1. IsFiniteSet(Dones(s)) /\ Cardinality(Dones(s)) \in Nat
  BY <1>0
<1>2. ASSUME NEW x \in Requests
      PROVE  Cardinality(Dones(Append(s, x))) = Cardinality(Dones(s)) + IF x[1] = "done" THEN 1 ELSE 0
  <2>1. /\ DOMAIN Append(s, x) = DOMAIN s \cup {Len(s) + 1} /\ Len(s) + 1 \notin DOMAIN s
        /\ \A k \in DOMAIN s : Append(s, x)[k] = s[k]
        /\ Append(s, x)[Len(s) + 1] = x
    OBVIOUS
  <2>2. CASE x[1] = "done"
    <3>1. Dones(Append(s, x)) = Dones(s) \cup {Len(s) + 1} /\ Len(s) + 1 \notin Dones(s)
      BY <2>1, <2>2 DEF Dones
    <3>2. Cardinality(Dones(s) \cup {Len(s) + 1}) = Cardinality(Dones(s)) + 1
      BY <1>1, <3>1, FS_AddElement
    <3>3. QED
      BY <2>2, <3>1, <3>2
  <2>3. CASE x[1] # "done"
    <3>1. Dones(Append(s, x)) = Dones(s)
      BY <2>1, <2>3 DEF Dones
    <3>2. QED
      BY <1>1, <2>3, <3>1
  <2>4. QED
    BY <2>2, <2>3
<1>3. ASSUME s # <<>>
      PROVE  Cardinality(Dones(s)) = Cardinality(Dones(Tail(s))) + IF Head(s)[1] = "done" THEN 1 ELSE 0
  <2>1. /\ Head(s) = s[1] /\ 1 \in DOMAIN s /\ DOMAIN s = 1 .. Len(s) /\ Len(s) \in Nat
        /\ DOMAIN Tail(s) = 1 .. Len(s) - 1 /\ Tail(s) \in Seq(Requests)
        /\ \A k \in DOMAIN Tail(s) : k + 1 \in DOMAIN s /\ Tail(s)[k] = s[k + 1]
        /\ \A k \in DOMAIN s : k = 1 \/ (k - 1 \in DOMAIN Tail(s) /\ s[k] = Tail(s)[k - 1])
    BY <1>3
  <2> DEFINE D == Dones(Tail(s))
             f == [k \in D |-> k + 1]
             E == Dones(s) \ {1}
  <2>2. D \subseteq Nat /\ IsFiniteSet(D) /\ Cardinality(D) \in Nat
    <3>1. IsFiniteSet(D) /\ Cardinality(D) \in Nat
      BY <1>0, <2>1
    <3>2. D \subseteq DOMAIN Tail(s) /\ \A k \in 1 .. Len(s) - 1 : k \in Nat
      BY <2>1 DEF Dones
    <3>3. QED
      BY <2>1, <3>1, <3>2
  <2>3. \A k \in D : k + 1 \in E
    BY <2>1 DEF Dones
  <2>4. \A k \in E : k - 1 \in D /\ k \in Nat
    BY <2>1 DEF Dones
  <2>5. IsFiniteSet(E)
    BY <1>1, FS_Subset
  <2> HIDE DEF D, E
  <2>6. f \in Bijection(D, E)
    <3>1. f \in [D -> E]
      BY <2>3
    <3>2. \A a, b \in D : f[a] = f[b] => a = b
      BY <2>2
    <3>3. \A k \in E : \E a \in D : f[a] = k
      BY <2>2, <2>4
    <3>4. QED
      BY <3>1, <3>2, <3>3, Fun_IsBij
  <2>7. Cardinality(E) = Cardinality(D)
    <3>1. ExistsBijection(D, E)
      BY <2>6 DEF ExistsBijection
    <3>2. QED
      BY <2>2, <2>5, <3>1, FS_Bijection
  <2>8. CASE Head(s)[1] = "done"
    <3>1. 1 \in Dones(s)
      BY <2>1, <2>8 DEF Dones
    <3>2. Cardinality(E) = Cardinality(Dones(s)) - 1
      BY <1>1, <3>1, FS_RemoveElement DEF E
    <3>3. QED
      BY <1>1, <2>2, <2>7, <2>8, <3>2 DEF D
  <2>9. CASE Head(s)[1] # "done"
    <3>1. E = Dones(s)
      BY <2>1, <2>9 DEF Dones, E
    <3>2. QED
      BY <2>2, <2>7, <2>9, <3>1 DEF D
  <2>10. QED
    BY <2>8, <2>9
<1>4. QED
  BY <1>1, <1>2, <1>3

\* Steps that leave what is owed as it is.
LEMMA OwedKept ==
    ASSUME IInv
    PROVE  /\ UNCHANGED <<live, cpipe>> => Owed' = Owed
           /\ \A S : live' = live \cup S /\ (\A m \in S : Type(m) # "term") /\ cpipe' = cpipe => Owed' = Owed
           /\ \A x \in Requests : live' = live /\ cpipe' = Append(cpipe, x) /\ x[1] # "done" => Owed' = Owed
           /\ \A m \in live : Destroy(m) => Owed' = Owed
<1>1. cpipe \in Seq(Requests)
  BY DEF IInv, CustodyInv, PipesInv
<1>2. ASSUME NEW S, live' = live \cup S, \A m \in S : Type(m) # "term", cpipe' = cpipe PROVE Owed' = Owed
  <2>1. Terms' = Terms
    BY <1>2 DEF Terms
  <2>2. QED
    BY <1>2, <2>1 DEF Owed, Dones
<1>3. ASSUME NEW x \in Requests, live' = live, cpipe' = Append(cpipe, x), x[1] # "done" PROVE Owed' = Owed
  <2>1. Terms' = Terms
    BY <1>3 DEF Terms
  <2>2. Cardinality(Dones(cpipe')) = Cardinality(Dones(cpipe)) + 0
    BY <1>1, <1>3, DonesFacts
  <2>3. Cardinality(Dones(cpipe)) \in Nat
    BY <1>1, DonesFacts
  <2>4. QED
    BY <2>1, <2>2, <2>3 DEF Owed
<1>4. ASSUME NEW m \in live, Destroy(m) PROVE Owed' = Owed
  <2>1. live' = live \ {m} /\ cpipe' = (IF Type(m) = "term" THEN Append(cpipe, <<"done", NoMsg>>) ELSE cpipe)
    BY <1>4 DEF Destroy
  <2>2. CASE Type(m) # "term"
    <3>1. Terms' = Terms /\ cpipe' = cpipe
      BY <2>1, <2>2 DEF Terms
    <3>2. QED
      BY <3>1 DEF Owed
  <2>3. CASE Type(m) = "term"
    <3>1. Terms' = Terms \ {m} /\ m \in Terms
      BY <2>1, <2>3 DEF Terms
    <3>2. Cardinality(Terms \ {m}) = Cardinality(Terms) - 1
      BY <3>1, OwedFacts, FS_RemoveElement
    <3>3. <<"done", NoMsg>> \in Requests /\ <<"done", NoMsg>>[1] = "done"
      BY DEF Requests
    <3>4. Cardinality(Dones(cpipe')) = Cardinality(Dones(cpipe)) + 1
      BY <1>1, <2>1, <2>3, <3>3, DonesFacts
    <3>5. Cardinality(Dones(cpipe)) \in Nat /\ Cardinality(Terms) \in Nat
      BY <1>1, DonesFacts, OwedFacts
    <3>6. QED
      BY <3>1, <3>2, <3>4, <3>5 DEF Owed
  <2>4. QED
    BY <2>2, <2>3
<1>5. UNCHANGED <<live, cpipe>> => Owed' = Owed
  BY DEF Owed, Terms, Dones
<1>6. QED
  BY <1>2, <1>3, <1>4, <1>5

\* A step of one thread; an input that has its terminate message keeps it.
LEMMA TellThread ==
    ASSUME IInv, TellInv, UNCHANGED <<state, termSent, cpc, fpipe>>, NEW n \in Nodes, Terminating(n) => Terminating(n)',
           \A k \in Nodes \ {n} : pc'[k] = pc[k] /\ cur'[k] = cur[k], Owed' = Owed
    PROVE  TellInv'
<1>1. \A i \in Inputs : In(i) \in Nodes
  BY NodeFacts DEF Nodes
<1>2. \A i \in Inputs : Terminating(In(i)) => Terminating(In(i))'
  <2>1. \A k \in Nodes \ {n} : Terminating(k) => Terminating(k)'
    BY DEF Terminating
  <2>2. QED
    BY <1>1, <2>1
<1>3. QED
  BY <1>2 DEF TellInv

\* Threads start on a message that they have just got.
LEMMA TellStart ==
    ASSUME IInv, TellInv, UNCHANGED <<state, termSent, cpc, fpipe>>, NEW n \in InNodes \cup Movers,
           pc[n] \in {"loop", "get", "decide"}, NEW m, NEW ps, NEW code, Start(n, m, ps, code), Owed' = Owed
    PROVE  TellInv'
<1>1. n \in Nodes /\ ~Terminating(n)
  BY DEF Nodes, Readers, Terminating
<1>2. \A k \in Nodes \ {n} : pc'[k] = pc[k] /\ cur'[k] = cur[k]
  BY DEF Start, IInv, CustodyInv, ThreadInv
<1>3. QED
  BY <1>1, <1>2, TellThread

LEMMA TellOfInput ==
    ASSUME IInv, TellInv, NEW i \in Inputs, InputPipe(i) \/ InputGet(i)
    PROVE  TellInv'
<1> DEFINE n == In(i)
<1>1. n \in InNodes \cup Movers /\ n \in Nodes
  BY NodeFacts DEF Nodes
<1>2. /\ Close(i) \in Msgs /\ SessionGarbage(i) \in Msgs /\ Type(Close(i)) # "term" /\ Type(SessionGarbage(i)) # "term"
      /\ \A k : Type(Data(i, k)) # "term"
  BY MsgFacts DEF Close, SessionGarbage, Data, Type
<1>3. \A m \in ToSet(CloseAll(i)) : Type(m) # "term"
  BY <1>2 DEF CloseAll, ToSet
<1>4. CASE InputPipe(i)
  <2>1. PICK m \in Msgs : m = Head(fpipe[i])
    BY <1>4, TailFacts DEF InputPipe, IInv, CustodyInv, PipesInv
  <2>2. /\ fpipe[i] # <<>> /\ fpipe' = [fpipe EXCEPT ![i] = Tail(@)] /\ UNCHANGED <<state, termSent, cpc, cpipe>>
        /\ \E ps : Start(n, m, ps, "ok")
        /\ live' = live \/ live' = live \cup ToSet(CloseAll(i))
    BY <1>4, <2>1 DEF InputPipe, config
  <2>3. Owed' = Owed
    BY <1>3, <2>2, OwedKept
  <2>4. /\ fpipe \in [Inputs -> Seq(Msgs)]
        /\ ToSet(fpipe[i]) = ToSet(Tail(fpipe[i])) \cup {m}
    BY <2>1, <2>2, TailFacts DEF IInv, CustodyInv, PipesInv
  <2>5. fpipe'[i] = Tail(fpipe[i]) /\ \A k \in Inputs \ {i} : fpipe'[k] = fpipe[k]
    BY <2>2, <2>4
  <2>6. /\ ~Terminating(n)
        /\ \A k \in Nodes \ {n} : pc'[k] = pc[k] /\ cur'[k] = cur[k]
    <3>1. pc[n] = "loop"
      BY <1>4 DEF InputPipe
    <3>2. QED
      BY <2>2, <3>1 DEF Terminating, Start, IInv, CustodyInv, ThreadInv
  <2>7. ASSUME Type(m) = "term" PROVE Terminating(n)'
    <3>1. PICK ps : Start(n, m, ps, "ok")
      BY <2>2, <2>7
    <3>2. CASE ps = <<>>
      <4>1. After(n, m, "ok") = "exit"
        BY <2>7 DEF After, IsPeriodic
      <4>2. QED
        BY <1>1, <3>1, <3>2, <4>1 DEF Start, Terminating, IInv, CustodyInv, ThreadInv
    <3>3. CASE ps # <<>>
      BY <1>1, <2>7, <3>1, <3>3 DEF Start, Terminating, IInv, CustodyInv, ThreadInv
    <3>4. QED
      BY <3>2, <3>3
  <2>8. ASSUME NEW k \in Inputs, Terminating(In(k)) \/ Term(k, 1) \in ToSet(fpipe[k])
        PROVE  Terminating(In(k))' \/ Term(k, 1) \in ToSet(fpipe'[k])
    <3>1. CASE k = i
      <4>1. Term(i, 1) = m => Type(m) = "term"
        BY DEF Term, Type
      <4>2. QED
        BY <2>4, <2>5, <2>6, <2>7, <2>8, <3>1, <4>1
    <3>2. CASE k # i
      <4>1. In(k) \in Nodes /\ In(k) # n
        BY <3>2, NodeFacts DEF Nodes, In
      <4>2. QED
        BY <2>5, <2>6, <2>8, <3>2, <4>1 DEF Terminating
    <3>3. QED
      BY <3>1, <3>2
  <2>9. QED
    BY <2>2, <2>3, <2>8 DEF TellInv
<1>5. CASE InputGet(i)
  <2>1. /\ pc[n] \in {"loop", "get"} /\ UNCHANGED <<state, termSent, cpc, fpipe, cpipe>>
        /\ \E m, ps, code : Start(n, m, ps, code)
    BY <1>5 DEF InputGet, config
  <2>2. live' = live \/ live' = live \cup {Data(i, made[i] + 1)} \/ live' = live \cup ToSet(CloseAll(i))
    BY <1>5 DEF InputGet
  <2>3. \A m \in {Data(i, made[i] + 1)} : Type(m) # "term"
    BY <1>2
  <2>4. Owed' = Owed
    BY <1>3, <2>1, <2>2, <2>3, OwedKept
  <2>5. QED
    BY <1>1, <2>1, <2>4, TellStart
<1>6. QED
  BY <1>4, <1>5

LEMMA TellOfMover ==
    ASSUME IInv, TellInv, NEW n \in Movers,
           MoverPass(n) \/ MoverTerm(n) \/ (n \in Parsers /\ ParserProcess(n[2])) \/ InterProcess(n)
    PROVE  TellInv'
<1>1. n \in InNodes \cup Movers /\ pc[n] = "decide" /\ UNCHANGED <<state, termSent, cpc, fpipe, cpipe>>
      /\ \E m, ps, code : Start(n, m, ps, code)
  <2>1. n \in Parsers => n = Parser(n[2])
    BY NodeFacts
  <2>2. QED
    BY <2>1 DEF MoverPass, MoverTerm, ParserProcess, InterProcess, config
<1>2. \E S \in {{}, {TemplateGarbage(n[2])}, {ParserGarbage(n[2])}} : live' = live \cup S
  <2>1. ToSet(<<>>) = {} /\ \A x : ToSet(<<x>>) = {x}
    BY DEF ToSet
  <2>2. CASE MoverPass(n) \/ InterProcess(n)
    BY <2>2 DEF MoverPass, InterProcess
  <2>3. CASE MoverTerm(n)
    BY <2>1, <2>3 DEF MoverTerm
  <2>4. CASE n \in Parsers /\ ParserProcess(n[2])
    BY <2>1, <2>4 DEF ParserProcess
  <2>5. QED
    BY <2>2, <2>3, <2>4
<1>3. \A S \in {{}, {TemplateGarbage(n[2])}, {ParserGarbage(n[2])}} : \A m \in S : Type(m) # "term"
  BY DEF TemplateGarbage, ParserGarbage, Type
<1>4. Owed' = Owed
  BY <1>1, <1>2, <1>3, OwedKept
<1>5. QED
  BY <1>1, <1>4, TellStart

\* A thread that stops neither for good nor for its last message.
LEMMA TellLocal ==
    ASSUME IInv, TellInv, UNCHANGED <<state, termSent, cpc, fpipe>>, NEW n \in Nodes, pc[n] \notin {"push", "exit"},
           \A k \in Nodes \ {n} : pc'[k] = pc[k] /\ cur'[k] = cur[k], Owed' = Owed
    PROVE  TellInv'
<1>1. ~Terminating(n)
  BY DEF Terminating
<1>2. QED
  BY <1>1, TellThread

\* The steps of threads that need nothing but what they take.
LEMMA TellOfReader ==
    ASSUME IInv, TellInv, NEW n \in Readers, MoverPop(n) \/ OutPop(n) \/ OutRelease(n) \/ OutDestroy(n)
    PROVE  TellInv'
<1>1. /\ n \in Nodes /\ pc \in [Nodes -> InputStates \cup MoverStates \cup OutStates] /\ cur \in [Nodes -> Msgs \cup {NoMsg}]
      /\ cpipe \in Seq(Requests)
  BY DEF Nodes, IInv, CustodyInv, ThreadInv, PipesInv
<1>2. /\ pc[n] \notin {"push", "exit"} /\ UNCHANGED <<state, termSent, cpc, fpipe>>
      /\ \A k \in Nodes \ {n} : pc'[k] = pc[k] /\ cur'[k] = cur[k]
  <2>1. CASE MoverPop(n)
    BY <1>1, <2>1 DEF MoverPop, config
  <2>2. CASE OutPop(n)
    BY <1>1, <2>2 DEF OutPop, config
  <2>3. CASE OutRelease(n)
    BY <1>1, <2>3 DEF OutRelease, config
  <2>4. CASE OutDestroy(n)
    BY <1>1, <2>4 DEF OutDestroy, config
  <2>5. QED
    BY <2>1, <2>2, <2>3, <2>4
<1>3. Owed' = Owed
  <2>1. CASE MoverPop(n)
    <3>1. PICK m \in Msgs : m = Head(ring[n])
      BY <2>1, TailFacts DEF MoverPop, IInv, CustodyInv, PipesInv
    <3>2. m \in live
      <4>1. m \in InRing(n)
        BY <2>1, <3>1, TailFacts DEF InRing, MoverPop, IInv, CustodyInv, PipesInv
      <4>2. QED
        BY <1>1, <4>1, FlightFacts
    <3>3. Destroy(m) \/ UNCHANGED <<live, cpipe>>
      BY <2>1, <3>1 DEF MoverPop
    <3>4. QED
      BY <3>2, <3>3, OwedKept
  <2>2. CASE OutPop(n)
    <3>1. PICK code \in {"ok", "slow", "fast"} : HandleRc(n, code)
      BY <2>2 DEF OutPop, Codes
    <3>2. live' = live /\ (cpipe' = cpipe \/ (code # "ok" /\ cpipe' = Append(cpipe, <<code, n>>)))
      BY <2>2, <3>1 DEF OutPop, HandleRc
    <3>3. code # "ok" => <<code, n>> \in Requests /\ <<code, n>>[1] # "done"
      BY <1>1, <3>1 DEF Requests
    <3>4. QED
      BY <3>2, <3>3, OwedKept
  <2>3. CASE OutRelease(n)
    <3>1. cur[n] \in live
      <4>1. cur[n] \in Holding(n)
        BY <2>3 DEF Holding, OutRelease
      <4>2. QED
        BY <1>1, <4>1, FlightFacts
    <3>2. Destroy(cur[n]) \/ UNCHANGED <<live, cpipe>>
      BY <2>3 DEF OutRelease
    <3>3. QED
      BY <3>1, <3>2, OwedKept
  <2>4. CASE OutDestroy(n)
    BY <2>4, OwedKept DEF OutDestroy
  <2>5. QED
    BY <2>1, <2>2, <2>3, <2>4
<1>4. QED
  BY <1>1, <1>2, <1>3, TellLocal

LEMMA TellOfManager ==
    ASSUME IInv, TellInv, ManagerProcess
    PROVE  TellInv'
<1>1. Mgr \in InNodes \cup Movers /\ Mgr \in Nodes
  BY SuccFacts DEF Nodes, Readers, Movers
<1>2. pc[Mgr] = "decide" /\ UNCHANGED <<state, termSent, cpc, fpipe>> /\ \E ps : Start(Mgr, cur[Mgr], ps, "ok")
  BY DEF ManagerProcess, config
<1>3. Destroy(cur[Mgr]) \/ UNCHANGED <<live, cpipe>>
  BY DEF ManagerProcess
<1>4. cur[Mgr] \in live
  <2>1. cur[Mgr] \in Holding(Mgr)
    BY <1>2 DEF Holding
  <2>2. QED
    BY <1>1, <2>1, FlightFacts
<1>5. Owed' = Owed
  BY <1>3, <1>4, OwedKept
<1>6. QED
  BY <1>1, <1>2, <1>5, TellStart

LEMMA TellOfPush ==
    ASSUME IInv, TellInv, NEW n \in InNodes \cup Movers, PushOne(n)
    PROVE  TellInv'
<1>1. n \in Nodes
  BY DEF Nodes, Readers
<1>2. /\ pc[n] = "push" /\ Start(n, cur[n], Tail(out[n]), rc[n]) /\ UNCHANGED <<state, termSent, cpc, fpipe, live, cpipe>>
  BY DEF PushOne, config
<1>3. \A k \in Nodes \ {n} : pc'[k] = pc[k] /\ cur'[k] = cur[k]
  BY <1>2 DEF Start, IInv, CustodyInv, ThreadInv
<1>4. Terminating(n) => Terminating(n)'
  <2>1. SUFFICES ASSUME Type(cur[n]) = "term" PROVE Terminating(n)'
    BY <1>2 DEF Terminating
  <2>2. rc[n] = "ok"
    BY <1>1, <2>1 DEF IInv, CustodyInv, ThreadInv
  <2>3. After(n, cur[n], rc[n]) = "exit"
    BY <2>1, <2>2 DEF After, IsPeriodic
  <2>4. QED
    BY <1>1, <1>2, <2>1, <2>3 DEF Terminating, Start, IInv, CustodyInv, ThreadInv
<1>5. Owed' = Owed
  BY <1>2, OwedKept
<1>6. QED
  BY <1>1, <1>2, <1>3, <1>4, <1>5, TellThread

LEMMA TellOfCode ==
    ASSUME IInv, TellInv, NEW n \in Nodes, HandleCode(n)
    PROVE  TellInv'
<1>1. /\ pc[n] = "handle" /\ HandleRc(n, rc[n]) /\ pc' = [pc EXCEPT ![n] = "loop"]
      /\ UNCHANGED <<cur, live, state, termSent, cpc, fpipe>>
  BY DEF HandleCode, config
<1>2. rc[n] \in RetCodes
  BY DEF IInv, CustodyInv, ThreadInv
<1>3. cpipe' = cpipe \/ (rc[n] # "ok" /\ cpipe' = Append(cpipe, <<rc[n], n>>))
  BY <1>1 DEF HandleRc
<1>4. rc[n] # "ok" => <<rc[n], n>> \in Requests /\ <<rc[n], n>>[1] # "done"
  BY <1>2 DEF Requests, RetCodes
<1>5. Owed' = Owed
  BY <1>1, <1>3, <1>4, OwedKept
<1>6. \A k \in Nodes \ {n} : pc'[k] = pc[k] /\ cur'[k] = cur[k]
  BY <1>1 DEF IInv, CustodyInv, ThreadInv
<1>7. QED
  BY <1>1, <1>5, <1>6, TellLocal

LEMMA TellOfSkip ==
    ASSUME IInv, TellInv, NEW i \in Inputs, InputSkip(i)
    PROVE  TellInv'
<1>1. In(i) \in Nodes
  BY NodeFacts DEF Nodes
<1>2. /\ pc[In(i)] = "get" /\ pc' = [pc EXCEPT ![In(i)] = "loop"]
      /\ UNCHANGED <<cur, live, cpipe, state, termSent, cpc, fpipe>>
  BY DEF InputSkip, config
<1>3. \A k \in Nodes \ {In(i)} : pc'[k] = pc[k] /\ cur'[k] = cur[k]
  BY <1>2 DEF IInv, CustodyInv, ThreadInv
<1>4. QED
  BY <1>1, <1>2, <1>3, OwedKept, TellLocal

LEMMA TellOfReceive ==
    ASSUME ~AllocFails, IInv, IInv', TellInv, Receive
    PROVE  TellInv'
<1> DEFINE tick == IF periods < MaxPeriodic THEN <<<<"periodic", NoMsg>>>> ELSE <<>>
           x == <<"periodic", NoMsg>>
<1>1. cpipe \in Seq(Requests) /\ x \in Requests /\ x[1] # "done"
  BY DEF IInv, CustodyInv, PipesInv, Requests
<1>2. PICK queue \in Seq(Requests) : queue = cpipe \o tick /\ Cardinality(Dones(queue)) = Cardinality(Dones(cpipe))
  <2>1. Cardinality(Dones(Append(cpipe, x))) = Cardinality(Dones(cpipe)) + 0 /\ Cardinality(Dones(cpipe)) \in Nat
    BY <1>1, DonesFacts
  <2>2. Append(cpipe, x) \in Seq(Requests)
    BY <1>1, AppendFacts
  <2>3. cpipe \o <<x>> = Append(cpipe, x) /\ cpipe \o <<>> = cpipe
    <3> HIDE DEF x
    <3>1. QED
      BY <1>1
  <2>4. CASE periods < MaxPeriodic
    <3>1. tick = <<x>>
      BY <2>4
    <3> HIDE DEF tick, x
    <3>2. cpipe \o tick = Append(cpipe, x)
      BY <2>3, <3>1
    <3>3. Cardinality(Dones(Append(cpipe, x))) = Cardinality(Dones(cpipe))
      BY <2>1
    <3>4. QED
      BY <2>2, <3>2, <3>3
  <2>5. CASE ~(periods < MaxPeriodic)
    <3>1. tick = <<>>
      BY <2>5
    <3> HIDE DEF tick, x
    <3>2. QED
      BY <1>1, <2>3, <3>1
  <2>6. QED
    BY <2>4, <2>5
<1> HIDE DEF tick, x
<1>3. /\ cpc = "run" /\ stops = <<>> /\ queue # <<>> /\ cpipe' = Tail(queue) /\ UNCHANGED <<pc, cur>>
  BY <1>2 DEF Receive, threads, tick
<1>4. PICK req \in Requests : req = Head(queue)
  BY <1>3, TailFacts
<1>5. /\ req[1] \in {"slow", "fast", "done", "periodic"}
      /\ Cardinality(Dones(cpipe)) = Cardinality(Dones(cpipe')) + IF req[1] = "done" THEN 1 ELSE 0
      /\ Cardinality(Dones(cpipe')) \in Nat /\ Cardinality(Terms) \in Nat
  <2>1. cpipe' \in Seq(Requests)
    BY <1>3, TailFacts
  <2>2. req[1] \in {"slow", "fast", "done", "periodic"}
    BY DEF Requests
  <2>3. Cardinality(Dones(queue)) = Cardinality(Dones(cpipe')) + IF req[1] = "done" THEN 1 ELSE 0
    BY <1>3, <1>4, DonesFacts
  <2>4. QED
    BY <1>2, <2>1, <2>2, <2>3, DonesFacts, OwedFacts
<1>6. \A i \in Inputs : Terminating(In(i))' <=> Terminating(In(i))
  BY <1>3 DEF Terminating
<1>7. termSent = Cardinality(Terms) + Cardinality(Dones(cpipe))
  BY DEF TellInv, Owed
<1>8. fpipe \in [Inputs -> Seq(Msgs)]
  BY DEF IInv, CustodyInv, PipesInv
<1>9. CASE req[1] = "periodic"
  <2>1. /\ PeriodicSend \/ UNCHANGED <<fpipe, live, termSent, periods, cpc>>
        /\ UNCHANGED <<state, stops>>
    BY <1>2, <1>4, <1>9 DEF Receive, tick
  <2>2. UNCHANGED <<termSent, cpc, state>>
    BY <2>1 DEF PeriodicSend
  <2>3. Terms' = Terms /\ \A i \in Inputs : \A m \in ToSet(fpipe[i]) : m \in ToSet(fpipe'[i])
    <3>1. CASE PeriodicSend
      <4>1. /\ fpipe' = [i \in Inputs |-> Append(fpipe[i], Periodic(i, periods))]
            /\ live' = live \cup {Periodic(i, periods) : i \in Inputs} /\ periods' = periods + 1
        BY <3>1 DEF PeriodicSend
      <4>2. \A i : Type(Periodic(i, periods)) # "term"
        BY DEF Periodic, Type
      <4>3. Terms' = Terms
        BY <4>1, <4>2 DEF Terms
      <4>4. \A i \in Inputs : Periodic(i, periods) \in Msgs
        <5>1. periods \in 0 .. MaxPeriodic /\ MaxPeriodic \in Nat
          BY SizesAssumption DEF IInv, NumbersInv
        <5>2. periods' \in 0 .. MaxPeriodic
          BY SizesAssumption DEF IInv, NumbersInv
        <5>3. periods \in 0 .. MaxPeriodic - 1
          BY <4>1, <5>1, <5>2
        <5>4. QED
          BY <5>3, MsgFacts
      <4>5. \A i \in Inputs : ToSet(Append(fpipe[i], Periodic(i, periods))) = ToSet(fpipe[i]) \cup {Periodic(i, periods)}
        BY <1>8, <4>4, AppendFacts
      <4>6. QED
        BY <4>1, <4>3, <4>5
    <3>2. CASE UNCHANGED <<fpipe, live>>
      BY <3>2 DEF Terms
    <3>3. QED
      BY <2>1, <3>1, <3>2
  <2>4. Owed' = Owed
    BY <1>5, <1>9, <2>3 DEF Owed
  <2>5. QED
    BY <1>6, <2>2, <2>3, <2>4 DEF TellInv
<1>10. CASE req[1] = "done"
  <2>1. HandleDone
    BY <1>2, <1>4, <1>10 DEF Receive, tick
  <2>2. Cardinality(Dones(cpipe)) = Cardinality(Dones(cpipe')) + 1
    BY <1>5, <1>10
  <2>3. termSent \in Nat /\ termSent >= 1
    BY <1>5, <1>7, <2>2
  <2>4. state # "running" /\ state' = state /\ termSent' = termSent - 1 /\ fpipe' = fpipe /\ live' = live
        /\ cpc' = IF termSent = 1 THEN "join" ELSE "run"
    BY <2>1, <2>3 DEF TellInv, HandleDone, LastDone
  <2>5. Terms' = Terms
    BY <2>4 DEF Terms
  <2>6. termSent' = Owed'
    BY <1>5, <1>7, <2>2, <2>4, <2>5 DEF Owed
  <2>7. cpc' # "abort" /\ (cpc' \in {"join", "done"} <=> termSent' = 0)
    BY <2>3, <2>4
  <2>8. QED
    BY <1>6, <2>4, <2>6, <2>7 DEF TellInv
<1>11. CASE req[1] \in {"slow", "fast"}
  <2>1. HandleRequest(req[1], req[2])
    BY <1>2, <1>4, <1>11 DEF Receive, tick
  <2>2. state' \in {"stop_slow", "stop_fast"}
    BY <2>1 DEF HandleRequest, NextState
  <2>3. Cardinality(Dones(cpipe)) = Cardinality(Dones(cpipe'))
    BY <1>5, <1>11
  <2>4. CASE state # "running"
    <3>1. UNCHANGED <<fpipe, live, termSent, cpc>>
      BY <2>1, <2>4 DEF HandleRequest
    <3>2. Terms' = Terms
      BY <3>1 DEF Terms
    <3>3. Owed' = Owed
      BY <2>3, <3>2 DEF Owed
    <3>4. QED
      BY <1>6, <2>2, <2>4, <3>1, <3>3 DEF TellInv
  <2>5. CASE state = "running"
    <3>1. termSent = 0 /\ TerminationSend(fpipe)
      BY <2>1, <2>5 DEF HandleRequest, TellInv
    <3>2. /\ fpipe' = [i \in Inputs |-> Append(fpipe[i], TermTo(i))]
          /\ live' = live \cup UNION {ToSet(fpipe'[i]) : i \in Inputs}
          /\ termSent' = NIn /\ cpc' = cpc
      BY <3>1 DEF TerminationSend
    <3>3. Terms = {} /\ Cardinality(Dones(cpipe')) = 0
      <4>1. Cardinality(Terms) = 0 /\ Cardinality(Dones(cpipe')) = 0
        BY <1>5, <1>7, <2>3, <3>1
      <4>2. QED
        BY <4>1, OwedFacts
    <3>4. \A i \in Inputs : Type(Term(i, 1)) = "term" /\ Term(i, 1) \in Msgs /\ TermTo(i) = Term(i, 1)
      <4>1. \A i \in Inputs : Type(Term(i, 1)) = "term" /\ Term(i, 1) \in Msgs
        <5>1. \A i \in Inputs : Type(Term(i, 1)) = "term"
          BY DEF Term, Type
        <5>2. 1 \in 1 .. 2
          OBVIOUS
        <5>3. QED
          BY <5>1, <5>2, MsgFacts
      <4>2. \A i \in Inputs : Term(i, 1) \notin live
        BY <3>3, <4>1 DEF Terms
      <4>3. QED
        BY <4>1, <4>2 DEF TermTo
    <3>5. \A i \in Inputs : ToSet(fpipe'[i]) = ToSet(fpipe[i]) \cup {Term(i, 1)}
      BY <1>8, <3>2, <3>4, AppendFacts
    <3>6. \A i \in Inputs : ToSet(fpipe[i]) \subseteq live
      <4>1. SUFFICES ASSUME NEW i \in Inputs PROVE ToSet(fpipe[i]) \subseteq live
        OBVIOUS
      <4>2. <<"pipe", In(i)>> \in Places /\ In(i) \in InNodes /\ In(i)[2] = i
        BY NodeFacts, PlaceFacts DEF Nodes
      <4>3. At(<<"pipe", In(i)>>) = ToSet(fpipe[i])
        BY <4>2 DEF At
      <4>4. QED
        BY <4>2, <4>3 DEF IInv, CustodyInv, LiveInv
    <3>7. Terms' = {Term(i, 1) : i \in Inputs}
      <4>1. \A m : m \in live' <=> m \in live \/ \E i \in Inputs : m = Term(i, 1)
        <5>1. \A m : m \in live' <=> m \in live \/ \E i \in Inputs : m \in ToSet(fpipe'[i])
          BY <3>2
        <5>2. \A i \in Inputs : \A m : m \in ToSet(fpipe'[i]) <=> m \in ToSet(fpipe[i]) \/ m = Term(i, 1)
          BY <3>5
        <5>3. \A i \in Inputs : \A m : m \in ToSet(fpipe[i]) => m \in live
          BY <3>6
        <5>4. QED
          BY <5>1, <5>2, <5>3
      <4>2. \A m \in live : Type(m) # "term"
        BY <3>3 DEF Terms
      <4>3. QED
        BY <3>4, <4>1, <4>2 DEF Terms
    <3>8. Cardinality(Terms') = NIn /\ NIn \in Nat \ {0}
      <4>1. 1 \in 1 .. 2
        OBVIOUS
      <4>2. QED
        BY <3>7, <4>1, TermsCount, SizesAssumption
    <3>9. Owed' = NIn
      BY <3>3, <3>8, <2>3 DEF Owed
    <3>10. \A i \in Inputs : Term(i, 1) \in ToSet(fpipe'[i])
      BY <3>5
    <3>11. QED
      BY <1>3, <2>2, <3>2, <3>8, <3>9, <3>10 DEF TellInv
  <2>6. QED
    BY <2>4, <2>5
<1>12. QED
  BY <1>5, <1>9, <1>10, <1>11

LEMMA TellOfCleanup ==
    ASSUME IInv, TellInv, Cleanup
    PROVE  TellInv'
<1>1. /\ cpc = "join" /\ \A n \in Nodes : pc[n] = "exit"
      /\ live' = live \ UNION {ToSet(fpipe[i]) : i \in Inputs}
      /\ cpc' = "done" /\ UNCHANGED <<pc, cur, state, termSent, cpipe>>
  BY DEF Cleanup, threads
<1>2. termSent = 0 /\ state # "running" /\ Cardinality(Terms) + Cardinality(Dones(cpipe)) = 0
  BY <1>1 DEF TellInv, Owed
<1>3. Cardinality(Terms) \in Nat /\ Cardinality(Dones(cpipe)) \in Nat /\ (Cardinality(Terms) = 0 => Terms = {})
  <2>1. cpipe \in Seq(Requests)
    BY DEF IInv, CustodyInv, PipesInv
  <2>2. QED
    BY <2>1, OwedFacts, DonesFacts
<1>4. Terms = {} /\ Terms' = {}
  <2>1. Terms = {}
    BY <1>2, <1>3
  <2>2. QED
    BY <1>1, <2>1 DEF Terms
<1>5. Owed' = Owed
  BY <1>1, <1>4 DEF Owed, Dones
<1>6. \A i \in Inputs : Terminating(In(i))'
  BY <1>1, NodeFacts DEF Terminating, Nodes
<1>7. QED
  BY <1>1, <1>2, <1>5, <1>6 DEF TellInv

LEMMA NextTell == ASSUME ~AllocFails PROVE IInv /\ IInv' /\ TellInv /\ [Next]_vars => TellInv'
<1>1. SUFFICES ASSUME IInv, IInv', TellInv, [Next]_vars PROVE TellInv'
  OBVIOUS
<1>2. ASSUME NEW i \in Inputs, InputThread(i) PROVE TellInv'
  <2>1. In(i) \in InNodes \cup Movers /\ In(i) \in Nodes
    BY NodeFacts DEF Nodes
  <2>2. CASE InputPipe(i) \/ InputGet(i)
    BY <1>1, <2>2, TellOfInput
  <2>3. CASE InputSkip(i)
    BY <1>1, <2>3, TellOfSkip
  <2>4. CASE PushOne(In(i))
    BY <1>1, <2>1, <2>4, TellOfPush
  <2>5. CASE HandleCode(In(i))
    BY <1>1, <2>1, <2>5, TellOfCode
  <2>6. QED
    BY <1>2, <2>2, <2>3, <2>4, <2>5 DEF InputThread
<1>3. ASSUME NEW n \in Movers, MoverThread(n) PROVE TellInv'
  <2>1. n \in InNodes \cup Movers /\ n \in Nodes /\ n \in Readers
    BY DEF Nodes, Readers
  <2>2. CASE MoverPop(n)
    BY <1>1, <2>1, <2>2, TellOfReader
  <2>3. CASE PushOne(n)
    BY <1>1, <2>1, <2>3, TellOfPush
  <2>4. CASE HandleCode(n)
    BY <1>1, <2>1, <2>4, TellOfCode
  <2>5. CASE ManagerProcess
    BY <1>1, <2>5, TellOfManager
  <2>6. CASE MoverPass(n) \/ MoverTerm(n) \/ (n \in Parsers /\ ParserProcess(n[2])) \/ InterProcess(n)
    BY <1>1, <2>6, TellOfMover
  <2>7. QED
    BY <1>3, <2>2, <2>3, <2>4, <2>5, <2>6 DEF MoverThread
<1>4. ASSUME NEW n \in OutNodes, OutThread(n) PROVE TellInv'
  <2>1. n \in Readers
    BY DEF Readers
  <2>2. QED
    BY <1>1, <1>4, <2>1, TellOfReader DEF OutThread
<1>5. CASE Signal
  <2>1. PICK type \in {"slow", "fast"} : cpipe' = Append(cpipe, <<type, NoMsg>>)
    BY <1>5 DEF Signal
  <2>2. UNCHANGED <<pc, cur, live, state, termSent, cpc, fpipe>>
    BY <1>5 DEF Signal, threads, config
  <2>3. <<type, NoMsg>> \in Requests /\ <<type, NoMsg>>[1] # "done"
    BY DEF Requests
  <2>4. Owed' = Owed
    BY <1>1, <2>1, <2>2, <2>3, OwedKept
  <2>5. QED
    BY <1>1, <2>2, <2>4 DEF TellInv, Terminating
<1>6. CASE StopNext \/ Idle \/ UNCHANGED vars
  <2>1. UNCHANGED <<pc, cur, live, cpipe, state, termSent, cpc, fpipe>>
    BY <1>6 DEF StopNext, Idle, vars, threads, config
  <2>2. Owed' = Owed
    BY <1>1, <2>1, OwedKept
  <2>3. QED
    BY <1>1, <2>1, <2>2 DEF TellInv, Terminating
<1>7. QED
  BY <1>1, <1>2, <1>3, <1>4, <1>5, <1>6, TellOfReceive, TellOfCleanup DEF Next, Configurator

LEMMA InitTell == Init => TellInv
<1>1. SUFFICES ASSUME Init PROVE TellInv
  OBVIOUS
<1>2. cpipe = <<>> /\ live = {} /\ state = "running" /\ termSent = 0 /\ cpc = "run"
  BY <1>1 DEF Init
<1>3. Terms = {} /\ Dones(cpipe) = {}
  BY <1>2 DEF Terms, Dones
<1>4. Owed = 0
  BY <1>3, FS_EmptySet DEF Owed
<1>5. QED
  BY <1>2, <1>4 DEF TellInv

LEMMA LeastNumber == ASSUME NEW S \in SUBSET Nat, S # {} PROVE \E k \in S : \A j \in S : ~(j < k)
<1>1. PICK k \in S : \A j \in S : <<j, k>> \notin OpToRel(<, Nat)
  BY NatLessThanWellFounded, WFMin
<1>2. QED
  BY <1>1 DEF OpToRel

LEMMA DoneHolds == IInv /\ TermInv /\ TellInv => DoneIsComplete
<1>1. SUFFICES ASSUME IInv, TermInv, TellInv, cpc \in {"join", "done"}
               PROVE  /\ \A n \in Nodes : pc[n] \in {"destroy", "exit"}
                      /\ \A i \in Inputs, k \in 1 .. 2 : Term(i, k) \notin live
  BY DEF DoneIsComplete, TellInv
<1>2. Terms = {}
  <2>1. Cardinality(Terms) + Cardinality(Dones(cpipe)) = 0
    BY <1>1 DEF TellInv, Owed
  <2>2. cpipe \in Seq(Requests)
    BY <1>1 DEF IInv, CustodyInv, PipesInv
  <2>3. Cardinality(Terms) \in Nat /\ Cardinality(Dones(cpipe)) \in Nat
    BY <1>1, <2>2, OwedFacts, DonesFacts
  <2>4. QED
    BY <1>1, <2>1, <2>3, OwedFacts
<1>3. \A m \in live : Type(m) # "term"
  BY <1>2 DEF Terms
<1>4. ASSUME NEW n \in Nodes PROVE Type(cur[n]) # "term"
  <2>1. SUFFICES ASSUME Type(cur[n]) = "term" PROVE FALSE
    OBVIOUS
  <2>2. Holding(n) \cup Pending(n) \subseteq live
    BY <1>1, NoUse DEF NoUseAfterFree, InFlight
  <2>3. pc[n] \in {"decide", "release"} \/ pc[n] = "push"
    BY <1>1, <2>1, MsgFacts DEF IInv, CustodyInv, ThreadInv
  <2>4. CASE pc[n] \in {"decide", "release"}
    BY <1>3, <2>1, <2>2, <2>4 DEF Holding
  <2>5. CASE pc[n] = "push"
    <3>1. out[n] \in Seq(Readers \X Msgs) /\ out[n] # <<>> /\ Targets(n, cur[n], out[n])
      BY <1>1, <2>5 DEF IInv, CustodyInv, ThreadInv
    <3>2. Len(out[n]) \in DOMAIN out[n]
      BY <3>1
    <3>3. Type(out[n][Len(out[n])][2]) = "term"
      <4>1. CASE n = Mgr
        BY <2>1, <3>1, <3>2, <4>1 DEF Targets
      <4>2. CASE n # Mgr
        BY <1>1, <2>1, <3>2, <4>2 DEF TermInv, Tagged
      <4>3. QED
        BY <4>1, <4>2
    <3>4. out[n][Len(out[n])][2] \in live
      BY <2>2, <3>2 DEF Pending
    <3>5. QED
      BY <1>3, <3>3, <3>4
  <2>6. QED
    BY <2>3, <2>4, <2>5
<1>5. ASSUME NEW n \in Readers, NEW w PROVE ~Closed(ring[n], n, w)
  <2>1. SUFFICES ASSUME NEW j \in DOMAIN ring[n], Type(ring[n][j]) = "term" PROVE FALSE
    BY DEF Closed
  <2>2. InRing(n) \subseteq live
    BY <1>1, FlightFacts DEF Nodes
  <2>3. ring[n][j] \in live
    BY <2>1, <2>2 DEF InRing, ToSet
  <2>4. QED
    BY <1>3, <2>1, <2>3
<1>6. ASSUME NEW n \in Nodes, pc[n] = "exit", NEW k PROVE Ended(n, k)
  <2>1. out[n] = <<>>
    BY <1>1, <1>6 DEF IInv, CustodyInv, ThreadInv
  <2>2. QED
    BY <1>6, <2>1 DEF Ended, Terminating
<1>7. ASSUME NEW n \in Readers, Finished(n) PROVE pc[n] \in {"destroy", "exit"} /\ (n \in Movers => pc[n] = "exit")
  <2>1. n \in Nodes /\ pc[n] \in {"destroy", "exit"}
    BY <1>4, <1>7 DEF Finished, Nodes
  <2>2. n \in Movers => pc[n] # "destroy"
    BY <1>1, <2>1, NodeFacts DEF IInv, CustodyInv, ThreadInv, States, MoverStates, Readers
  <2>3. QED
    BY <2>1, <2>2
\* An instance behind one that has ended has ended.
<1>8. ASSUME NEW n \in Readers, n # Inter(1), NEW w \in Preds(n), pc[w] = "exit" PROVE Finished(n)
  <2>1. w \in Nodes
    BY PredFacts
  <2>2. QED
    BY <1>1, <1>5, <1>6, <1>8, <2>1 DEF TermInv
<1>9. ASSUME NEW i \in Inputs PROVE pc[In(i)] = "exit"
  <2>1. In(i) \in InNodes /\ In(i) \in Nodes /\ In(i)[2] = i
    BY NodeFacts DEF Nodes
  <2>2. Term(i, 1) \notin ToSet(fpipe[i])
    <3>1. At(<<"pipe", In(i)>>) = ToSet(fpipe[i]) /\ <<"pipe", In(i)>> \in Places
      BY <2>1, PlaceFacts DEF At
    <3>2. ToSet(fpipe[i]) \subseteq live
      BY <1>1, <3>1 DEF IInv, CustodyInv, LiveInv
    <3>3. Type(Term(i, 1)) = "term"
      BY DEF Term, Type
    <3>4. QED
      BY <1>3, <3>2, <3>3
  <2>3. Terminating(In(i))
    BY <1>1, <2>2 DEF TellInv
  <2>4. QED
    BY <1>4, <2>1, <2>3 DEF Terminating
<1>10. ASSUME NEW i \in Inputs PROVE pc[Parser(i)] = "exit"
  <2>1. In(i) \in InNodes \cup Movers /\ In(i) # Mgr /\ Succ(In(i)) = Parser(i) /\ Parser(i) \in Movers /\ Parser(i) \in Readers
        /\ Parser(i) # Inter(1)
    BY NodeFacts, SuccFacts DEF Readers, Movers
  <2>2. In(i) \in Preds(Parser(i))
    BY <2>1, PredFacts
  <2>3. QED
    BY <1>7, <1>8, <1>9, <2>1, <2>2
<1>11. pc[Inter(1)] = "exit"
  <2>1. Inter(1) \in Readers /\ Inter(1) \in Movers /\ \A i \in Inputs : Parser(i) \in Nodes
    BY NodeFacts, SuccFacts DEF Readers, Movers, Nodes
  <2>2. Unfinished = {}
    BY <1>5, <1>6, <1>10, <2>1 DEF Unfinished
  <2>3. Cardinality(Unfinished) = 0
    BY <2>2, FS_EmptySet
  <2>4. Finished(Inter(1))
    BY <1>1, <2>3 DEF TermInv
  <2>5. QED
    BY <1>7, <2>1, <2>4
<1>12. ASSUME NEW n \in Inters PROVE pc[n] = "exit"
  <2> DEFINE S == {k \in 1 .. NInter + 1 : pc[Inter(k)] # "exit"}
  <2>1. SUFFICES ASSUME S # {} PROVE FALSE
    BY NodeFacts
  <2>2. PICK k \in S : \A j \in S : ~(j < k)
    <3>1. S \in SUBSET Nat
      BY SizesAssumption
    <3>2. QED
      BY <2>1, <3>1, LeastNumber
  <2>3. k \in 1 .. NInter + 1 /\ k # 1 /\ NInter \in Nat
    BY <1>11, SizesAssumption
  <2>4. k - 1 \in 1 .. NInter + 1 /\ k - 1 # NInter + 1 /\ k - 1 < k /\ k - 1 + 1 = k
    BY <2>3
  <2>5. pc[Inter(k - 1)] = "exit"
    BY <2>2, <2>4
  <2> DEFINE w == Inter(k - 1)
  <2>6. w \in Inters /\ w[2] = k - 1 /\ Inter(k) \in Inters /\ Inter(k)[2] = k /\ Inter(1)[2] = 1 /\ Mgr[2] = NInter + 1
    BY <2>3, <2>4, NodeFacts, SizesAssumption DEF Mgr, Inter
  <2>7. Succ(w) = Inter(k)
    <3>1. w \notin InNodes /\ w \notin Parsers
      BY <2>6, NodeFacts DEF Readers, Movers
    <3>2. Succ(w) = Inter(w[2] + 1)
      BY <2>6, <3>1 DEF Succ
    <3>3. QED
      BY <2>4, <2>6, <3>2
  <2>8. w \in InNodes \cup Movers /\ w # Mgr /\ Inter(k) \in Readers /\ Inter(k) \in Movers /\ Inter(k) # Inter(1)
    BY <2>3, <2>4, <2>6 DEF Readers, Movers
  <2>9. w \in Preds(Inter(k))
    BY <2>7, <2>8, PredFacts
  <2>10. Finished(Inter(k))
    BY <1>8, <2>5, <2>8, <2>9
  <2>11. pc[Inter(k)] = "exit"
    BY <1>7, <2>8, <2>10
  <2>12. QED
    BY <2>2, <2>11
<1>13. ASSUME NEW n \in OutNodes PROVE pc[n] \in {"destroy", "exit"}
  <2>1. pc[Mgr] = "exit" /\ n \in Readers /\ n # Inter(1)
    BY <1>12, SuccFacts, NodeFacts DEF Readers
  <2>2. Mgr \in Preds(n)
    BY <2>1, PredFacts
  <2>3. QED
    BY <1>7, <1>8, <2>1, <2>2
<1>14. \A i \in Inputs, k \in 1 .. 2 : Term(i, k) \notin live
  <2>1. \A i, k : Type(Term(i, k)) = "term"
    BY DEF Term, Type
  <2>2. QED
    BY <1>3, <2>1
<1>15. QED
  <2>1. \A n \in InNodes : pc[n] = "exit"
    BY <1>9 DEF InNodes
  <2>2. \A n \in Parsers : pc[n] = "exit"
    BY <1>10 DEF Parsers
  <2>3. QED
    BY <1>12, <1>13, <1>14, <2>1, <2>2 DEF Nodes, Readers, Movers

(* When the configurator joins the threads, all of them are at their end, no *)
(* terminate message is left, and it has never met a notification it did not *)
(* expect: the notifications count the terminate messages, and one that is   *)
(* destroyed has been merged into the last one before (configurator.cpp:391, *)
(* thread_intermediate of context.c).  When the memory for a periodic        *)
(* message is missing this does not hold, so the theorem is about a collector*)
(* that has it.                                                              *)
THEOREM DoneIsTold == ASSUME ~AllocFails PROVE Spec => []DoneIsComplete
<1>1. Init => IInv /\ TermInv /\ EndInv /\ TellInv
  BY InitInv, InitTerm, InitTell
<1>2. (IInv /\ TermInv /\ EndInv /\ TellInv) /\ [Next]_vars => (IInv /\ TermInv /\ EndInv /\ TellInv)'
  BY NextInv, NextTerm, NextEnd, NextTell
<1>3. IInv /\ TermInv /\ TellInv => DoneIsComplete
  BY DoneHolds
<1>4. QED
  BY <1>1, <1>2, <1>3, PTL DEF Spec


(* The same of the behaviours that are checked: those with scarce memory are *)
(* left out by the property itself.                                          *)
THEOREM MergedDoneIsTold == ASSUME ~AllocFails PROVE McSpec => []MergedDoneIsComplete
<1> DEFINE All == IInv /\ TermInv /\ EndInv /\ TellInv
<1>1. McInit => (~scarce => All)
  BY InitInv, InitTerm, InitTell DEF McInit
<1>2. (~scarce => All) /\ [McNext]_<<vars, scarce>> => (~scarce => All)'
  <2>1. SUFFICES ASSUME All, [Next]_vars PROVE All'
    BY DEF McNext
  <2>2. QED
    BY <2>1, NextInv, NextTerm, NextEnd, NextTell
<1>3. (~scarce => All) => MergedDoneIsComplete
  BY DoneHolds DEF MergedDoneIsComplete
<1>4. QED
  BY <1>1, <1>2, <1>3, PTL DEF McSpec
-----------------------------------------------------------------------------
(* Garbage is the last message of its session.                               *)

\* d has to be gone when g is destroyed: data before garbage, IPFIX messages before
\* the close message of their session.
Before(d, g) ==
    /\ d[2] = g[2]
    /\ \/ IsData(d) /\ Type(g) = "garbage"
       \/ Type(d) = "ipfix" /\ Type(g) = "close"

\* How far a message has come.  What the output manager pushes to an output is
\* counted for the output.
Level(p) == 3 * Place(p[2]) + (IF p[1] = "ring" THEN 1 ELSE IF p[1] = "hand" THEN 2
                               ELSE IF p[1] = "out" /\ p[2] \notin OutNodes THEN 3 ELSE 0)

\* Nothing overtakes: not in a ring, not among the pushes of a thread, not from
\* place to place, and not in the lane of another output.
InLine(s) == \A j, k \in DOMAIN s : j < k => ~Before(s[k], s[j])
PushLine(ps) == \A j, k \in DOMAIN ps : j < k => ~Before(ps[k][2], ps[j][2])
LineInv ==
    /\ \A n \in Readers : InLine(ring[n])
    /\ \A n \in Nodes : PushLine(out[n])
LevelInv ==
    \A p, q \in Places : Exclude(p, q) =>
        \A d \in At(p), g \in At(q) : Before(d, g) => Level(q) <= Level(p)
LaneInv ==
    \A p \in Places : p[2] \in OutNodes =>
        \A d \in At(p), g \in live : Before(d, g) => \E q \in Places : g \in At(q) /\ Exclude(q, p)
OrderInv == LineInv /\ LevelInv /\ LaneInv

LEMMA PlaceNumbers ==
    /\ \A n \in Nodes : Place(n) \in Nat
    /\ \A n \in InNodes : Place(n) = 1
    /\ \A n \in Parsers : Place(n) = 2
    /\ \A n \in Inters : Place(n) = 2 + n[2] /\ n[2] \in Nat /\ n[2] >= 1 /\ n[2] <= NInter + 1
    /\ \A n \in OutNodes : Place(n) = NInter + 4
    /\ \A n \in InNodes \cup Movers : n # Mgr => Place(Succ(n)) = Place(n) + 1
    /\ Place(Mgr) = NInter + 3 /\ NInter \in Nat
<1>1. NInter \in Nat
  BY SizesAssumption
<1>2. \A n \in InNodes : Place(n) = 1
  BY NodeFacts DEF Place, Readers, Movers
<1>3. \A n \in Parsers : n \notin InNodes /\ Place(n) = 2
  BY NodeFacts DEF Place, Readers, Movers
<1>4. \A n \in Inters : n[2] \in Nat /\ n[2] >= 1 /\ n[2] <= NInter + 1
  BY <1>1, NodeFacts
<1>5. \A n \in Inters : n \notin InNodes /\ n \notin Parsers /\ Place(n) = 2 + n[2]
  BY NodeFacts DEF Place, Readers, Movers
<1>6. \A n \in OutNodes : Place(n) = NInter + 4
  BY NodeFacts DEF Place, Readers, Movers
<1>7. Mgr \in Inters /\ Mgr[2] = NInter + 1
  BY SuccFacts DEF Mgr, Inter
<1>8. ASSUME NEW n \in InNodes \cup Movers, n # Mgr PROVE Place(Succ(n)) = Place(n) + 1
  <2>1. CASE n \in InNodes
    <3>1. Succ(n) \in Parsers
      BY <2>1, NodeFacts, SuccFacts
    <3>2. QED
      BY <1>2, <1>3, <2>1, <3>1
  <2>2. CASE n \in Parsers
    <3>1. Succ(n) = Inter(1) /\ Inter(1) \in Inters /\ Inter(1)[2] = 1
      BY <2>2, SuccFacts DEF Inter
    <3>2. Place(Inter(1)) = 3
      BY <1>5, <3>1
    <3>3. QED
      BY <1>3, <2>2, <3>1, <3>2
  <2>3. CASE n \in Inters
    <3>1. Succ(n) = Inter(n[2] + 1) /\ Succ(n) \in Inters /\ Inter(n[2] + 1)[2] = n[2] + 1
      BY <1>5, <1>8, <2>3, SuccFacts DEF Succ, Inter
    <3>2. Place(Succ(n)) = 2 + (n[2] + 1)
      BY <1>5, <3>1
    <3>3. QED
      BY <1>4, <1>5, <2>3, <3>2
  <2>4. QED
    BY <1>8, <2>1, <2>2, <2>3 DEF Movers
<1>9. \A n \in Nodes : Place(n) \in Nat
  <2>1. ASSUME NEW n \in Nodes PROVE Place(n) \in Nat
    <3>1. CASE n \in Inters
      BY <1>4, <1>5, <3>1
    <3>2. CASE n \notin Inters
      BY <1>1, <1>2, <1>3, <1>6, <3>2 DEF Nodes, Readers, Movers
    <3>3. QED
      BY <3>1, <3>2
  <2>2. QED
    BY <2>1
<1>10. Place(Mgr) = NInter + 3
  <2>1. Place(Mgr) = 2 + (NInter + 1)
    BY <1>5, <1>7
  <2>2. QED
    BY <1>1, <2>1
<1>11. QED
  BY <1>1, <1>2, <1>3, <1>4, <1>5, <1>6, <1>8, <1>9, <1>10

LEMMA Levels ==
    ASSUME NEW n \in Nodes
    PROVE  /\ Level(<<"ring", n>>) = 3 * Place(n) + 1
           /\ Level(<<"hand", n>>) = 3 * Place(n) + 2
           /\ n \notin OutNodes => Level(<<"out", n>>) = 3 * Place(n) + 3
           /\ n \in OutNodes => Level(<<"out", n>>) = 3 * Place(n)
           /\ \A k \in {"pipe", "ring", "hand", "out"} : Level(<<k, n>>) \in Nat
<1>1. Place(n) \in Nat
  BY PlaceNumbers
<1>2. QED
  BY <1>1 DEF Level

\* A step of a message is one level.
LEMMA NextLevel ==
    /\ \A n \in Readers : Level(<<"hand", n>>) = Level(<<"ring", n>>) + 1
    /\ \A n \in Movers : n # Mgr => Level(<<"out", n>>) = Level(<<"hand", n>>) + 1
    /\ \A n \in OutNodes : Level(<<"out", n>>) = Level(<<"hand", Mgr>>) + 1
    /\ \A n \in OutNodes : Level(<<"ring", n>>) = Level(<<"out", n>>) + 1
    /\ \A n \in InNodes \cup Movers : n # Mgr => Level(<<"ring", Succ(n)>>) = Level(<<"out", n>>) + 1
<1>1. \A n \in Readers : n \in Nodes /\ Place(n) \in Nat
  BY PlaceNumbers DEF Nodes
<1>2. Mgr \in Readers /\ \A n \in Movers : n \in Readers /\ n \notin OutNodes
  BY SuccFacts, NodeFacts DEF Readers, Movers
<1>3. ASSUME NEW n \in Readers PROVE Level(<<"hand", n>>) = Level(<<"ring", n>>) + 1
  <2>1. Place(n) \in Nat /\ Level(<<"hand", n>>) = 3 * Place(n) + 2 /\ Level(<<"ring", n>>) = 3 * Place(n) + 1
    BY <1>1, Levels
  <2>2. QED
    BY <2>1
<1>4. ASSUME NEW n \in Movers PROVE Level(<<"out", n>>) = Level(<<"hand", n>>) + 1
  <2>1. Place(n) \in Nat /\ Level(<<"hand", n>>) = 3 * Place(n) + 2 /\ Level(<<"out", n>>) = 3 * Place(n) + 3
    BY <1>1, <1>2, Levels
  <2>2. QED
    BY <2>1
<1>5. ASSUME NEW n \in OutNodes
      PROVE  Level(<<"out", n>>) = Level(<<"hand", Mgr>>) + 1 /\ Level(<<"ring", n>>) = Level(<<"out", n>>) + 1
  <2>1. n \in Nodes /\ Mgr \in Nodes /\ Place(n) = NInter + 4 /\ Place(Mgr) = NInter + 3 /\ NInter \in Nat
    BY <1>1, <1>2, PlaceNumbers DEF Readers
  <2>2. Level(<<"out", n>>) = 3 * (NInter + 4) /\ Level(<<"hand", Mgr>>) = 3 * (NInter + 3) + 2
        /\ Level(<<"ring", n>>) = 3 * (NInter + 4) + 1
    BY <2>1, Levels
  <2>3. QED
    BY <2>1, <2>2
<1>6. ASSUME NEW n \in InNodes \cup Movers, n # Mgr PROVE Level(<<"ring", Succ(n)>>) = Level(<<"out", n>>) + 1
  <2>1. n \in Nodes /\ n \notin OutNodes /\ Succ(n) \in Nodes
    BY <1>1, <1>2, <1>6, SuccFacts, NodeFacts DEF Nodes, Readers
  <2>2. Place(n) \in Nat /\ Place(Succ(n)) = Place(n) + 1
    BY <1>6, <2>1, PlaceNumbers
  <2>3. Level(<<"ring", Succ(n)>>) = 3 * (Place(n) + 1) + 1 /\ Level(<<"out", n>>) = 3 * Place(n) + 3
    BY <2>1, <2>2, Levels
  <2>4. QED
    BY <2>2, <2>3
<1>7. QED
  BY <1>3, <1>4, <1>5, <1>6

LEMMA BeforeFacts ==
    \A d, g : Before(d, g) => /\ d[2] = g[2] /\ Type(d) \in {"ipfix", "close"} /\ Type(g) \in {"close", "garbage"}
                              /\ ~Before(g, d) /\ d # g
BY DEF Before, IsData

\* Where data and garbage can be.
Kept == {"ipfix", "close", "garbage"}
LEMMA KeptFacts ==
    ASSUME IInv, NEW r \in Places, NEW m \in At(r), Type(m) \in Kept
    PROVE  /\ r[1] \in {"ring", "hand", "out"} /\ r = <<r[1], r[2]>> /\ r[2] \in Nodes
           /\ r[2] \in InNodes => r[1] = "out"
           /\ r[2] = Mgr => r[1] # "out"
           /\ r[2] \in InNodes \cup Parsers => m[2] = r[2][2]
<1>1. r[1] \in {"pipe", "ring", "hand", "out"} /\ r = <<r[1], r[2]>> /\ r[2] \in Nodes
  BY PlaceFacts
<1>2. r[1] # "pipe"
  <2>1. SUFFICES ASSUME r[1] = "pipe" PROVE FALSE
    OBVIOUS
  <2>2. r[2] \in InNodes /\ m \in ToSet(fpipe[r[2][2]])
    BY <2>1 DEF At
  <2>3. r[2][2] \in Inputs
    BY <2>2, NodeFacts
  <2>4. Type(m) \in {"periodic", "stray", "term"}
    BY <2>2, <2>3 DEF IInv, CustodyInv, PipesInv
  <2>5. QED
    BY <2>4 DEF Kept
<1>3. ASSUME r[2] \in InNodes PROVE r[1] = "out"
  <2>1. InRing(r[2]) = {}
    BY <1>3, NodeFacts DEF InRing
  <2>2. Holding(r[2]) = {}
    <3>1. pc[r[2]] \in InputStates
      BY <1>1, <1>3 DEF IInv, CustodyInv, ThreadInv, States
    <3>2. QED
      BY <3>1 DEF Holding, InputStates
  <2>3. QED
    BY <1>1, <1>2, <2>1, <2>2 DEF At
<1>4. ASSUME r[2] = Mgr PROVE r[1] # "out"
  <2>1. ToPush(Mgr) = {}
    BY SuccFacts, NodeFacts DEF ToPush
  <2>2. QED
    BY <1>1, <1>4, <2>1 DEF At
<1>5. ASSUME r[2] \in InNodes \cup Parsers PROVE m[2] = r[2][2]
  <2>1. PICK i \in Inputs : r[2] \in {In(i), Parser(i)} /\ r[2][2] = i
    BY <1>5, NodeFacts
  <2>2. QED
    BY <2>1 DEF IInv, OriginInv
<1>6. QED
  BY <1>1, <1>2, <1>3, <1>4, <1>5

\* Messages of one session on one way are on different levels, or in one place.
LEMMA LevelApart ==
    ASSUME IInv, NEW p \in Places, NEW r \in Places, NEW m \in At(p), NEW d \in At(r),
           Type(m) \in Kept, Type(d) \in Kept, d[2] = m[2], Exclude(p, r), Level(p) = Level(r)
    PROVE  p = r
<1> DEFINE n == p[2]
           w == r[2]
<1>1. /\ p[1] \in {"ring", "hand", "out"} /\ p = <<p[1], n>> /\ n \in Nodes
      /\ r[1] \in {"ring", "hand", "out"} /\ r = <<r[1], w>> /\ w \in Nodes
      /\ p[1] = "out" => n # Mgr
      /\ r[1] = "out" => w # Mgr
      /\ n \in InNodes \cup Parsers => m[2] = n[2]
      /\ w \in InNodes \cup Parsers => d[2] = w[2]
  BY KeptFacts
<1>2. Place(n) \in Nat /\ Place(w) \in Nat
  BY <1>1, PlaceNumbers
<1>3. ASSUME Place(n) = Place(w) PROVE n = w
  <2>1. CASE n \in InNodes
    <3>1. w \in InNodes
      BY <1>1, <1>3, <2>1, PlaceNumbers DEF Nodes, Readers, Movers
    <3>2. QED
      BY <1>1, <2>1, <3>1, NodeFacts
  <2>2. CASE n \in Parsers
    <3>1. w \in Parsers
      BY <1>1, <1>3, <2>2, PlaceNumbers DEF Nodes, Readers, Movers
    <3>2. QED
      BY <1>1, <2>2, <3>1, NodeFacts
  <2>3. CASE n \in Inters
    <3>1. w \in Inters /\ w[2] = n[2]
      BY <1>1, <1>3, <2>3, PlaceNumbers DEF Nodes, Readers, Movers
    <3>2. QED
      BY <1>1, <2>3, <3>1, NodeFacts
  <2>4. CASE n \in OutNodes
    <3>1. w \in OutNodes
      BY <1>1, <1>3, <2>4, PlaceNumbers DEF Nodes, Readers, Movers
    <3>2. QED
      BY <1>1, <2>4, <3>1, NodeFacts DEF Exclude
  <2>5. QED
    BY <1>1, <2>1, <2>2, <2>3, <2>4 DEF Nodes, Readers, Movers
<1>4. ASSUME NEW k \in {"ring", "hand", "out"}, NEW v \in Nodes
      PROVE  Level(<<k, v>>) = 3 * Place(v) + (IF k = "ring" THEN 1 ELSE IF k = "hand" THEN 2
                                                ELSE IF v \notin OutNodes THEN 3 ELSE 0)
  BY DEF Level
<1>5. /\ Level(p) = 3 * Place(n) + (IF p[1] = "ring" THEN 1 ELSE IF p[1] = "hand" THEN 2
                                    ELSE IF n \notin OutNodes THEN 3 ELSE 0)
      /\ Level(r) = 3 * Place(w) + (IF r[1] = "ring" THEN 1 ELSE IF r[1] = "hand" THEN 2
                                    ELSE IF w \notin OutNodes THEN 3 ELSE 0)
  BY <1>1, <1>4
<1> HIDE DEF n, w
<1>t. \A a, b \in Nat : /\ 3 * a + 1 # 3 * b + 2 /\ 3 * a + 1 # 3 * b + 3 /\ 3 * a + 1 # 3 * b + 0
                        /\ 3 * a + 2 # 3 * b + 3 /\ 3 * a + 2 # 3 * b + 0
                        /\ 3 * a + 3 = 3 * b + 0 => b = a + 1
                        /\ \A c : 3 * a + c = 3 * b + c /\ c \in {0, 1, 2, 3} => a = b
  OBVIOUS
<1>6. p[1] = r[1]
  <2>1. PICK a, b \in Nat : a = Place(n) /\ b = Place(w)
    BY <1>2
  <2>2. /\ p[1] = "ring" => Level(p) = 3 * a + 1
        /\ p[1] = "hand" => Level(p) = 3 * a + 2
        /\ p[1] = "out" => Level(p) = 3 * a + 3 \/ Level(p) = 3 * a + 0
    BY <1>1, <1>5, <2>1
  <2>3. /\ r[1] = "ring" => Level(p) = 3 * b + 1
        /\ r[1] = "hand" => Level(p) = 3 * b + 2
        /\ r[1] = "out" => Level(p) = 3 * b + 3 \/ Level(p) = 3 * b + 0
    BY <1>1, <1>5, <2>1
  <2>4. CASE p[1] = "ring"
    BY <1>1, <1>t, <2>2, <2>3, <2>4
  <2>5. CASE p[1] = "hand"
    BY <1>1, <1>t, <2>2, <2>3, <2>5
  <2>6. CASE p[1] = "out"
    BY <1>1, <1>t, <2>2, <2>3, <2>6
  <2>7. QED
    BY <1>1, <2>4, <2>5, <2>6

<1>7. p[1] = "out" => (n \in OutNodes <=> w \in OutNodes)
  <2>1. \A v \in Nodes \ OutNodes : v # Mgr => Place(v) # NInter + 3
    <3>1. ASSUME NEW v \in Nodes \ OutNodes, v # Mgr PROVE Place(v) # NInter + 3
      <4>1. CASE v \in Inters
        <5>1. v[2] # NInter + 1
          BY <3>1, <4>1, NodeFacts DEF Mgr
        <5>2. QED
          BY <4>1, <5>1, PlaceNumbers
      <4>2. CASE v \notin Inters
        BY <3>1, <4>2, PlaceNumbers DEF Nodes, Readers, Movers
      <4>3. QED
        BY <4>1, <4>2
    <3>2. QED
      BY <3>1
  <2>2. \A v \in OutNodes : Place(v) = NInter + 4 /\ NInter \in Nat
    BY PlaceNumbers
  <2>3. SUFFICES ASSUME p[1] = "out", r[1] = "out", n # Mgr, w # Mgr PROVE n \in OutNodes <=> w \in OutNodes
    BY <1>1, <1>6
  <2>4. n \notin OutNodes => Place(n) # NInter + 3
    BY <1>1, <2>1, <2>3
  <2>5. w \notin OutNodes => Place(w) # NInter + 3
    BY <1>1, <2>1, <2>3
  <2>6. ASSUME n \in OutNodes, w \notin OutNodes PROVE FALSE
    <3>1. 3 * Place(w) + 3 = 3 * Place(n) + 0
      BY <1>5, <2>3, <2>6
    <3>2. Place(n) = Place(w) + 1
      BY <1>2, <1>t, <3>1
    <3>3. QED
      BY <1>2, <2>2, <2>5, <2>6, <3>2
  <2>7. ASSUME w \in OutNodes, n \notin OutNodes PROVE FALSE
    <3>1. 3 * Place(n) + 3 = 3 * Place(w) + 0
      BY <1>5, <2>3, <2>7
    <3>2. Place(w) = Place(n) + 1
      BY <1>2, <1>t, <3>1
    <3>3. QED
      BY <1>2, <2>2, <2>4, <2>7, <3>2
  <2>8. QED
    BY <2>6, <2>7
<1>8. Place(n) = Place(w)
  <2>1. PICK c \in {0, 1, 2, 3} : Level(p) = 3 * Place(n) + c /\ Level(r) = 3 * Place(w) + c
    BY <1>1, <1>5, <1>6, <1>7
  <2>2. QED
    BY <1>2, <1>t, <2>1

<1>9. QED
  BY <1>1, <1>3, <1>6, <1>8

\* The messages S move forward from p to q, with the new messages N.
LEMMA OrderMoves ==
    ASSUME IInv, LevelInv, LaneInv, NEW p \in Places, NEW q \in Places, NEW S, NEW N, Moves(p, q, S, N),
           S \subseteq At(p), live' = live \cup N, Level(p) <= Level(q),
           \/ p[2] \notin OutNodes /\ q[2] \notin OutNodes
           \/ p[2] = q[2] /\ N = {},
           \A g \in S \cup N : \A r \in Places : \A d \in At(r) :
               Exclude(r, q) /\ Before(d, g) /\ ~(r = p /\ d \in S) => Level(q) <= Level(r),
           \A x \in N : \A g \in live : ~Before(x, g)
    PROVE  LevelInv' /\ LaneInv'
<1>1. \A r \in Places : \A x \in At(r)' : (x \in At(r) /\ ~(r = p /\ x \in S)) \/ (r = q /\ x \in S \cup N)
  BY DEF Moves
<1>2. \A r \in Places : \A x \in At(r) : x \in At(r)' \/ (r = p /\ x \in S)
  BY DEF Moves
<1>3. \A x \in S \cup N : x \in At(q)'
  BY DEF Moves
<1>4. \A r \in Places : Level(r) \in Nat
  BY Levels, PlaceFacts
<1>5. \A r \in Places : At(r) \subseteq live
  BY DEF IInv, CustodyInv, LiveInv
<1>6. LevelInv'
  <2>1. SUFFICES ASSUME NEW a \in Places, NEW b \in Places, Exclude(a, b), NEW d \in At(a)', NEW g \in At(b)',
                        Before(d, g)
                 PROVE  Level(b) <= Level(a)
    BY DEF LevelInv, Exclude, Before, Level
  <2>2. CASE d \in At(a) /\ ~(a = p /\ d \in S) /\ g \in At(b)
    BY <2>1, <2>2 DEF LevelInv
  <2>3. CASE a = q /\ d \in S \cup N /\ g \in At(b)
    <3>1. d \in S
      BY <1>5, <2>1, <2>3
    <3>2. Exclude(p, b)
      BY <2>1, <2>3 DEF Exclude
    <3>3. Level(b) <= Level(p)
      BY <2>1, <2>3, <3>1, <3>2 DEF LevelInv
    <3>4. QED
      BY <1>4, <2>3, <3>3
  <2>4. CASE d \in At(a) /\ ~(a = p /\ d \in S) /\ b = q /\ g \in S \cup N
    BY <2>1, <2>4
  <2>5. CASE a = q /\ b = q
    BY <1>4, <2>5
  <2>6. QED
    BY <1>1, <2>2, <2>3, <2>4, <2>5
<1>7. LaneInv'
  <2>1. SUFFICES ASSUME NEW a \in Places, a[2] \in OutNodes, NEW d \in At(a)', NEW g \in live', Before(d, g)
                 PROVE  \E b \in Places : g \in At(b)' /\ Exclude(b, a)
    BY DEF LaneInv, Exclude, Before
  <2>2. CASE g \in N
    BY <1>3, <2>1, <2>2 DEF Exclude
  <2>3. CASE g \notin N
    <3>1. g \in live
      BY <2>3
    <3>2. PICK c \in Places : d \in At(c) /\ c[2] = a[2]
      BY <1>1, <2>1
    <3>3. PICK b \in Places : g \in At(b) /\ Exclude(b, c)
      BY <2>1, <3>1, <3>2 DEF LaneInv
    <3>4. Exclude(b, a)
      BY <3>2, <3>3 DEF Exclude
    <3>5. CASE b = p /\ g \in S
      <4>1. g \in At(q)' /\ Exclude(q, a)
        BY <1>3, <3>4, <3>5 DEF Exclude
      <4>2. QED
        BY <4>1
    <3>6. QED
      BY <1>2, <3>3, <3>4, <3>5
  <2>4. QED
    BY <2>2, <2>3
<1>8. QED
  BY <1>6, <1>7

\* One message moves to the next level.
LEMMA OrderPasses ==
    ASSUME IInv, LevelInv, LaneInv, NEW p \in Places, NEW q \in Places, NEW m \in At(p), Passes(p, q, m),
           Level(q) = Level(p) + 1, p[2] = q[2] \/ (p[2] \notin OutNodes /\ q[2] \notin OutNodes),
           \A x \in At(p) : ~Before(x, m)
    PROVE  LevelInv' /\ LaneInv'
<1>1. \A r \in Places : Level(r) \in Nat
  BY Levels, PlaceFacts
<1>2. ASSUME NEW r \in Places, NEW d \in At(r), Exclude(r, q), Before(d, m) PROVE Level(q) <= Level(r)
  <2>1. Exclude(r, p) /\ Exclude(p, r)
    BY <1>2 DEF Exclude
  <2>2. Level(p) <= Level(r)
    BY <1>2, <2>1 DEF LevelInv
  <2>3. Type(m) \in Kept /\ Type(d) \in Kept /\ d[2] = m[2] /\ r # p
    BY <1>2, BeforeFacts DEF Kept
  <2>4. Level(p) # Level(r)
    BY <2>1, <2>3, LevelApart
  <2>5. QED
    BY <1>1, <2>2, <2>4
<1>3. Moves(p, q, {m}, {}) /\ live' = live \cup {} /\ {m} \subseteq At(p) /\ Level(p) <= Level(q)
  BY <1>1 DEF Passes
<1>4. \A g \in {m} \cup {} : \A r \in Places : \A d \in At(r) :
         Exclude(r, q) /\ Before(d, g) /\ ~(r = p /\ d \in {m}) => Level(q) <= Level(r)
  BY <1>2
<1>5. QED
  BY <1>3, <1>4, OrderMoves

\* A message is destroyed, or released by one output.
LEMMA OrderLeaves ==
    ASSUME IInv, LevelInv, LaneInv, NEW p \in Places, NEW m, Leaves(p, m), live' \subseteq live,
           \/ m \notin live'
           \/ p[2] \in OutNodes /\ \A r \in Places : r[2] = p[2] => \A x \in At(r) : ~Before(x, m)
    PROVE  LevelInv' /\ LaneInv'
<1>1. \A r \in Places : \A x : x \in At(r)' <=> x \in At(r) /\ ~(r = p /\ x = m)
  BY DEF Leaves
<1>2. LevelInv'
  <2>1. SUFFICES ASSUME NEW a \in Places, NEW b \in Places, Exclude(a, b), NEW d \in At(a)', NEW g \in At(b)',
                        Before(d, g)
                 PROVE  Level(b) <= Level(a)
    BY DEF LevelInv, Exclude, Before, Level
  <2>2. QED
    BY <1>1, <2>1 DEF LevelInv
<1>3. LaneInv'
  <2>1. SUFFICES ASSUME NEW a \in Places, a[2] \in OutNodes, NEW d \in At(a)', NEW g \in live', Before(d, g)
                 PROVE  \E b \in Places : g \in At(b)' /\ Exclude(b, a)
    BY DEF LaneInv, Exclude, Before
  <2>2. d \in At(a) /\ g \in live
    BY <1>1
  <2>3. PICK b \in Places : g \in At(b) /\ Exclude(b, a)
    BY <2>1, <2>2 DEF LaneInv
  <2>4. CASE b = p /\ g = m
    BY <2>1, <2>2, <2>3, <2>4 DEF Exclude
  <2>5. QED
    BY <1>1, <2>3, <2>4
<1>4. QED
  BY <1>2, <1>3

LEMMA NotInPipes == IInv => \A r \in Places : \A m \in At(r) : Type(m) \in Kept => r[1] # "pipe"
BY KeptFacts

\* Only feedback pipes change.
LEMMA OrderQuiet ==
    ASSUME IInv, IInv', LevelInv, LaneInv, \A r \in Places : r[1] # "pipe" => At(r)' = At(r)
    PROVE  LevelInv' /\ LaneInv'
<1>1. \A r \in Places : \A m \in At(r) : Type(m) \in Kept => r[1] # "pipe"
  BY KeptFacts
<1>2. \A r \in Places : \A m \in At(r)' : Type(m) \in Kept => r[1] # "pipe"
  <2>1. (IInv => \A r \in Places : \A m \in At(r) : Type(m) \in Kept => r[1] # "pipe")'
    BY NotInPipes, PTL
  <2>2. QED
    BY <2>1 DEF Places, Kept, Type

<1>3. \A r \in Places : \A m : Type(m) \in Kept => (m \in At(r)' <=> m \in At(r))
  BY <1>1, <1>2
<1>4. LevelInv'
  <2>1. SUFFICES ASSUME NEW a \in Places, NEW b \in Places, Exclude(a, b), NEW d \in At(a)', NEW g \in At(b)',
                        Before(d, g)
                 PROVE  Level(b) <= Level(a)
    BY DEF LevelInv, Exclude, Before, Level
  <2>2. d \in At(a) /\ g \in At(b)
    BY <1>3, <2>1, BeforeFacts DEF Kept
  <2>3. QED
    BY <2>1, <2>2 DEF LevelInv
<1>5. LaneInv'
  <2>1. SUFFICES ASSUME NEW a \in Places, a[2] \in OutNodes, NEW d \in At(a)', NEW g \in live', Before(d, g)
                 PROVE  \E b \in Places : g \in At(b)' /\ Exclude(b, a)
    BY DEF LaneInv, Exclude, Before
  <2>2. Type(d) \in Kept /\ Type(g) \in Kept
    BY <2>1, BeforeFacts DEF Kept
  <2>3. PICK c \in Places : g \in At(c)'
    <3>1. \E c \in Places : g \in At(c)'
      BY <2>1 DEF IInv, CustodyInv, LiveInv
    <3>2. QED
      BY <3>1
  <2>4. d \in At(a) /\ g \in At(c)
    BY <1>3, <2>1, <2>2, <2>3
  <2>5. g \in live
    BY <2>4 DEF IInv, CustodyInv, LiveInv
  <2>6. PICK b \in Places : g \in At(b) /\ Exclude(b, a)
    BY <2>1, <2>4, <2>5 DEF LaneInv
  <2>7. QED
    BY <1>3, <2>2, <2>6

<1>6. QED
  BY <1>4, <1>5

\* The output manager gives its message to the outputs D.
LEMMA OrderSpreads ==
    ASSUME IInv, LevelInv, LaneInv, NEW m, NEW p, p = <<"hand", Mgr>>, At(p) = {m},
           NEW D \in SUBSET Outputs, Type(m) # "ipfix" => D = Outputs, Spreads(p, m, D), live' \subseteq live
    PROVE  LevelInv' /\ LaneInv'
<1>1. /\ p \in Places /\ p[2] = Mgr /\ Mgr \notin OutNodes
      /\ \A r \in Places : Level(r) \in Nat
      /\ \A o \in Outputs : <<"out", Out(o)>> \in Places /\ Out(o) \in OutNodes
                            /\ Level(<<"out", Out(o)>>) = Level(p) + 1
  <2>1. Mgr \in Nodes /\ Mgr \notin OutNodes
    BY SuccFacts, NodeFacts DEF Nodes, Readers, Movers
  <2>2. \A o \in Outputs : Out(o) \in OutNodes /\ Out(o) \in Nodes
    BY NodeFacts DEF Nodes, Readers
  <2>3. QED
    BY <2>1, <2>2, NextLevel, Levels, PlaceFacts
<1>2. \A r \in Places : \A x \in At(r)' :
         (x \in At(r) /\ ~(r = p /\ x = m)) \/ (x = m /\ \E o \in D : r = <<"out", Out(o)>>)
  BY DEF Spreads
<1>3. \A r \in Places : \A x \in At(r) : x \in At(r)' \/ (r = p /\ x = m)
  BY DEF Spreads
<1>4. \A o \in D : m \in At(<<"out", Out(o)>>)'
  BY <1>1 DEF Spreads
<1>5. \A r \in Places : Exclude(p, r) /\ Exclude(r, p)
  BY <1>1 DEF Exclude
<1>6. LevelInv'
  <2>1. SUFFICES ASSUME NEW a \in Places, NEW b \in Places, Exclude(a, b), NEW d \in At(a)', NEW g \in At(b)',
                        Before(d, g)
                 PROVE  Level(b) <= Level(a)
    BY DEF LevelInv, Exclude, Before, Level
  <2>2. CASE d \in At(a) /\ g \in At(b)
    BY <2>1, <2>2 DEF LevelInv
  <2>3. CASE d = m /\ g \in At(b) /\ \E o \in D : a = <<"out", Out(o)>>
    <3>1. Level(b) <= Level(p)
      BY <1>1, <1>5, <2>1, <2>3 DEF LevelInv
    <3>2. Level(a) = Level(p) + 1
      BY <1>1, <2>3
    <3>3. QED
      BY <1>1, <3>1, <3>2
  <2>4. CASE g = m /\ d \in At(a) /\ ~(a = p /\ d = m) /\ \E o \in D : b = <<"out", Out(o)>>
    <3>1. a # p
      BY <2>4
    <3>2. Level(p) <= Level(a)
      BY <1>1, <1>5, <2>1, <2>4 DEF LevelInv
    <3>3. Level(p) # Level(a)
      <4>1. Type(m) \in Kept /\ Type(d) \in Kept /\ d[2] = m[2]
        BY <2>1, <2>4, BeforeFacts DEF Kept
      <4>2. QED
        BY <1>1, <1>5, <2>4, <3>1, <4>1, LevelApart
    <3>4. Level(b) = Level(p) + 1
      BY <1>1, <2>4
    <3>5. QED
      BY <1>1, <3>2, <3>3, <3>4
  <2>5. d # g
    BY <2>1, BeforeFacts
  <2>6. QED
    BY <1>2, <2>2, <2>3, <2>4, <2>5
<1>7. LaneInv'
  <2>1. SUFFICES ASSUME NEW a \in Places, a[2] \in OutNodes, NEW d \in At(a)', NEW g \in live', Before(d, g)
                 PROVE  \E b \in Places : g \in At(b)' /\ Exclude(b, a)
    BY DEF LaneInv, Exclude, Before
  <2>2. g \in live /\ d # g
    BY <2>1, BeforeFacts
  <2>3. CASE d = m
    <3>1. PICK b \in Places : g \in At(b)
      BY <2>2 DEF IInv, CustodyInv, LiveInv
    <3>2. Level(b) <= Level(p)
      BY <1>1, <1>5, <2>1, <2>3, <3>1 DEF LevelInv
    <3>3. b[2] \notin OutNodes
      <4>1. SUFFICES ASSUME b[2] \in OutNodes PROVE FALSE
        OBVIOUS
      <4>2. Level(<<"out", b[2]>>) = Level(p) + 1 /\ Level(<<"ring", b[2]>>) = Level(p) + 2
            /\ Level(<<"hand", b[2]>>) = Level(p) + 3
        <5>1. b[2] \in Readers /\ \E o \in Outputs : b[2] = Out(o)
          BY <4>1, NodeFacts DEF Readers
        <5>2. QED
          BY <1>1, <4>1, <5>1, NextLevel
      <4>3. b \in {<<"out", b[2]>>, <<"ring", b[2]>>, <<"hand", b[2]>>}
        <5>1. Type(g) \in Kept
          BY <2>1, BeforeFacts DEF Kept
        <5>2. QED
          BY <3>1, <5>1, KeptFacts
      <4>4. QED
        BY <1>1, <3>2, <4>2, <4>3
    <3>4. g \in At(b)' /\ Exclude(b, a)
      BY <1>3, <2>2, <2>3, <3>1, <3>3 DEF Exclude
    <3>5. QED
      BY <3>4
  <2>4. CASE d # m
    <3>1. d \in At(a)
      BY <1>2, <2>4
    <3>2. PICK b \in Places : g \in At(b) /\ Exclude(b, a)
      BY <2>1, <2>2, <3>1 DEF LaneInv
    <3>3. CASE b = p /\ g = m
      <4>1. Type(m) # "ipfix"
        BY <2>1, <3>3, BeforeFacts
      <4>2. PICK o \in Outputs : a[2] = Out(o)
        BY <2>1, NodeFacts
      <4>3. m \in At(<<"out", Out(o)>>)' /\ Exclude(<<"out", Out(o)>>, a)
        BY <1>4, <4>1, <4>2 DEF Exclude
      <4>4. QED
        BY <1>1, <3>3, <4>3
    <3>4. QED
      BY <1>3, <3>2, <3>3
  <2>5. QED
    BY <2>3, <2>4
<1>8. QED
  BY <1>6, <1>7

-----------------------------------------------------------------------------
(* In a ring and among the pushes of a thread.                               *)

LEMMA LineTail ==
    ASSUME NEW S, NEW s \in Seq(S), s # <<>>
    PROVE  /\ InLine(s) => InLine(Tail(s)) /\ \A x \in ToSet(s) : ~Before(x, Head(s))
           /\ PushLine(s) => PushLine(Tail(s)) /\ \A k \in DOMAIN s : ~Before(s[k][2], Head(s)[2])
<1>1. /\ Head(s) = s[1] /\ 1 \in DOMAIN s /\ DOMAIN s = 1 .. Len(s) /\ Len(s) \in Nat
      /\ DOMAIN Tail(s) = 1 .. Len(s) - 1
      /\ \A k \in DOMAIN Tail(s) : k \in Nat /\ k + 1 \in DOMAIN s /\ Tail(s)[k] = s[k + 1]
      /\ \A k \in DOMAIN s : k \in Nat /\ (k = 1 \/ 1 < k)
  OBVIOUS
<1>2. \A d : ~Before(d, d)
  BY BeforeFacts
<1>3. ASSUME InLine(s) PROVE InLine(Tail(s)) /\ \A x \in ToSet(s) : ~Before(x, Head(s))
  <2>1. \A j, k \in DOMAIN Tail(s) : j < k => ~Before(Tail(s)[k], Tail(s)[j])
    <3>1. SUFFICES ASSUME NEW j \in DOMAIN Tail(s), NEW k \in DOMAIN Tail(s), j < k
                   PROVE  ~Before(Tail(s)[k], Tail(s)[j])
      OBVIOUS
    <3>2. j + 1 < k + 1 /\ j + 1 \in DOMAIN s /\ k + 1 \in DOMAIN s /\ Tail(s)[j] = s[j + 1] /\ Tail(s)[k] = s[k + 1]
      BY <1>1, <3>1
    <3>3. QED
      BY <1>3, <3>2 DEF InLine
  <2>2. \A k \in DOMAIN s : ~Before(s[k], s[1])
    BY <1>1, <1>2, <1>3 DEF InLine
  <2>3. QED
    BY <1>1, <2>1, <2>2 DEF InLine, ToSet
<1>4. ASSUME PushLine(s) PROVE PushLine(Tail(s)) /\ \A k \in DOMAIN s : ~Before(s[k][2], Head(s)[2])
  <2>1. \A j, k \in DOMAIN Tail(s) : j < k => ~Before(Tail(s)[k][2], Tail(s)[j][2])
    <3>1. SUFFICES ASSUME NEW j \in DOMAIN Tail(s), NEW k \in DOMAIN Tail(s), j < k
                   PROVE  ~Before(Tail(s)[k][2], Tail(s)[j][2])
      OBVIOUS
    <3>2. j + 1 < k + 1 /\ j + 1 \in DOMAIN s /\ k + 1 \in DOMAIN s /\ Tail(s)[j] = s[j + 1] /\ Tail(s)[k] = s[k + 1]
      BY <1>1, <3>1
    <3>3. QED
      BY <1>4, <3>2 DEF PushLine
  <2>2. \A k \in DOMAIN s : ~Before(s[k][2], s[1][2])
    BY <1>1, <1>2, <1>4 DEF PushLine
  <2>3. QED
    BY <1>1, <2>1, <2>2 DEF PushLine
<1>5. QED
  BY <1>3, <1>4

LEMMA LineAppend ==
    ASSUME NEW S, NEW s \in Seq(S), NEW x \in S, InLine(s), \A y \in ToSet(s) : ~Before(x, y)
    PROVE  InLine(Append(s, x))
<1>1. /\ \A k \in 1 .. Len(s) : Append(s, x)[k] = s[k]
      /\ Append(s, x)[Len(s) + 1] = x /\ Len(s) \in Nat
      /\ DOMAIN Append(s, x) = 1 .. Len(s) + 1 /\ DOMAIN s = 1 .. Len(s)
  OBVIOUS
<1>2. SUFFICES ASSUME NEW j \in DOMAIN Append(s, x), NEW k \in DOMAIN Append(s, x), j < k
               PROVE  ~Before(Append(s, x)[k], Append(s, x)[j])
  BY DEF InLine
<1>3. j \in DOMAIN s /\ Append(s, x)[j] = s[j]
  BY <1>1, <1>2
<1>4. CASE k \in DOMAIN s
  BY <1>1, <1>2, <1>3, <1>4 DEF InLine
<1>5. CASE k = Len(s) + 1
  BY <1>1, <1>3, <1>5 DEF ToSet
<1>6. QED
  BY <1>1, <1>4, <1>5

\* Data comes first.
LEMMA LineOf ==
    ASSUME NEW n \in InNodes \cup Movers, n # Mgr, NEW ms \in Seq(Msgs), \A k \in DOMAIN ms : k = 1 \/ ~IsData(ms[k])
    PROVE  PushLine(Push(n, ms))
<1>1. DOMAIN ms = 1 .. Len(ms) /\ Len(ms) \in Nat
  OBVIOUS
<1>2. DOMAIN Push(n, ms) = DOMAIN ms /\ \A k \in DOMAIN ms : Push(n, ms)[k][2] = ms[k]
  BY <1>1 DEF Push
<1>3. SUFFICES ASSUME NEW j \in DOMAIN ms, NEW k \in DOMAIN ms, j < k PROVE ~Before(ms[k], ms[j])
  BY <1>2 DEF PushLine
<1>4. k # 1
  BY <1>1, <1>3
<1>5. QED
  BY <1>4 DEF Before, IsData

LEMMA LineStart ==
    ASSUME IInv, LineInv, NEW n \in InNodes \cup Movers, NEW m, NEW ps, NEW code, Start(n, m, ps, code),
           PushLine(ps), ring' = ring
    PROVE  LineInv'
<1>1. n \in Nodes /\ out \in [Nodes -> Seq(Readers \X Msgs)]
  BY DEF IInv, CustodyInv, ThreadInv, Nodes, Readers
<1>2. \A k \in Nodes : out'[k] = IF k = n THEN ps ELSE out[k]
  BY <1>1 DEF Start
<1>3. QED
  BY <1>2 DEF LineInv, InLine, PushLine, Before

LEMMA LinePop ==
    ASSUME IInv, LineInv, NEW n \in Readers, ring[n] # <<>>, ring' = [ring EXCEPT ![n] = Tail(@)], out' = out
    PROVE  LineInv' /\ \A x \in At(<<"ring", n>>) : ~Before(x, Head(ring[n]))
<1>1. ring \in [Readers -> Seq(Msgs)] /\ n \in Nodes
  BY DEF IInv, CustodyInv, PipesInv, Nodes
<1>2. ring[n] \in Seq(Msgs) /\ InLine(ring[n])
  BY <1>1 DEF LineInv
<1>3. InLine(Tail(ring[n])) /\ \A x \in ToSet(ring[n]) : ~Before(x, Head(ring[n]))
  BY <1>2, LineTail
<1>4. At(<<"ring", n>>) = ToSet(ring[n])
  BY <1>1, AtFacts DEF InRing
<1>5. \A k \in Readers : InLine(ring'[k])
  BY <1>1, <1>3 DEF LineInv
<1>6. \A k \in Nodes : PushLine(out'[k])
  BY DEF LineInv
<1>7. LineInv'
  BY <1>5, <1>6 DEF LineInv, InLine, PushLine, Before
<1>8. QED
  BY <1>3, <1>4, <1>7

LEMMA LineKept ==
    ASSUME LineInv, UNCHANGED <<ring, out>> PROVE LineInv'
  BY DEF LineInv, InLine, PushLine, Before

-----------------------------------------------------------------------------
(* Steps of the threads.                                                     *)

LEMMA PushOneMoves ==
    ASSUME IInv, NEW n \in InNodes \cup Movers, PushOne(n),
           NEW to \in Readers, NEW m \in Msgs, Head(out[n]) = <<to, m>>
    PROVE  /\ IF n = Mgr THEN to \in OutNodes ELSE to = Succ(n)
           /\ Moves(PushPlace(n, to), <<"ring", to>>, {m}, {})
           /\ m \in At(PushPlace(n, to))
BY PushOneCustody DEF IInv

LEMMA OrderOfPush ==

    ASSUME IInv, OrderInv, NEW n \in InNodes \cup Movers, PushOne(n)
    PROVE  OrderInv'
<1>1. CustodyInv /\ ThreadInv /\ PipesInv /\ pc[n] = "push" /\ n \in Nodes
  BY DEF IInv, CustodyInv, PushOne, Nodes, Readers
<1>2. PICK to \in Readers, m \in Msgs : Head(out[n]) = <<to, m>>
  BY <1>1, PushHead
<1> DEFINE p == PushPlace(n, to)
           q == <<"ring", to>>
<1>3. /\ IF n = Mgr THEN to \in OutNodes ELSE to = Succ(n)
      /\ Moves(p, q, {m}, {})
      /\ m \in At(p)
  BY <1>2, PushOneMoves

<1>4. live' = live /\ ring' = [ring EXCEPT ![to] = Append(@, m)] /\ Start(n, cur[n], Tail(out[n]), rc[n])
  <2>1. Head(out[n])[1] = to /\ Head(out[n])[2] = m
    BY <1>2
  <2>2. QED
    BY <2>1 DEF PushOne
<1>5.
 p \in Places /\ q \in Places
  BY <1>1, <1>3, PlaceFacts DEF PushPlace, Nodes
<1>6. /\ Level(q) = Level(p) + 1 /\ Level(p) \in Nat
      /\ p[2] = q[2] \/ (p[2] \notin OutNodes /\ q[2] \notin OutNodes)
  <2>1. CASE n = Mgr
    <3>1. p = <<"out", to>> /\ to \in OutNodes /\ to \in Nodes
      BY <1>3, <2>1 DEF PushPlace, Nodes
    <3>2. Level(<<"ring", to>>) = Level(<<"out", to>>) + 1
      BY <3>1, NextLevel
    <3>3. Level(<<"out", to>>) \in Nat
      BY <3>1, Levels
    <3>4. QED
      BY <3>1, <3>2, <3>3
  <2>2. CASE n # Mgr
    <3>1. p = <<"out", n>> /\ to = Succ(n) /\ n \notin OutNodes /\ to \notin OutNodes
      BY <1>3, <2>2, SuccFacts, NodeFacts DEF PushPlace, Readers, Movers
    <3>2. Level(<<"ring", to>>) = Level(<<"out", n>>) + 1
      BY <2>2, <3>1, NextLevel
    <3>3. Level(<<"out", n>>) \in Nat
      BY <1>1, Levels
    <3>4. QED
      BY <3>1, <3>2, <3>3
  <2>3. QED
    BY <2>1, <2>2
<1>7. out[n] \in Seq(Readers \X Msgs) /\ out[n] # <<>> /\ PushLine(out[n])
  BY <1>1 DEF ThreadInv, OrderInv, LineInv
<1>8. PushLine(Tail(out[n])) /\ \A k \in DOMAIN out[n] : ~Before(out[n][k][2], m)
  BY <1>2, <1>7, LineTail
<1>9. \A x \in At(p) : ~Before(x, m)
  <2>1. CASE n = Mgr
    <3>1. At(p) = Toward(to, out[n])
      BY <1>3, <2>1, AtFacts DEF PushPlace, Nodes, ToPush
    <3>2. \A x \in At(p) : \E k \in DOMAIN out[n] : out[n][k][2] = x
      BY <3>1 DEF Toward
    <3>3. QED
      BY <1>8, <3>2
  <2>2. CASE n # Mgr
    <3>1. n \notin OutNodes
      BY NodeFacts DEF Readers, Movers
    <3>2. At(p) = Pushed(out[n])
      BY <1>1, <2>2, <3>1, AtFacts DEF PushPlace, ToPush
    <3>3. QED
      BY <1>8, <3>2 DEF Pushed
  <2>3. QED
    BY <2>1, <2>2
<1>10. LevelInv' /\ LaneInv'
  <2>1. Passes(p, q, m)
    BY <1>3, <1>4 DEF Passes
  <2> HIDE DEF p, q
  <2>2. QED
    BY <1>3, <1>5, <1>6, <1>9, <2>1, OrderPasses DEF OrderInv
<1>11. LineInv'
  <2>1. \A y \in ToSet(ring[to]) : ~Before(m, y)
    <3>1. SUFFICES ASSUME NEW y \in ToSet(ring[to]), Before(m, y) PROVE FALSE
      OBVIOUS
    <3>2. y \in At(q)
      BY AtFacts DEF InRing, Nodes
    <3>3. Exclude(p, q)
      BY <1>6 DEF Exclude
    <3>4. Level(q) <= Level(p)
      BY <1>3, <1>5, <3>1, <3>2, <3>3 DEF OrderInv, LevelInv
    <3>5. QED
      BY <1>6, <3>4
  <2>2. ring \in [Readers -> Seq(Msgs)] /\ InLine(ring[to])
    BY <1>1 DEF PipesInv, OrderInv, LineInv
  <2>3. InLine(Append(ring[to], m))
    BY <2>1, <2>2, LineAppend
  <2>4. \A k \in Readers : InLine(ring'[k])
    BY <1>4, <2>2, <2>3 DEF OrderInv, LineInv
  <2>5. \A k \in Nodes : out'[k] = IF k = n THEN Tail(out[n]) ELSE out[k]
    BY <1>1, <1>4 DEF Start, ThreadInv
  <2>6. \A k \in Nodes : PushLine(out'[k])
    BY <1>8, <2>5 DEF OrderInv, LineInv
  <2>7. QED
    BY <2>4, <2>6 DEF LineInv, InLine, PushLine, Before
<1>12. QED
  BY <1>10, <1>11 DEF OrderInv

LEMMA OrderOfMoverPop ==
    ASSUME IInv, OrderInv, NEW n \in Movers, MoverPop(n)
    PROVE  OrderInv'
<1>1. ring[n] # <<>> /\ ring' = [ring EXCEPT ![n] = Tail(@)] /\ out' = out /\ n \in Readers /\ n \in Nodes
  BY DEF MoverPop, Readers, Nodes
<1>2. LineInv' /\ \A x \in At(<<"ring", n>>) : ~Before(x, Head(ring[n]))
  BY <1>1, LinePop DEF OrderInv
<1> DEFINE p == <<"ring", n>>
           q == <<"hand", n>>
           m == Head(ring[n])
<1>3. \/ Leaves(p, m) /\ live' = live \ {m}
      \/ Passes(p, q, m)
  BY PopStep
<1>4. p \in Places /\ q \in Places /\ Level(q) = Level(p) + 1 /\ p[2] = q[2]
  BY <1>1, PlaceFacts, NextLevel
<1>5. m \in At(p)
  <2>1. ring[n] \in Seq(Msgs)
    BY <1>1 DEF IInv, CustodyInv, PipesInv
  <2>2. m \in ToSet(ring[n])
    BY <1>1, <2>1, TailFacts
  <2>3. QED
    BY <1>1, <2>2, AtFacts DEF InRing
<1>6. LevelInv /\ LaneInv /\ \A x \in At(p) : ~Before(x, m)
  BY <1>2 DEF OrderInv
<1> HIDE DEF p, q, m
<1>7. LevelInv' /\ LaneInv'
  <2>1. CASE Leaves(p, m) /\ live' = live \ {m}
    BY <1>4, <1>6, <2>1, OrderLeaves
  <2>2. CASE Passes(p, q, m)
    BY <1>4, <1>5, <1>6, <2>2, OrderPasses
  <2>3. QED
    BY <1>3, <2>1, <2>2
<1>8. QED
  BY <1>2, <1>7 DEF OrderInv

LEMMA OrderOfOutPop ==
    ASSUME IInv, OrderInv, NEW n \in OutNodes, OutPop(n)
    PROVE  OrderInv'
<1>1. ring[n] # <<>> /\ ring' = [ring EXCEPT ![n] = Tail(@)] /\ out' = out /\ n \in Readers /\ n \in Nodes
  BY DEF OutPop, Readers, Nodes
<1>2. LineInv' /\ \A x \in At(<<"ring", n>>) : ~Before(x, Head(ring[n]))
  BY <1>1, LinePop DEF OrderInv
<1> DEFINE p == <<"ring", n>>
           q == <<"hand", n>>
           m == Head(ring[n])
<1>3. Passes(p, q, m)
  BY OutPopStep
<1>4. p \in Places /\ q \in Places /\ Level(q) = Level(p) + 1 /\ p[2] = q[2]
  BY <1>1, PlaceFacts, NextLevel
<1>5. m \in At(p)
  <2>1. ring[n] \in Seq(Msgs)
    BY <1>1 DEF IInv, CustodyInv, PipesInv
  <2>2. m \in ToSet(ring[n])
    BY <1>1, <2>1, TailFacts
  <2>3. QED
    BY <1>1, <2>2, AtFacts DEF InRing
<1>6. LevelInv /\ LaneInv /\ \A x \in At(p) : ~Before(x, m)
  BY <1>2 DEF OrderInv
<1> HIDE DEF p, q, m
<1>7. LevelInv' /\ LaneInv'
  BY <1>3, <1>4, <1>5, <1>6, OrderPasses
<1>8. QED
  BY <1>2, <1>7 DEF OrderInv

\* What a thread has in its hands is one message.
LEMMA HandFacts ==
    ASSUME IInv, NEW n \in Movers, n # Mgr, pc[n] = "decide"
    PROVE  /\ <<"hand", n>> \in Places /\ <<"out", n>> \in Places
           /\ At(<<"hand", n>>) = {cur[n]} /\ cur[n] \in Msgs
           /\ Level(<<"out", n>>) = Level(<<"hand", n>>) + 1 /\ Level(<<"hand", n>>) \in Nat
           /\ n \notin OutNodes /\ n \in Nodes
<1>1. n \in Nodes /\ n \notin OutNodes
  BY NodeFacts DEF Nodes, Readers, Movers
<1>2. cur[n] \in Msgs
  BY <1>1 DEF IInv, CustodyInv, ThreadInv
<1>3. At(<<"hand", n>>) = {cur[n]}
  BY <1>1, AtFacts DEF Holding
<1>4. Level(<<"out", n>>) = Level(<<"hand", n>>) + 1
  BY NextLevel
<1>5. Level(<<"hand", n>>) \in Nat
  BY <1>1, Levels
<1>6. QED
  BY <1>1, <1>2, <1>3, <1>4, <1>5, PlaceFacts

LEMMA OrderOfHand ==
    ASSUME IInv, OrderInv, NEW n \in Movers, n # Mgr, pc[n] = "decide",
           Passes(<<"hand", n>>, <<"out", n>>, cur[n])
    PROVE  LevelInv' /\ LaneInv'
<1> DEFINE p == <<"hand", n>>
           q == <<"out", n>>
<1>1. /\ p \in Places /\ q \in Places /\ cur[n] \in At(p) /\ Passes(p, q, cur[n]) /\ Level(q) = Level(p) + 1
      /\ p[2] = q[2] /\ \A x \in At(p) : x = cur[n]
  BY HandFacts
<1>2. \A x \in At(p) : ~Before(x, cur[n])
  BY <1>1, BeforeFacts
<1> HIDE DEF p, q
<1>3. QED
  BY <1>1, <1>2, OrderPasses DEF OrderInv

\* The parser passes garbage behind a close message, or in front of its terminate
\* message.
LEMMA OrderOfGarbage ==
    ASSUME IInv, TermInv, OrderInv, NEW i \in Inputs, NEW n, n = Parser(i), pc[n] = "decide",
           NEW g \in {TemplateGarbage(i), ParserGarbage(i)},
           IF g = TemplateGarbage(i) THEN cur[n] = Close(i) ELSE Type(cur[n]) = "term",
           Moves(<<"hand", n>>, <<"out", n>>, {cur[n]}, {g}), live' = live \cup {g}
    PROVE  LevelInv' /\ LaneInv'
<1> DEFINE p == <<"hand", n>>
           q == <<"out", n>>
           m == cur[n]
<1>1. n \in Parsers /\ n \in Movers /\ n # Mgr /\ n[2] = i
  BY NodeFacts, SuccFacts DEF Movers
<1>2. /\ p \in Places /\ q \in Places /\ At(p) = {m} /\ m \in Msgs
      /\ Level(q) = Level(p) + 1 /\ Level(p) \in Nat /\ n \notin OutNodes /\ n \in Nodes
      /\ p[2] = n /\ q[2] = n
  BY <1>1, HandFacts
<1>3. Type(g) = "garbage" /\ g[2] = i
  BY DEF TemplateGarbage, ParserGarbage, Type
<1>4. \A r \in Places : Level(r) \in Nat
  BY Levels, PlaceFacts
<1>5. ASSUME NEW r \in Places, NEW d \in At(r), Before(d, m), ~(r = p /\ d \in {m}) PROVE Level(q) <= Level(r)
  <2>1. Exclude(r, p) /\ Exclude(p, r)
    BY <1>2 DEF Exclude
  <2>2. Level(p) <= Level(r)
    BY <1>2, <1>5, <2>1 DEF OrderInv, LevelInv
  <2>3. Type(m) \in Kept /\ Type(d) \in Kept /\ d[2] = m[2] /\ r # p
    BY <1>2, <1>5, BeforeFacts DEF Kept
  <2>4. Level(p) # Level(r)
    BY <1>2, <2>1, <2>3, LevelApart
  <2>5. QED
    BY <1>2, <1>4, <2>2, <2>4
<1>6. ASSUME NEW r \in Places, NEW d \in At(r), Before(d, g), ~(r = p /\ d \in {m}) PROVE Level(q) <= Level(r)
  <2>1. d[2] = i /\ IsData(d) /\ d \in Msgs
    <3>1. d \in Msgs
      BY DEF IInv, CustodyInv, LiveInv
    <3>2. QED
      BY <1>3, <1>6, <3>1 DEF Before
  <2>2. CASE g = TemplateGarbage(i)
    <3>1. m = Close(i) /\ Type(m) = "close" /\ m[2] = i
      BY <2>2 DEF Close, Type
    <3>2. CASE Type(d) = "ipfix"
      <4>1. Before(d, m)
        BY <2>1, <3>1, <3>2 DEF Before
      <4>2. QED
        BY <1>5, <1>6, <4>1
    <3>3. CASE Type(d) = "close"
      <4>1. d = m
        BY <2>1, <3>1, <3>3, MsgFacts
      <4>2. Exclude(r, p)
        BY <1>2 DEF Exclude
      <4>3. r = p
        BY <1>2, <2>1, <4>1, <4>2 DEF IInv, CustodyInv, UniqueInv
      <4>4. QED
        BY <1>6, <4>1, <4>3
    <3>4. QED
      BY <2>1, <3>2, <3>3 DEF IsData
  <2>3. CASE g # TemplateGarbage(i)
    <3>1. Type(m) = "term"
      BY <2>3
    <3>2. ring[n] = <<>> /\ \A w \in Preds(n) : Ended(w, n)
      BY <1>1, <3>1 DEF TermInv, Finished, Readers
    <3>3. /\ r[1] \in {"ring", "hand", "out"} /\ r = <<r[1], r[2]>> /\ r[2] \in Nodes
          /\ r[2] \in InNodes => r[1] = "out"
          /\ r[2] \in InNodes \cup Parsers => r[2][2] = i
      <4>1. Type(d) \in Kept
        BY <2>1 DEF IsData, Kept
      <4>2. QED
        BY <2>1, <4>1, KeptFacts
    <3>4. r[2] \notin InNodes
      <4>1. SUFFICES ASSUME r[2] \in InNodes PROVE FALSE
        OBVIOUS
      <4>2. r = <<"out", In(i)>> /\ In(i) \in InNodes /\ In(i) \in Nodes /\ In(i) # Mgr /\ Succ(In(i)) = n
        BY <3>3, <4>1, NodeFacts, SuccFacts DEF Nodes, Readers, Movers
      <4>3. In(i) \in Preds(n)
        BY <1>1, <4>2, PredFacts
      <4>4. \A k \in DOMAIN out[In(i)] : out[In(i)][k][1] # n
        BY <3>2, <4>3 DEF Ended
      <4>5. \A k \in DOMAIN out[In(i)] : out[In(i)][k][1] = n
        BY <4>2 DEF IInv, CustodyInv, ThreadInv, Targets
      <4>6. d \in Pushed(out[In(i)])
        <5>1. In(i) \notin OutNodes
          BY <4>2, NodeFacts DEF Readers
        <5>2. QED
          BY <1>6, <4>2, <5>1, AtFacts DEF ToPush
      <4>7. QED
        BY <4>4, <4>5, <4>6 DEF Pushed
    <3>5. CASE r[2] \in Parsers
      <4>1. r[2] = n
        BY <3>3, <3>5, NodeFacts
      <4>2. r[1] # "ring"
        <5>1. SUFFICES ASSUME r[1] = "ring" PROVE FALSE
          OBVIOUS
        <5>2. d \in InRing(n) /\ n \in Readers
          BY <1>1, <1>2, <1>6, <3>3, <4>1, <5>1, AtFacts DEF Readers
        <5>3. QED
          BY <3>2, <5>2, EmptyFacts DEF InRing
      <4>3. r[1] # "hand"
        <5>1. SUFFICES ASSUME r = p PROVE FALSE
          BY <3>3, <4>1
        <5>2. d = m
          BY <1>2, <1>6, <5>1
        <5>3. QED
          BY <1>6, <5>1, <5>2
      <4>4. r = q
        BY <3>3, <4>1, <4>2, <4>3
      <4>5. QED
        BY <1>4, <4>4
    <3>6. CASE r[2] \in Inters \cup OutNodes
      <4>1. Place(r[2]) \in Nat /\ Place(r[2]) >= 3
        BY <3>6, PlaceNumbers
      <4>2. Level(r) >= 3 * Place(r[2])
        <5>1. r[1] = "ring" => Level(r) = 3 * Place(r[2]) + 1
          BY <3>3, Levels
        <5>2. r[1] = "hand" => Level(r) = 3 * Place(r[2]) + 2
          BY <3>3, Levels
        <5>3. r[1] = "out" => Level(r) = 3 * Place(r[2]) + 3 \/ Level(r) = 3 * Place(r[2])
          BY <3>3, Levels
        <5>4. QED
          BY <3>3, <4>1, <5>1, <5>2, <5>3
      <4>3. Level(q) = 9
        <5>1. Place(n) = 2 /\ Level(q) = 3 * Place(n) + 3
          BY <1>1, <1>2, Levels, PlaceNumbers
        <5>2. QED
          BY <5>1
      <4>4. QED
        BY <1>4, <4>1, <4>2, <4>3
    <3>7. QED
      BY <3>3, <3>4, <3>5, <3>6 DEF Nodes, Readers, Movers
  <2>4. QED
    BY <2>2, <2>3
<1>7. Moves(p, q, {m}, {g}) /\ live' = live \cup {g} /\ {m} \subseteq At(p) /\ Level(p) <= Level(q)
  BY <1>2
<1>8. \A x \in {m} \cup {g} : \A r \in Places : \A d \in At(r) :
         Exclude(r, q) /\ Before(d, x) /\ ~(r = p /\ d \in {m}) => Level(q) <= Level(r)
  BY <1>5, <1>6
<1>9. \A x \in {g} : \A y \in live : ~Before(x, y)
  BY <1>3, BeforeFacts
<1>10. p[2] \notin OutNodes /\ q[2] \notin OutNodes
  BY <1>2
<1> HIDE DEF p, q, m
<1>11. QED
  BY <1>2, <1>7, <1>8, <1>9, <1>10, OrderMoves DEF OrderInv

LEMMA LinePushes ==
    ASSUME IInv, LineInv, NEW n \in InNodes \cup Movers, n # Mgr, NEW m, NEW ms \in Seq(Msgs), NEW code,
           Start(n, m, Push(n, ms), code), ring' = ring, \A k \in DOMAIN ms : k = 1 \/ ~IsData(ms[k])
    PROVE  LineInv'
<1>1. PushLine(Push(n, ms))
  BY LineOf
<1>2. QED
  BY <1>1, LineStart

LEMMA LineOfMover ==
    ASSUME IInv, LineInv, NEW n \in Movers,
           MoverPass(n) \/ MoverTerm(n) \/ (n \in Parsers /\ ParserProcess(n[2])) \/ InterProcess(n)
    PROVE  LineInv'
<1> DEFINE m == cur[n]
<1>1. n # Mgr /\ pc[n] = "decide" /\ ring' = ring
  <2>1. n \in Parsers => n = Parser(n[2]) /\ n # Mgr
    BY NodeFacts, SuccFacts
  <2>2. QED
    BY <2>1 DEF MoverPass, MoverTerm, ParserProcess, InterProcess
<1>2. n \in InNodes \cup Movers /\ n \in Nodes /\ m \in Msgs
  BY <1>1 DEF Nodes, Readers, IInv, CustodyInv, ThreadInv
<1>3. ASSUME NEW code, Start(n, m, Push(n, <<m>>), code) PROVE LineInv'
  <2>1. <<m>> \in Seq(Msgs) /\ \A k \in DOMAIN <<m>> : k = 1
    BY <1>2
  <2>2. QED
    BY <1>1, <1>2, <1>3, <2>1, LinePushes
<1>4. ASSUME NEW a \in Msgs, NEW b \in Msgs, ~IsData(b), NEW code, Start(n, m, Push(n, <<a, b>>), code) PROVE LineInv'
  <2>1. <<a, b>> \in Seq(Msgs) /\ \A k \in DOMAIN <<a, b>> : k = 1 \/ ~IsData(<<a, b>>[k])
    BY <1>4
  <2>2. QED
    BY <1>1, <1>2, <1>4, <2>1, LinePushes
<1>5. CASE MoverPass(n)
  BY <1>3, <1>5 DEF MoverPass
<1>6. CASE InterProcess(n)
  BY <1>3, <1>6 DEF InterProcess
<1>7. CASE n \in Parsers /\ ParserProcess(n[2])
  <2> DEFINE g == TemplateGarbage(n[2])
  <2>1. n = Parser(n[2]) /\ n[2] \in Inputs
    BY <1>7, NodeFacts
  <2>2. Start(n, m, Push(n, ParserOutput(m, IF Type(m) = "close" /\ knows[n[2]] THEN <<g>> ELSE <<>>)), "ok")
    BY <1>7, <2>1 DEF ParserProcess
  <2>3. g \in Msgs /\ ~IsData(g)
    <3>1. Type(g) = "garbage"
      BY DEF TemplateGarbage, Type
    <3>2. QED
      BY <2>1, <3>1, MsgFacts DEF IsData
  <2> HIDE DEF g
  <2>4. <<m>> \o <<g>> = <<m, g>> /\ <<m>> \o <<>> = <<m>>
    BY <1>2, <2>3, JoinFacts
  <2>5. Start(n, m, Push(n, <<m, g>>), "ok") \/ Start(n, m, Push(n, <<m>>), "ok")
    BY <2>2, <2>4 DEF ParserOutput
  <2>6. QED
    BY <1>2, <1>3, <1>4, <2>3, <2>5
<1>8. CASE MoverTerm(n)
  <2>1. Type(m) = "term" /\ Start(n, m, Push(n, (IF n \in Parsers THEN <<ParserGarbage(n[2])>> ELSE <<>>) \o <<m>>), "ok")
    BY <1>8 DEF MoverTerm
  <2>2. CASE n \in Parsers
    <3> DEFINE g == ParserGarbage(n[2])
    <3>1. g \in Msgs /\ ~IsData(m)
      BY <2>1, <2>2, NodeFacts, MsgFacts DEF IsData
    <3> HIDE DEF g
    <3>2. <<g>> \o <<m>> = <<g, m>>
      BY <1>2, <3>1, JoinFacts
    <3>3. Start(n, m, Push(n, <<g, m>>), "ok")
      BY <2>1, <2>2, <3>2 DEF g
    <3>4. QED
      BY <1>2, <1>4, <3>1, <3>3
  <2>3. CASE n \notin Parsers
    <3>1. <<>> \o <<m>> = <<m>>
      BY <1>2
    <3>2. QED
      BY <1>3, <2>1, <2>3, <3>1
  <2>4. QED
    BY <2>2, <2>3
<1>9. QED
  BY <1>5, <1>6, <1>7, <1>8

LEMMA LineOfInput ==
    ASSUME IInv, LineInv, NEW i \in Inputs, InputPipe(i) \/ InputGet(i)
    PROVE  LineInv'
<1> DEFINE n == In(i)
           c == Close(i)
           g == SessionGarbage(i)
<1>1. n \in InNodes \cup Movers /\ n # Mgr /\ ring' = ring
  BY NodeFacts, SuccFacts DEF Readers, Movers, InputPipe, InputGet
<1>2. c \in Msgs /\ g \in Msgs /\ ~IsData(g)
  <2>1. Type(g) = "garbage"
    BY DEF SessionGarbage, Type
  <2>2. QED
    BY <2>1, MsgFacts DEF IsData
<1>3. CloseAll(i) = <<>> \/ CloseAll(i) = <<c, g>>
  BY DEF CloseAll
<1> HIDE DEF c, g
<1>4. ASSUME NEW ms \in Seq(Msgs), \A k \in DOMAIN ms : k = 1 \/ ~IsData(ms[k]), NEW m, NEW code,
             Start(n, m, Push(n, ms), code)
      PROVE  LineInv'
  BY <1>1, <1>4, LinePushes
<1>5. ASSUME NEW x \in Msgs PROVE <<x>> \in Seq(Msgs) /\ \A k \in DOMAIN <<x>> : k = 1
  OBVIOUS
<1>6. <<c, g>> \in Seq(Msgs) /\ \A k \in DOMAIN <<c, g>> : k = 1 \/ ~IsData(<<c, g>>[k])
  BY <1>2
<1>7. <<>> \in Seq(Msgs) /\ DOMAIN <<>> = {}
  OBVIOUS
<1>8. CASE InputPipe(i)
  <2>1. PICK m \in Msgs : m = Head(fpipe[i])
    BY <1>8, TailFacts DEF InputPipe, IInv, CustodyInv, PipesInv
  <2>2. IF Type(m) = "term" THEN Start(n, m, Push(n, CloseAll(i) \o <<m>>), "ok")
                            ELSE Start(n, m, Push(n, <<m>>), "ok")
    BY <1>8, <2>1 DEF InputPipe
  <2>3. ASSUME Start(n, m, Push(n, <<m>>), "ok") PROVE LineInv'
    BY <1>4, <1>5, <2>3
  <2>4. ASSUME Type(m) = "term", CloseAll(i) = <<c, g>> PROVE LineInv'
    <3>1. <<c, g>> \o <<m>> = <<c, g, m>>
      BY <1>2, JoinThree
    <3>2. Start(n, m, Push(n, <<c, g, m>>), "ok") /\ ~IsData(m)
      BY <2>2, <2>4, <3>1 DEF IsData
    <3>3. <<c, g, m>> \in Seq(Msgs) /\ \A k \in DOMAIN <<c, g, m>> : k = 1 \/ ~IsData(<<c, g, m>>[k])
      BY <1>2, <3>2
    <3>4. QED
      BY <1>4, <3>2, <3>3
  <2>5. <<>> \o <<m>> = <<m>>
    OBVIOUS
  <2>6. QED
    BY <1>3, <2>2, <2>3, <2>4, <2>5
<1>9. CASE InputGet(i)
  <2> DEFINE d == Data(i, made[i] + 1)
  <2>1. \/ made[i] < MaxData /\ Start(n, NoMsg, Push(n, <<d>>), "ok")
        \/ Start(n, NoMsg, Push(n, CloseAll(i)), "ok")
        \/ \E code \in Codes(n) : Start(n, NoMsg, <<>>, code)
    BY <1>9 DEF InputGet
  <2>2. CASE made[i] < MaxData /\ Start(n, NoMsg, Push(n, <<d>>), "ok")
    <3>1. d \in Msgs
      <4>1. made[i] \in 0 .. MaxData /\ MaxData \in Nat
        BY SizesAssumption DEF IInv, NumbersInv
      <4>2. made[i] + 1 \in 1 .. MaxData
        BY <2>2, <4>1
      <4>3. QED
        BY <4>2, MsgFacts
    <3> HIDE DEF d
    <3>2. QED
      BY <1>4, <1>5, <2>2, <3>1
  <2>3. CASE Start(n, NoMsg, Push(n, CloseAll(i)), "ok")
    BY <1>3, <1>4, <1>6, <1>7, <2>3
  <2>4. CASE \E code \in Codes(n) : Start(n, NoMsg, <<>>, code)
    <3>1. Push(n, <<>>) = <<>>
      BY <1>1, <1>7, PushFacts
    <3>2. QED
      BY <1>4, <1>7, <2>4, <3>1
  <2>5. QED
    BY <2>1, <2>2, <2>3, <2>4
<1>10. QED
  BY <1>8, <1>9

LEMMA OrderOfMover ==
    ASSUME IInv, TermInv, OrderInv, NEW n \in Movers,
           MoverPass(n) \/ MoverTerm(n) \/ (n \in Parsers /\ ParserProcess(n[2])) \/ InterProcess(n)
    PROVE  OrderInv'
<1>1. LineInv'
  BY LineOfMover DEF OrderInv
<1>2. n # Mgr /\ pc[n] = "decide"
  <2>1. n \in Parsers => n = Parser(n[2]) /\ n # Mgr
    BY NodeFacts, SuccFacts
  <2>2. QED
    BY <2>1 DEF MoverPass, MoverTerm, ParserProcess, InterProcess
<1>3. CASE Passes(<<"hand", n>>, <<"out", n>>, cur[n])
  BY <1>1, <1>2, <1>3, OrderOfHand DEF OrderInv
<1>4. CASE MoverPass(n) \/ InterProcess(n)
  BY <1>3, <1>4, MoverPassStep, InterStep
<1>5. CASE n \in Parsers /\ ParserProcess(n[2])
  <2>1. PICK i \in Inputs : n = Parser(i) /\ ParserProcess(i)
    BY <1>5, NodeFacts
  <2>2. \/ Passes(<<"hand", n>>, <<"out", n>>, cur[n])
        \/ /\ Moves(<<"hand", n>>, <<"out", n>>, {cur[n]}, {TemplateGarbage(i)})
           /\ cur[n] = Close(i) /\ live' = live \cup {TemplateGarbage(i)}
    BY <2>1, ParserStep
  <2>3. CASE /\ Moves(<<"hand", n>>, <<"out", n>>, {cur[n]}, {TemplateGarbage(i)})
             /\ cur[n] = Close(i) /\ live' = live \cup {TemplateGarbage(i)}
    <3>1. LevelInv' /\ LaneInv'
      BY <1>2, <2>1, <2>3, OrderOfGarbage
    <3>2. QED
      BY <1>1, <3>1 DEF OrderInv
  <2>4. QED
    BY <1>3, <2>2, <2>3
<1>6. CASE MoverTerm(n)
  <2>1. CASE \E i \in Inputs : /\ n = Parser(i)
                               /\ Moves(<<"hand", n>>, <<"out", n>>, {cur[n]}, {ParserGarbage(i)})
                               /\ live' = live \cup {ParserGarbage(i)}
    <3>1. PICK i \in Inputs : /\ n = Parser(i)
                              /\ Moves(<<"hand", n>>, <<"out", n>>, {cur[n]}, {ParserGarbage(i)})
                              /\ live' = live \cup {ParserGarbage(i)}
      BY <2>1
    <3>2. Type(cur[n]) = "term" /\ ParserGarbage(i) # TemplateGarbage(i)
      BY <1>6 DEF MoverTerm, ParserGarbage, TemplateGarbage
    <3>3. LevelInv' /\ LaneInv'
      BY <1>2, <3>1, <3>2, OrderOfGarbage
    <3>4. QED
      BY <1>1, <3>3 DEF OrderInv
  <2>2. QED
    BY <1>3, <1>6, <2>1, TermStep
<1>7. QED
  BY <1>4, <1>5, <1>6

LEMMA OrderOfInput ==
    ASSUME IInv, TermInv, OrderInv, NEW i \in Inputs, InputPipe(i) \/ InputGet(i)
    PROVE  OrderInv'
<1> DEFINE n == In(i)
           p == <<"pipe", n>>
           q == <<"out", n>>
<1>1. LineInv'
  BY LineOfInput DEF OrderInv
<1>2. /\ n \in InNodes /\ n \in Nodes /\ n \notin OutNodes /\ p \in Places /\ q \in Places /\ p[2] = n /\ q[2] = n
      /\ Level(p) = 3 /\ Level(q) = 6
  <2>1. n \in InNodes /\ n \in Nodes /\ n \notin OutNodes
    BY NodeFacts DEF Nodes, Readers
  <2>2. Place(n) = 1
    BY <2>1, PlaceNumbers
  <2>3. Level(p) = 3 /\ Level(q) = 6
    BY <2>1, <2>2 DEF Level
  <2>4. QED
    BY <2>1, <2>3, PlaceFacts
<1>3. pc[n] \in {"loop", "get"}
  BY DEF InputPipe, InputGet
<1>4. \E S \in SUBSET At(p), N \in SUBSET Msgs :
          Makes(i, N) /\ live' = live \cup N /\ Moves(p, q, S, N) /\ \A x \in S : ~(Type(x) \in Kept)
  <2>1. CASE InputPipe(i)
    <3>1. PICK N \in SUBSET Msgs : /\ Makes(i, N) /\ live' = live \cup N
                                   /\ Moves(p, q, {Head(fpipe[i])}, N)
      BY <2>1, InputPipeStep
    <3>2. Head(fpipe[i]) \in ToSet(fpipe[i])
      BY <2>1, TailFacts DEF InputPipe, IInv, CustodyInv, PipesInv
    <3>3. {Head(fpipe[i])} \subseteq At(p) /\ Type(Head(fpipe[i])) \in {"periodic", "stray", "term"}
      <4>1. At(p) = ToSet(fpipe[i])
        BY <1>2, AtFacts, NodeFacts
      <4>2. QED
        BY <3>2, <4>1 DEF IInv, CustodyInv, PipesInv
    <3>4. QED
      BY <3>1, <3>3 DEF Kept
  <2>2. CASE InputGet(i)
    <3>1. PICK N \in SUBSET Msgs : Makes(i, N) /\ live' = live \cup N /\ Moves(p, q, {}, N)
      BY <2>2, InputGetStep
    <3>2. QED
      BY <3>1
  <2>3. QED
    BY <2>1, <2>2
<1>5. PICK S \in SUBSET At(p), N \in SUBSET Msgs :
          Makes(i, N) /\ live' = live \cup N /\ Moves(p, q, S, N) /\ \A x \in S : ~(Type(x) \in Kept)
  BY <1>4
<1>6. ASSUME NEW r \in Places, NEW d \in At(r), Type(d) \in Kept PROVE 6 <= Level(r)
  <2>1. r[1] \in {"ring", "hand", "out"} /\ r = <<r[1], r[2]>> /\ r[2] \in Nodes /\ (r[2] \in InNodes => r[1] = "out")
    BY <1>6, KeptFacts
  <2>2. CASE r[2] \in InNodes
    <3>1. r[2] \notin OutNodes /\ Place(r[2]) = 1
      BY <2>2, PlaceNumbers, NodeFacts DEF Readers
    <3>2. Level(r) = 6
      BY <2>1, <2>2, <3>1 DEF Level
    <3>3. QED
      BY <3>2
  <2>3. CASE r[2] \notin InNodes
    <3>1. Place(r[2]) \in Nat /\ Place(r[2]) >= 2
      BY <2>1, <2>3, PlaceNumbers DEF Nodes, Readers, Movers
    <3>2. Level(r) \in {3 * Place(r[2]), 3 * Place(r[2]) + 1, 3 * Place(r[2]) + 2, 3 * Place(r[2]) + 3}
      BY <2>1, <3>1 DEF Level
    <3>3. QED
      BY <3>1, <3>2
  <2>4. QED
    BY <2>2, <2>3
<1>7. \A x \in S \cup N : \A r \in Places : \A d \in At(r) :
         Exclude(r, q) /\ Before(d, x) /\ ~(r = p /\ d \in S) => Level(q) <= Level(r)
  BY <1>2, <1>6, BeforeFacts DEF Kept
<1>8. ASSUME NEW x \in N, NEW g \in live, Before(x, g) PROVE FALSE
  <2>1. open[i] /\ x[2] = i /\ g[2] = i /\ Type(g) \in {"close", "garbage"}
    <3>1. x[2] = i
      BY <1>5, MakesFacts
    <3>2. open[i]
      BY <1>5 DEF Makes
    <3>3. QED
      BY <1>8, <3>1, <3>2, BeforeFacts
  <2>2. g \in {Close(i), SessionGarbage(i), TemplateGarbage(i), ParserGarbage(i)}
    <3>1. g \in Msgs
      BY DEF IInv, CustodyInv, LiveInv
    <3>2. QED
      BY <2>1, <3>1 DEF Msgs, Type, Data, Close, SessionGarbage, TemplateGarbage, ParserGarbage, Periodic, Stray, Term
  <2>3. g = ParserGarbage(i)
    BY <2>1, <2>2 DEF IInv, FreshInv
  <2>4. Finished(Parser(i))
    BY <2>3 DEF IInv, FreshInv, Terminating, Finished
  <2>5. Ended(n, Parser(i))
    <3>1. n \in Preds(Parser(i)) /\ Parser(i) \in Readers
      <4>1. n \in InNodes \cup Movers /\ n # Mgr /\ Succ(n) = Parser(i)
        BY <1>2, SuccFacts, NodeFacts DEF Readers, Movers
      <4>2. QED
        BY <4>1, PredFacts
    <3>2. QED
      BY <2>4, <3>1 DEF TermInv
  <2>6. QED
    BY <1>3, <2>5 DEF Ended, Terminating
<1>9. LevelInv' /\ LaneInv'
  <2>1. /\ IInv /\ LevelInv /\ LaneInv /\ p \in Places /\ q \in Places /\ Moves(p, q, S, N) /\ S \subseteq At(p)
        /\ live' = live \cup N /\ Level(p) <= Level(q) /\ p[2] \notin OutNodes /\ q[2] \notin OutNodes
        /\ \A x \in N : \A g \in live : ~Before(x, g)
    BY <1>2, <1>5, <1>8 DEF OrderInv
  <2> HIDE DEF p, q
  <2>2. QED
    BY <1>7, <2>1, OrderMoves
<1>10. QED
  BY <1>1, <1>9 DEF OrderInv

LEMMA OrderOfManager ==
    ASSUME IInv, OrderInv, ManagerProcess
    PROVE  OrderInv'
<1> DEFINE m == cur[Mgr]
           p == <<"hand", Mgr>>
           D == Destinations(m)
<1>1. Mgr \in Nodes /\ Mgr \in InNodes \cup Movers /\ pc[Mgr] = "decide" /\ ring' = ring
  BY SuccFacts DEF Nodes, Readers, Movers, ManagerProcess
<1>2. At(p) = {m}
  BY <1>1, AtFacts DEF Holding
<1>3. D \in SUBSET Outputs /\ (Type(m) # "ipfix" => D = Outputs)
  BY DEF Destinations
<1>4. Spreads(p, m, D) /\ live' \subseteq live
  BY ManagerStep
<1>5. PICK dest : Start(Mgr, m, Deal(dest, m), "ok")
  BY DEF ManagerProcess, Deal
<1>6. PushLine(Deal(dest, m))
  <2>1. \A k \in DOMAIN Deal(dest, m) : Deal(dest, m)[k][2] = m
    BY DEF Deal
  <2>2. ~Before(m, m)
    BY BeforeFacts
  <2>3. QED
    BY <2>1, <2>2 DEF PushLine
<1>7. LineInv'
  BY <1>1, <1>5, <1>6, LineStart DEF OrderInv
<1> HIDE DEF m, p, D
<1>8. LevelInv' /\ LaneInv'
  BY <1>2, <1>3, <1>4, OrderSpreads DEF OrderInv, p
<1>9. QED
  BY <1>7, <1>8 DEF OrderInv

\* In the lane of an output nothing is behind the message in the hands of the output.
LEMMA LaneEnd ==
    ASSUME IInv, LevelInv, NEW n \in OutNodes, pc[n] = "release", NEW r \in Places, NEW x \in At(r),
           Exclude(r, <<"hand", n>>), Before(x, cur[n])
    PROVE  FALSE
<1> DEFINE p == <<"hand", n>>
<1>1. n \in Nodes /\ p \in Places /\ At(p) = {cur[n]}
  <2>1. n \in Nodes
    BY DEF Nodes, Readers
  <2>2. QED
    BY <2>1, PlaceFacts, AtFacts DEF Holding
<1>2. Level(p) <= Level(r)
  BY <1>1 DEF LevelInv
<1>3. r[1] \in {"ring", "hand", "out"} /\ r = <<r[1], r[2]>> /\ r[2] \in Nodes
  <2>1. Type(x) \in Kept
    BY BeforeFacts DEF Kept
  <2>2. QED
    BY <2>1, KeptFacts
<1>4. Place(n) = NInter + 4 /\ NInter \in Nat /\ Level(p) = 3 * Place(n) + 2
  BY <1>1, PlaceNumbers, Levels
<1>5. CASE r[2] \in OutNodes
  <2>1. r[2] = n
    BY <1>5 DEF Exclude
  <2>2. Level(<<"ring", n>>) = 3 * Place(n) + 1 /\ Level(<<"out", n>>) = 3 * Place(n)
    BY <1>1, Levels
  <2>3. r = p
    BY <1>2, <1>3, <1>4, <2>1, <2>2
  <2>4. QED
    BY <1>1, <2>3, BeforeFacts
<1>6. CASE r[2] \notin OutNodes
  <2>1. Place(r[2]) \in Nat /\ Place(r[2]) <= NInter + 3
    <3>1. \A v \in InNodes \cup Parsers \cup Inters : Place(v) \in Nat /\ Place(v) <= NInter + 3
      <4>1. \A v \in Inters : Place(v) = 2 + v[2] /\ v[2] \in Nat /\ v[2] <= NInter + 1
        BY PlaceNumbers
      <4>2. \A v \in InNodes \cup Parsers : Place(v) \in {1, 2}
        BY PlaceNumbers
      <4>3. QED
        BY <1>4, <4>1, <4>2
    <3>2. QED
      BY <1>3, <1>6, <3>1 DEF Nodes, Readers, Movers
  <2>2. Level(r) \in {3 * Place(r[2]), 3 * Place(r[2]) + 1, 3 * Place(r[2]) + 2, 3 * Place(r[2]) + 3}
    BY <1>3, <2>1 DEF Level
  <2>3. QED
    BY <1>2, <1>4, <2>1, <2>2
<1>7. QED
  BY <1>5, <1>6

LEMMA OrderOfRelease ==
    ASSUME IInv, OrderInv, NEW n \in OutNodes, OutRelease(n)
    PROVE  OrderInv'
<1> DEFINE p == <<"hand", n>>
           m == cur[n]
<1>1. pc[n] = "release" /\ UNCHANGED <<ring, out>> /\ n \in Nodes
  BY DEF OutRelease, Nodes, Readers
<1>2. Leaves(p, m) /\ live' \subseteq live
  BY OutReleaseStep
<1>3. p \in Places /\ p[2] = n
  BY <1>1, PlaceFacts
<1>4. \A r \in Places : r[2] = n => \A x \in At(r) : ~Before(x, m)
  <2>1. SUFFICES ASSUME NEW r \in Places, r[2] = n, NEW x \in At(r), Before(x, m) PROVE FALSE
    OBVIOUS
  <2>2. Exclude(r, p)
    BY <1>3, <2>1 DEF Exclude
  <2>3. QED
    BY <1>1, <2>1, <2>2, LaneEnd DEF OrderInv
<1>5. LineInv'
  BY <1>1, LineKept DEF OrderInv
<1> HIDE DEF p, m
<1>6. LevelInv' /\ LaneInv'
  BY <1>2, <1>3, <1>4, OrderLeaves DEF OrderInv
<1>7. QED
  BY <1>5, <1>6 DEF OrderInv

\* Steps that neither take a message nor give one.
LEMMA OrderStill ==
    ASSUME IInv, IInv', OrderInv, UNCHANGED <<ring, out>>, \A n \in Nodes : Holding(n)' = Holding(n)
    PROVE  OrderInv'
<1>1. LineInv'
  BY LineKept DEF OrderInv
<1>2. ASSUME NEW r \in Places, r[1] # "pipe" PROVE At(r)' = At(r)
  <2>1. r[2] \in Nodes
    BY PlaceFacts
  <2>2. InRing(r[2])' = InRing(r[2]) /\ ToPush(r[2])' = ToPush(r[2]) /\ Holding(r[2])' = Holding(r[2])
    BY <2>1 DEF InRing, ToPush
  <2>3. QED
    BY <1>2, <2>2 DEF At
<1>3. LevelInv' /\ LaneInv'
  BY <1>2, OrderQuiet DEF OrderInv
<1>4. QED
  BY <1>1, <1>3 DEF OrderInv

LEMMA OrderOfLoop ==
    ASSUME IInv, IInv', OrderInv, NEW n \in Nodes, pc[n] \notin {"decide", "release"}, NEW a,
           a \notin {"decide", "release"}, pc' = [pc EXCEPT ![n] = a], UNCHANGED <<ring, cur, out>>
    PROVE  OrderInv'
<1>1. \A k \in Nodes : Holding(k)' = Holding(k)
  BY DEF Holding, IInv, CustodyInv, ThreadInv
<1>2. QED
  BY <1>1, OrderStill

LEMMA NextOrder == IInv /\ IInv' /\ TermInv /\ OrderInv /\ [Next]_vars => OrderInv'
<1>1. SUFFICES ASSUME IInv, IInv', TermInv, OrderInv, [Next]_vars PROVE OrderInv'
  OBVIOUS
<1>2. ASSUME NEW n \in Nodes, HandleCode(n) PROVE OrderInv'
  <2>1. pc[n] \notin {"decide", "release"} /\ pc' = [pc EXCEPT ![n] = "loop"] /\ UNCHANGED <<ring, cur, out>>
    BY <1>2 DEF HandleCode
  <2>2. QED
    BY <1>1, <2>1, OrderOfLoop
<1>3. ASSUME NEW i \in Inputs, InputThread(i) PROVE OrderInv'
  <2>1. In(i) \in InNodes \cup Movers /\ In(i) \in Nodes
    BY NodeFacts DEF Nodes
  <2>2. CASE InputPipe(i) \/ InputGet(i)
    BY <1>1, <2>2, OrderOfInput
  <2>3. CASE InputSkip(i)
    <3>1. pc[In(i)] \notin {"decide", "release"} /\ pc' = [pc EXCEPT ![In(i)] = "loop"] /\ UNCHANGED <<ring, cur, out>>
      BY <2>3 DEF InputSkip
    <3>2. QED
      BY <1>1, <2>1, <3>1, OrderOfLoop
  <2>4. CASE PushOne(In(i))
    BY <1>1, <2>1, <2>4, OrderOfPush
  <2>5. QED
    BY <1>2, <1>3, <2>1, <2>2, <2>3, <2>4 DEF InputThread
<1>4. ASSUME NEW n \in Movers, MoverThread(n) PROVE OrderInv'
  <2>1. n \in InNodes \cup Movers /\ n \in Nodes
    BY DEF Nodes, Readers
  <2>2. CASE MoverPop(n)
    BY <1>1, <2>2, OrderOfMoverPop
  <2>3. CASE PushOne(n)
    BY <1>1, <2>1, <2>3, OrderOfPush
  <2>4. CASE ManagerProcess
    BY <1>1, <2>4, OrderOfManager
  <2>5. CASE MoverPass(n) \/ MoverTerm(n) \/ (n \in Parsers /\ ParserProcess(n[2])) \/ InterProcess(n)
    BY <1>1, <2>5, OrderOfMover
  <2>6. QED
    BY <1>2, <1>4, <2>1, <2>2, <2>3, <2>4, <2>5 DEF MoverThread
<1>5. ASSUME NEW n \in OutNodes, OutThread(n) PROVE OrderInv'
  <2>1. CASE OutPop(n)
    BY <1>1, <2>1, OrderOfOutPop
  <2>2. CASE OutRelease(n)
    BY <1>1, <2>2, OrderOfRelease
  <2>3. CASE OutDestroy(n)
    <3>1. pc[n] \notin {"decide", "release"} /\ pc' = [pc EXCEPT ![n] = "exit"] /\ UNCHANGED <<ring, cur, out>> /\ n \in Nodes
      BY <2>3 DEF OutDestroy, Nodes, Readers
    <3>2. QED
      BY <1>1, <3>1, OrderOfLoop
  <2>4. QED
    BY <1>5, <2>1, <2>2, <2>3 DEF OutThread
<1>6. ASSUME Configurator \/ Signal \/ Idle \/ UNCHANGED vars PROVE OrderInv'
  <2>1. UNCHANGED <<ring, pc, cur, out>>
    <3>1. CASE Configurator
      BY <3>1 DEF Configurator, Receive, StopNext, Cleanup, threads
    <3>2. CASE Signal
      BY <3>2 DEF Signal, threads
    <3>3. CASE Idle \/ UNCHANGED vars
      BY <3>3 DEF Idle, vars, threads
    <3>4. QED
      BY <1>6, <3>1, <3>2, <3>3
  <2>2. \A k \in Nodes : Holding(k)' = Holding(k)
    BY <2>1 DEF Holding
  <2>3. QED
    BY <1>1, <2>1, <2>2, OrderStill
<1>7. QED
  BY <1>1, <1>3, <1>4, <1>5, <1>6 DEF Next

LEMMA InitOrder == Init => OrderInv
<1>1. SUFFICES ASSUME Init PROVE OrderInv
  OBVIOUS
<1>2. live = {} /\ IInv
  BY <1>1, InitInv DEF Init
<1>3. \A r \in Places : At(r) = {}
  BY <1>2 DEF IInv, CustodyInv, LiveInv
<1>4. (\A n \in Readers : ring[n] = <<>>) /\ \A n \in Nodes : out[n] = <<>>
  BY <1>1 DEF Init
<1>5. DOMAIN <<>> = {}
  OBVIOUS
<1>6. LineInv
  BY <1>4, <1>5 DEF LineInv, InLine, PushLine
<1>7. QED
  BY <1>2, <1>3, <1>6 DEF OrderInv, LevelInv, LaneInv

-----------------------------------------------------------------------------
(* The destruction of garbage.                                               *)

\* Only an output destroys garbage, as the last one of its users.
LEMMA GarbageLeaves ==
    ASSUME IInv, [Next]_vars, NEW m \in Garbages, m \in live, m \notin live'
    PROVE  \E n \in OutNodes : pc[n] = "release" /\ cur[n] = m /\ refs[m] = 1
<1>1. Type(m) = "garbage"
  BY DEF Garbages
<1>2. ASSUME live \subseteq live' PROVE FALSE
  BY <1>2
<1>3. ASSUME NEW n \in Nodes, PushOne(n) \/ HandleCode(n) PROVE FALSE
  BY <1>2, <1>3 DEF PushOne, HandleCode
<1>4. ASSUME NEW i \in Inputs, InputThread(i) PROVE FALSE
  <2>1. In(i) \in Nodes
    BY NodeFacts DEF Nodes
  <2>2. CASE InputPipe(i)
    BY <1>2, <2>2, InputPipeStep
  <2>3. CASE InputGet(i)
    BY <1>2, <2>3, InputGetStep
  <2>4. CASE InputSkip(i)
    BY <1>2, <2>4 DEF InputSkip
  <2>5. QED
    BY <1>3, <1>4, <2>1, <2>2, <2>3, <2>4 DEF InputThread
<1>5. ASSUME NEW n \in Movers, MoverThread(n) PROVE FALSE
  <2>1. n \in Nodes /\ ~IsData(m) /\ ~IsPeriodic(m) /\ Type(m) # "term"
    BY <1>1 DEF Nodes, Readers, IsData, IsPeriodic
  <2>2. CASE MoverPop(n)
    <3> DEFINE x == Head(ring[n])
    <3>1. IF \/ IsEarlyTerm(n, x) \/ IsOldPeriodic(n, x)
             \/ (~processing[n] /\ IsData(x))
          THEN Destroy(x) ELSE live' = live
      BY <2>2 DEF MoverPop
    <3> HIDE DEF x
    <3>2. Destroy(x) => x = m
      BY DEF Destroy
    <3>3. QED
      BY <2>1, <3>1, <3>2 DEF IsEarlyTerm, IsOldPeriodic
  <2>3. CASE MoverPass(n) \/ InterProcess(n)
    BY <1>2, <2>3 DEF MoverPass, InterProcess
  <2>4. CASE MoverTerm(n)
    BY <1>2, <2>4 DEF MoverTerm
  <2>5. CASE n \in Parsers /\ ParserProcess(n[2])
    BY <1>2, <2>5 DEF ParserProcess
  <2>6. CASE ManagerProcess
    <3>1. live' = IF Destinations(cur[Mgr]) = {} THEN live \ {cur[Mgr]} ELSE live
      BY <2>6, ManagerStep
    <3>2. cur[Mgr] = m
      BY <3>1
    <3>3. 1 \in Destinations(m)
      BY <1>1, InputFacts DEF Destinations
    <3>4. QED
      BY <1>2, <3>1, <3>2, <3>3
  <2>7. QED
    BY <1>3, <1>5, <2>1, <2>2, <2>3, <2>4, <2>5, <2>6 DEF MoverThread
<1>6. ASSUME Configurator \/ Signal \/ Idle \/ UNCHANGED vars PROVE FALSE
  <2>1. CASE Cleanup
    <3>1. live' = live \ UNION {ToSet(fpipe[i]) : i \in Inputs}
      BY <2>1 DEF Cleanup
    <3>2. PICK i \in Inputs : m \in ToSet(fpipe[i])
      BY <3>1
    <3>3. Type(m) \in {"periodic", "stray", "term"}
      BY <3>2 DEF IInv, CustodyInv, PipesInv
    <3>4. QED
      BY <1>1, <3>3
  <2>2. CASE Receive
    BY <1>2, <2>2 DEF Receive, PeriodicSend, HandleDone, HandleRequest, TerminationSend
  <2>3. CASE StopNext \/ Signal \/ Idle \/ UNCHANGED vars
    BY <1>2, <2>3 DEF StopNext, Signal, Idle, vars
  <2>4. QED
    BY <1>6, <2>1, <2>2, <2>3 DEF Configurator
<1>7. ASSUME NEW n \in OutNodes, OutThread(n) PROVE pc[n] = "release" /\ cur[n] = m /\ refs[m] = 1
  <2>1. OutRelease(n)
    BY <1>2, <1>7 DEF OutThread, OutPop, OutDestroy
  <2>2. pc[n] = "release" /\ live' = IF refs[cur[n]] = 1 THEN live \ {cur[n]} ELSE live
    BY <2>1, OutReleaseStep DEF OutRelease
  <2>3. QED
    BY <2>2
<1>8. QED
  BY <1>4, <1>5, <1>6, <1>7 DEF Next

\* Then nothing of the session is left.
LEMMA NothingBehind ==
    ASSUME IInv, OrderInv, NEW n \in OutNodes, pc[n] = "release", refs[cur[n]] = 1, NEW d \in live, Before(d, cur[n])
    PROVE  FALSE
<1> DEFINE m == cur[n]
           p == <<"hand", n>>
<1>1. /\ n \in Nodes /\ p \in Places /\ p[2] = n /\ At(p) = {m} /\ m \in Msgs /\ m \in live
      /\ n[2] \in Outputs /\ n = Out(n[2])
  <2>1. n \in Nodes /\ n[2] \in Outputs /\ n = Out(n[2])
    BY NodeFacts DEF Nodes, Readers
  <2>2. p \in Places /\ At(p) = {m}
    BY <2>1, PlaceFacts, AtFacts DEF Holding
  <2>3. QED
    BY <2>1, <2>2 DEF IInv, CustodyInv, LiveInv
<1>2. PICK r \in Places : d \in At(r)
  BY DEF IInv, CustodyInv, LiveInv
<1>3. ~Exclude(r, p)
  BY <1>2, LaneEnd DEF OrderInv
<1>4. r[2] \in OutNodes /\ r[2] # n
  BY <1>1, <1>3 DEF Exclude
<1>5. PICK q \in Places : m \in At(q) /\ Exclude(q, r)
  BY <1>1, <1>2, <1>4 DEF OrderInv, LaneInv
<1>6. q[2] # n
  BY <1>4, <1>5 DEF Exclude
<1>7. q[2] \in OutNodes
  <2>1. SUFFICES ASSUME q[2] \notin OutNodes PROVE FALSE
    OBVIOUS
  <2>2. Exclude(q, p)
    BY <2>1 DEF Exclude
  <2>3. q = p
    BY <1>1, <1>5, <2>2 DEF IInv, CustodyInv, UniqueInv
  <2>4. QED
    BY <1>1, <1>6, <2>3
<1>8. q[2][2] \in Outputs /\ q[2] = Out(q[2][2])
  BY <1>7, NodeFacts
<1>9. n[2] \in Users(m) /\ q[2][2] \in Users(m) /\ n[2] # q[2][2]
  <2>1. n[2] # q[2][2]
    BY <1>1, <1>6, <1>8
  <2>2. n[2] \in Users(m)
    BY <1>1 DEF Users
  <2>3. q[2][2] \in Users(m)
    BY <1>5, <1>8 DEF Users
  <2>4. QED
    BY <2>1, <2>2, <2>3
<1>10. Cardinality(Users(m)) = 1
  BY <1>1 DEF IInv, CustodyInv, RefsInv
<1>11. IsFiniteSet(Users(m))
  BY UsersFacts
<1>12. \E x : Users(m) = {x}
  BY <1>10, <1>11, FS_Singleton
<1>13. QED
  BY <1>9, <1>12

LEMMA GarbageStepIsLast ==
    ASSUME IInv, OrderInv, [Next]_vars
    PROVE  [\A m \in Garbages : m \in live /\ m \notin live' =>
               \A d \in live : ~(IsData(d) /\ d[2] = m[2])]_vars
<1>1. SUFFICES ASSUME NEW m \in Garbages, m \in live, m \notin live', NEW d \in live, IsData(d), d[2] = m[2] PROVE FALSE
  OBVIOUS
<1>2. Before(d, m)
  BY <1>1 DEF Before, Garbages
<1>3. PICK n \in OutNodes : pc[n] = "release" /\ cur[n] = m /\ refs[m] = 1
  BY <1>1, GarbageLeaves
<1>4. QED
  BY <1>1, <1>2, <1>3, NothingBehind

\* Garbage is destroyed only when no IPFIX message and no close message of its
\* session is left in the pipeline (message_garbage.h), however many outputs share
\* it and however they race.
THEOREM GarbageComesLast == Spec => GarbageIsLast
<1>1. Init => IInv /\ TermInv /\ OrderInv
  BY InitInv, InitTerm, InitOrder
<1>2. (IInv /\ TermInv /\ OrderInv) /\ [Next]_vars => (IInv /\ TermInv /\ OrderInv)'
  BY NextInv, NextTerm, NextOrder
<1>3. IInv /\ OrderInv /\ [Next]_vars =>
          [\A m \in Garbages : m \in live /\ m \notin live' => \A d \in live : ~(IsData(d) /\ d[2] = m[2])]_vars
  BY GarbageStepIsLast
<1>4. QED
  BY <1>1, <1>2, <1>3, PTL DEF Spec, GarbageIsLast

-----------------------------------------------------------------------------
(* A slow termination loses nothing.                                         *)

\* Requests for slow termination are by instances that are known to have asked.
ByAskers(s, A) == \A k \in DOMAIN s : s[k][1] = "slow" /\ s[k][2] \in Nodes => s[k][2] \in A

\* The output manager does not ask.  Unless a fast termination has begun, what is
\* disabled, or about to be, has an asker behind it.
StopInv ==
    /\ askers \subseteq Nodes \ {Mgr} /\ rc[Mgr] = "ok"
    /\ state # "stop_fast" =>
          /\ \A n \in Nodes : processing[n] \/ n \in UpToAskers
          /\ ToSet(stops) \subseteq UpToAskers
          /\ ByAskers(cpipe, askers)

\* A message has left an instance behind; it is on its way to an output.
Past(m, n) == \A r \in Places : m \in At(r) => Level(r) > Level(<<"hand", n>>)
Lane(o) == {<<"out", Out(o)>>, <<"ring", Out(o)>>}
Coming(m, o) == \E r \in Places : m \in At(r) /\ (r[2] \notin OutNodes \/ r \in Lane(o))
\* An instance in front of an asker has not processed it, and will not.
Missed(m) == \E n \in Path(m) \cap UpToAskers : <<n, m>> \notin seen /\ Past(m, n)

\* What has been processed has been made, and left behind the movers that processed it.
Flows == {m \in Msgs : Type(m) = "ipfix"}
SeenInv ==
    /\ \A i \in Inputs, k \in 1 .. MaxData : \A n \in Nodes : <<n, Data(i, k)>> \in seen => k <= made[i]
    /\ \A m \in Flows, n \in Movers : <<n, m>> \in seen => Past(m, n)

\* What an output wants is on its way there, has arrived or was missed before.
DeliverInv ==
    state # "stop_fast" /\ askers \cap OutNodes = {} =>
        \A m \in Flows, o \in Outputs : <<In(m[2]), m>> \in seen /\ m[2] \in Wants[o] =>
            Missed(m) \/ <<Out(o), m>> \in seen \/ Coming(m, o)
DataInv == StopInv /\ SeenInv /\ DeliverInv

-----------------------------------------------------------------------------
(* What a step does to a message.                                            *)

\* The message is nowhere but where it was, or farther; it still comes.
Onward(m) == \A r \in Places : m \in At(r)' => \E t \in Places : m \in At(t) /\ Level(t) <= Level(r)
Keeps(m) == Onward(m) /\ \A o \in Outputs : m[2] \in Wants[o] /\ Coming(m, o) => Coming(m, o)'

LEMMA LevelNumbers == \A r \in Places : Level(r) \in Nat
<1>1. SUFFICES ASSUME NEW r \in Places PROVE Level(r) \in Nat
  OBVIOUS
<1>2. r[2] \in Nodes /\ r = <<r[1], r[2]>> /\ r[1] \in {"pipe", "ring", "hand", "out"}
  BY PlaceFacts
<1>3. \A k \in {"pipe", "ring", "hand", "out"} : Level(<<k, r[2]>>) \in Nat
  BY <1>2, Levels
<1>4. QED
  BY <1>2, <1>3

LEMMA PastKept ==
    ASSUME NEW m, Onward(m), NEW n \in Nodes, Past(m, n)
    PROVE  Past(m, n)'
<1>1. SUFFICES ASSUME NEW r \in Places, m \in At(r)' PROVE Level(r) > Level(<<"hand", n>>)
  BY DEF Past
<1>2. PICK t \in Places : m \in At(t) /\ Level(t) <= Level(r)
  BY <1>1 DEF Onward
<1>3. Level(t) > Level(<<"hand", n>>)
  BY <1>2 DEF Past
<1>4. Level(t) \in Nat /\ Level(r) \in Nat /\ Level(<<"hand", n>>) \in Nat
  BY <1>1, <1>2, LevelNumbers, PlaceFacts
<1>5. QED
  BY <1>2, <1>3, <1>4

\* The asker has the instances in front of it and at its own place up to it: never
\* the output manager, nor an output as long as none has asked.
LEMMA UpFacts ==
    ASSUME askers \subseteq Nodes \ {Mgr}, askers \cap OutNodes = {}, NEW n \in UpToAskers
    PROVE  n \in Nodes /\ n # Mgr /\ n \notin OutNodes
<1>1. PICK a \in askers : n \in Nodes /\ Place(n) <= Place(a)
  BY DEF UpToAskers
<1>2. a \in Nodes /\ a # Mgr /\ a \notin OutNodes
  BY <1>1
<1>3. Place(a) < NInter + 3
  <2>1. CASE a \in InNodes \cup Parsers
    BY <2>1, PlaceNumbers
  <2>2. CASE a \in Inters
    <3>1. a[2] # NInter + 1
      BY <1>2, <2>2, NodeFacts DEF Mgr
    <3>2. Place(a) = 2 + a[2] /\ a[2] \in Nat /\ a[2] <= NInter + 1 /\ NInter \in Nat
      BY <2>2, PlaceNumbers
    <3>3. QED
      BY <3>1, <3>2
  <2>3. QED
    BY <1>2, <2>1, <2>2 DEF Nodes, Readers, Movers
<1>4. Place(Mgr) = NInter + 3 /\ (\A o \in OutNodes : Place(o) = NInter + 4) /\ NInter \in Nat
  BY PlaceNumbers
<1>5. Place(n) \in Nat /\ Place(a) \in Nat
  BY <1>1, <1>2, PlaceNumbers
<1>6. n # Mgr
  BY <1>1, <1>3, <1>4, <1>5
<1>7. n \notin OutNodes
  BY <1>1, <1>3, <1>4, <1>5
<1>8. QED
  BY <1>1, <1>6, <1>7

LEMMA UpGrows ==
    ASSUME askers \subseteq askers'
    PROVE  UpToAskers \subseteq UpToAskers'
BY DEF UpToAskers

LEMMA PathFacts ==
    ASSUME NEW m \in Msgs
    PROVE  /\ \A n \in Path(m) : n \in Nodes /\ (n = In(m[2]) \/ n \in Movers)
           /\ In(m[2]) \in Nodes /\ m[2] \in Inputs /\ In(m[2]) \notin Movers
<1>1. m[2] \in Inputs
  BY MsgFacts
<1>2. In(m[2]) \in InNodes /\ Parser(m[2]) \in Parsers
  BY <1>1, NodeFacts
<1>3. QED
  BY <1>1, <1>2, NodeFacts DEF Path, Nodes, Readers, Movers

\* A step that adds what movers process on the way, what inputs make and what outputs
\* process keeps the rest.
LEMMA DataStep ==
    ASSUME SeenInv, DeliverInv, seen \subseteq seen', askers \subseteq askers',
           state' # "stop_fast" => state # "stop_fast",
           made \in [Inputs -> Nat], made' \in [Inputs -> Nat], \A i \in Inputs : made[i] <= made'[i],
           \A m \in Flows : Onward(m) \/ \A n \in Nodes : <<n, m>> \notin seen,
           \A i \in Inputs, k \in 1 .. MaxData : \A n \in Nodes :
               <<n, Data(i, k)>> \in seen' => <<n, Data(i, k)>> \in seen \/ k <= made'[i],
           \A m \in Flows, n \in Movers :
               <<n, m>> \in seen' => <<n, m>> \in seen \/ (~Past(m, n) /\ Past(m, n)'),
           \A m \in Flows, o \in Outputs :
               /\ state' # "stop_fast" /\ askers' \cap OutNodes = {} /\ m[2] \in Wants[o]
               /\ Coming(m, o) \/ (<<In(m[2]), m>> \in seen' /\ <<In(m[2]), m>> \notin seen)
               => Missed(m)' \/ <<Out(o), m>> \in seen' \/ Coming(m, o)'
    PROVE  SeenInv' /\ DeliverInv'
<1>1. \A i \in Inputs, k \in 1 .. MaxData : \A n \in Nodes : <<n, Data(i, k)>> \in seen' => k <= made'[i]
  <2>1. SUFFICES ASSUME NEW i \in Inputs, NEW k \in 1 .. MaxData, NEW n \in Nodes, <<n, Data(i, k)>> \in seen
                 PROVE  k <= made'[i]
    OBVIOUS
  <2>2. k <= made[i] /\ made[i] <= made'[i] /\ made[i] \in Nat /\ made'[i] \in Nat
    BY <2>1 DEF SeenInv
  <2>3. QED
    BY <2>2
<1>2. \A m \in Flows, n \in Movers : <<n, m>> \in seen' => Past(m, n)'
  <2>1. SUFFICES ASSUME NEW m \in Flows, NEW n \in Movers, <<n, m>> \in seen PROVE Past(m, n)'
    OBVIOUS
  <2>2. Past(m, n) /\ n \in Nodes
    BY <2>1 DEF SeenInv, Nodes, Readers
  <2>3. Onward(m)
    BY <2>1, <2>2
  <2>4. QED
    BY <2>2, <2>3, PastKept
<1>3. SeenInv'
  BY <1>1, <1>2 DEF SeenInv
<1>4. DeliverInv'
  <2>1. SUFFICES ASSUME state' # "stop_fast", askers' \cap OutNodes = {}, NEW m \in Flows, NEW o \in Outputs,
                        <<In(m[2]), m>> \in seen', m[2] \in Wants[o], ~Coming(m, o), <<In(m[2]), m>> \in seen
                 PROVE  Missed(m)' \/ <<Out(o), m>> \in seen' \/ Coming(m, o)'
    BY DEF DeliverInv
  <2>2. Missed(m) \/ <<Out(o), m>> \in seen
    BY <2>1 DEF DeliverInv
  <2>3. ASSUME Missed(m) PROVE Missed(m)'
    <3>1. PICK n \in Path(m) \cap UpToAskers : <<n, m>> \notin seen /\ Past(m, n)
      BY <2>3 DEF Missed
    <3>2. n \in Nodes /\ n \in Movers /\ In(m[2]) \in Nodes
      BY <2>1, <3>1, PathFacts DEF Flows
    <3>3. Onward(m)
      BY <2>1, <3>2
    <3>4. Past(m, n)'
      BY <3>1, <3>2, <3>3, PastKept
    <3>5. <<n, m>> \notin seen'
      BY <3>1, <3>2
    <3>6. n \in UpToAskers'
      BY <3>1, UpGrows
    <3>7. QED
      BY <3>1, <3>4, <3>5, <3>6 DEF Missed
  <2>4. QED
    BY <2>1, <2>2, <2>3
<1>5. QED
  BY <1>3, <1>4

\* Messages move from p to q; the new ones are others.
LEMMA MovesKeep ==
    ASSUME NEW p \in Places, NEW q \in Places, NEW S, NEW N, Moves(p, q, S, N), S \subseteq At(p), Level(p) <= Level(q),
           \/ p[2] \notin OutNodes /\ q[2] \notin OutNodes
           \/ \E n \in OutNodes : p = <<"out", n>> /\ q = <<"ring", n>>,
           NEW m, m \notin N
    PROVE  Keeps(m)
<1>1. Onward(m)
  <2>1. SUFFICES ASSUME NEW r \in Places, m \in At(r)' PROVE \E t \in Places : m \in At(t) /\ Level(t) <= Level(r)
    BY DEF Onward
  <2>2. m \in At(r) \/ (r = q /\ m \in At(p))
    BY <2>1 DEF Moves
  <2>3. Level(r) <= Level(r)
    BY LevelNumbers
  <2>4. QED
    BY <2>1, <2>2, <2>3
<1>2. ASSUME NEW o \in Outputs, Coming(m, o) PROVE Coming(m, o)'
  <2>1. PICK r \in Places : m \in At(r) /\ (r[2] \notin OutNodes \/ r \in Lane(o))
    BY <1>2 DEF Coming
  <2>2. r # p \/ m \notin S => m \in At(r)'
    BY <2>1 DEF Moves
  <2>3. m \in S => m \in At(q)'
    BY DEF Moves
  <2>4. r = p => q[2] \notin OutNodes \/ q \in Lane(o)
    <3>1. SUFFICES ASSUME NEW n \in OutNodes, r = <<"out", n>>, q = <<"ring", n>> PROVE q \in Lane(o)
      BY <2>1 DEF Lane
    <3>2. r \in Lane(o)
      BY <2>1, <3>1
    <3>3. n = Out(o)
      BY <3>1, <3>2 DEF Lane
    <3>4. QED
      BY <3>1, <3>3 DEF Lane
  <2>5. (r[2] \notin OutNodes \/ r \in Lane(o))' <=> (r[2] \notin OutNodes \/ r \in Lane(o))
    OBVIOUS
  <2>6. QED
    BY <2>1, <2>2, <2>3, <2>4 DEF Coming
<1>3. QED
  BY <1>1, <1>2 DEF Keeps

\* A message is destroyed, or released by an output.
LEMMA LeavesKeep ==
    ASSUME NEW p \in Places, NEW x, Leaves(p, x), NEW m
    PROVE  Onward(m) /\ (m # x \/ (p[2] \in OutNodes /\ p[1] = "hand") => Keeps(m))
<1>1. Onward(m)
  <2>1. SUFFICES ASSUME NEW r \in Places, m \in At(r)' PROVE \E t \in Places : m \in At(t) /\ Level(t) <= Level(r)
    BY DEF Onward
  <2>2. m \in At(r)
    BY <2>1 DEF Leaves
  <2>3. Level(r) <= Level(r)
    BY LevelNumbers
  <2>4. QED
    BY <2>2, <2>3
<1>2. ASSUME m # x \/ (p[2] \in OutNodes /\ p[1] = "hand"), NEW o \in Outputs, Coming(m, o) PROVE Coming(m, o)'
  <2>1. PICK r \in Places : m \in At(r) /\ (r[2] \notin OutNodes \/ r \in Lane(o))
    BY <1>2 DEF Coming
  <2>2. r # p \/ m # x
    BY <1>2, <2>1 DEF Lane
  <2>3. m \in At(r)'
    BY <2>1, <2>2 DEF Leaves
  <2>4. QED
    BY <2>1, <2>3 DEF Coming
<1>3. QED
  BY <1>1, <1>2 DEF Keeps

\* The output manager gives its message to those that want it.
LEMMA SpreadsKeep ==
    ASSUME NEW x, NEW p, p = <<"hand", Mgr>>, x \in At(p), Spreads(p, x, Destinations(x)), NEW m \in Flows
    PROVE  Keeps(m)
<1>1. p \in Places
  BY SuccFacts, PlaceFacts DEF Nodes, Readers, Movers
<1>2. Onward(m)
  <2>1. SUFFICES ASSUME NEW r \in Places, m \in At(r)' PROVE \E t \in Places : m \in At(t) /\ Level(t) <= Level(r)
    BY DEF Onward
  <2>2. m \in At(r) \/ (m = x /\ \E o \in Outputs : r = <<"out", Out(o)>>)
    BY <2>1 DEF Spreads, Destinations
  <2>3. Level(r) <= Level(r)
    BY LevelNumbers
  <2>4. ASSUME NEW o \in Outputs, r = <<"out", Out(o)>> PROVE Level(p) <= Level(r)
    <3>1. Level(r) = Level(p) + 1 /\ Level(p) \in Nat
      BY <1>1, <2>4, NextLevel, NodeFacts, LevelNumbers
    <3>2. QED
      BY <3>1
  <2>5. QED
    BY <1>1, <2>2, <2>3, <2>4
<1>3. ASSUME NEW o \in Outputs, m[2] \in Wants[o], Coming(m, o) PROVE Coming(m, o)'
  <2>1. PICK r \in Places : m \in At(r) /\ (r[2] \notin OutNodes \/ r \in Lane(o))
    BY <1>3 DEF Coming
  <2>2. CASE r # p \/ m # x
    <3>1. m \in At(r)'
      BY <2>1, <2>2 DEF Spreads
    <3>2. QED
      BY <2>1, <3>1 DEF Coming
  <2>3. CASE m = x
    <3>1. o \in Destinations(x)
      BY <1>3, <2>3 DEF Destinations
    <3>2. <<"out", Out(o)>> \in Places
      BY NodeFacts, PlaceFacts DEF Nodes, Readers
    <3>3. m \in At(<<"out", Out(o)>>)'
      BY <2>3, <3>1, <3>2 DEF Spreads
    <3>4. QED
      BY <3>2, <3>3 DEF Coming, Lane
  <2>4. QED
    BY <2>2, <2>3
<1>4. QED
  BY <1>2, <1>3 DEF Keeps

LEMMA NotInPipesNext == (IInv => \A r \in Places : \A m \in At(r) : Type(m) \in Kept => r[1] # "pipe")'
BY NotInPipes, PTL

\* Only feedback pipes change.
LEMMA QuietKeep ==
    ASSUME IInv, IInv', \A r \in Places : r[1] # "pipe" => At(r)' = At(r), NEW m \in Flows
    PROVE  Keeps(m)
<1>1. \A r \in Places : m \in At(r) => r[1] # "pipe"
  BY NotInPipes DEF Kept, Flows
<1>2. \A r \in Places : m \in At(r)' => r[1] # "pipe"
  <2>1. \A r \in Places : \A x \in At(r)' : Type(x) \in Kept => r[1] # "pipe"
    BY NotInPipesNext
  <2>2. QED
    BY <2>1 DEF Kept, Flows
<1>3. \A r \in Places : m \in At(r)' <=> m \in At(r)
  BY <1>1, <1>2
<1>4. \A r \in Places : Level(r) <= Level(r)
  BY LevelNumbers
<1>5. Onward(m)
  BY <1>3, <1>4 DEF Onward
<1>6. QED
  BY <1>3, <1>5 DEF Keeps, Coming

-----------------------------------------------------------------------------
(* Steps that process nothing.                                               *)

\* What such a step leaves alone.
Frame == seen' = seen /\ made' = made /\ askers \subseteq askers' /\ (state' # "stop_fast" => state # "stop_fast")

LEMMA MadeNumbers == ASSUME IInv PROVE made \in [Inputs -> Nat]
<1>1. made \in [Inputs -> 0 .. MaxData] /\ 0 .. MaxData \subseteq Nat
  BY SizesAssumption DEF IInv, NumbersInv
<1>2. QED
  BY <1>1

LEMMA DataKept ==
    ASSUME IInv, SeenInv, DeliverInv, Frame, \A m \in Flows : Keeps(m)
    PROVE  SeenInv' /\ DeliverInv'
<1>1. made \in [Inputs -> Nat] /\ made' \in [Inputs -> Nat] /\ \A i \in Inputs : made[i] <= made'[i]
  BY MadeNumbers DEF Frame
<1>2. \A m \in Flows : Onward(m)
  BY DEF Keeps
<1>3. \A m \in Flows, o \in Outputs : m[2] \in Wants[o] /\ Coming(m, o) => Coming(m, o)'
  BY DEF Keeps
<1>4. QED
  BY <1>1, <1>2, <1>3, DataStep DEF Frame

LEMMA DataOfPush ==
    ASSUME IInv, SeenInv, DeliverInv, NEW n \in InNodes \cup Movers, PushOne(n)
    PROVE  SeenInv' /\ DeliverInv'
<1>1. pc[n] = "push" /\ Frame /\ CustodyInv /\ n \in Nodes
  BY DEF PushOne, Frame, config, IInv, Nodes, Readers
<1>2. PICK to \in Readers, m \in Msgs : Head(out[n]) = <<to, m>>
  BY <1>1, PushHead
<1>3. /\ IF n = Mgr THEN to \in OutNodes ELSE to = Succ(n)
      /\ Moves(PushPlace(n, to), <<"ring", to>>, {m}, {})
      /\ m \in At(PushPlace(n, to))
  BY <1>2, PushOneMoves
<1> DEFINE p == PushPlace(n, to)
           q == <<"ring", to>>
<1>4. p \in Places /\ q \in Places
  BY <1>1, PlaceFacts DEF PushPlace, Nodes
<1>5. Level(q) = Level(p) + 1
  <2>1. CASE n = Mgr
    BY <1>3, <2>1, NextLevel DEF PushPlace
  <2>2. CASE n # Mgr
    BY <1>3, <2>2, NextLevel DEF PushPlace
  <2>3. QED
    BY <2>1, <2>2
<1>6. Level(p) <= Level(q)
  BY <1>4, <1>5, LevelNumbers
<1>7. \/ p[2] \notin OutNodes /\ q[2] \notin OutNodes
      \/ \E k \in OutNodes : p = <<"out", k>> /\ q = <<"ring", k>>
  <2>1. CASE n = Mgr
    BY <1>3, <2>1 DEF PushPlace
  <2>2. CASE n # Mgr
    <3>1. n \notin OutNodes /\ to \notin OutNodes
      BY <1>3, <2>2, SuccFacts, NodeFacts DEF Movers, Readers
    <3>2. QED
      BY <2>2, <3>1 DEF PushPlace
  <2>3. QED
    BY <2>1, <2>2
<1>8. ASSUME NEW x \in Flows PROVE Keeps(x)
  <2>1. {m} \subseteq At(p) /\ x \notin {} /\ Moves(p, q, {m}, {})
    BY <1>3
  <2> HIDE DEF p, q
  <2>2. QED
    BY <1>4, <1>6, <1>7, <2>1, MovesKeep
<1>9. QED
  BY <1>1, <1>8, DataKept

\* A mover that only passes the message in its hands on, with new garbage.
LEMMA HandKeeps ==
    ASSUME IInv, NEW n \in Movers, n # Mgr, pc[n] = "decide", NEW N, N \cap Flows = {},
           Moves(<<"hand", n>>, <<"out", n>>, {cur[n]}, N)
    PROVE  \A m \in Flows : Keeps(m)
<1> DEFINE p == <<"hand", n>>
           q == <<"out", n>>
<1>1. p \in Places /\ q \in Places /\ {cur[n]} \subseteq At(p) /\ Level(p) <= Level(q)
      /\ p[2] \notin OutNodes /\ q[2] \notin OutNodes /\ Moves(p, q, {cur[n]}, N)
  <2>1. /\ p \in Places /\ q \in Places /\ At(p) = {cur[n]}
        /\ Level(q) = Level(p) + 1 /\ Level(p) \in Nat /\ n \notin OutNodes
    BY HandFacts
  <2>2. QED
    BY <2>1
<1> HIDE DEF p, q
<1>2. SUFFICES ASSUME NEW m \in Flows PROVE Keeps(m)
  OBVIOUS
<1>3. m \notin N
  BY <1>2
<1>4. QED
  BY <1>1, <1>3, MovesKeep

LEMMA DataOfPass ==
    ASSUME IInv, SeenInv, DeliverInv, NEW n \in Movers, MoverPass(n) \/ MoverTerm(n)
    PROVE  SeenInv' /\ DeliverInv'
<1>1. n # Mgr /\ pc[n] = "decide" /\ Frame
  BY DEF MoverPass, MoverTerm, Frame, config
<1>2. \A i \in Inputs : {ParserGarbage(i)} \cap Flows = {}
  BY DEF ParserGarbage, Flows, Type
<1>3. \A m \in Flows : Keeps(m)
  <2>1. CASE Passes(<<"hand", n>>, <<"out", n>>, cur[n])
    <3>1. Moves(<<"hand", n>>, <<"out", n>>, {cur[n]}, {})
      BY <2>1 DEF Passes
    <3>2. QED
      BY <1>1, <3>1, HandKeeps
  <2>2. ASSUME NEW i \in Inputs, Moves(<<"hand", n>>, <<"out", n>>, {cur[n]}, {ParserGarbage(i)})
        PROVE  \A m \in Flows : Keeps(m)
    BY <1>1, <1>2, <2>2, HandKeeps
  <2>3. QED
    BY <2>1, <2>2, MoverPassStep, TermStep
<1>4. QED
  BY <1>1, <1>3, DataKept

LEMMA DataOfManager ==
    ASSUME IInv, SeenInv, DeliverInv, ManagerProcess
    PROVE  SeenInv' /\ DeliverInv'
<1>1. Frame /\ pc[Mgr] = "decide" /\ Mgr \in Nodes
  BY SuccFacts DEF ManagerProcess, Frame, config, Nodes, Readers, Movers
<1>2. Spreads(<<"hand", Mgr>>, cur[Mgr], Destinations(cur[Mgr]))
  BY ManagerStep
<1>3. cur[Mgr] \in At(<<"hand", Mgr>>)
  BY <1>1, AtFacts DEF Holding
<1>4. \A m \in Flows : Keeps(m)
  BY <1>2, <1>3, SpreadsKeep
<1>5. QED
  BY <1>1, <1>4, DataKept

LEMMA DataOfRelease ==
    ASSUME IInv, SeenInv, DeliverInv, NEW n \in OutNodes, OutRelease(n)
    PROVE  SeenInv' /\ DeliverInv'
<1>1. Frame
  BY DEF OutRelease, Frame, config
<1>2. Leaves(<<"hand", n>>, cur[n])
  BY OutReleaseStep
<1>3. <<"hand", n>> \in Places
  BY PlaceFacts DEF Nodes, Readers
<1>4. \A m \in Flows : Keeps(m)
  BY <1>2, <1>3, LeavesKeep
<1>5. QED
  BY <1>1, <1>4, DataKept

\* Nothing moves, but perhaps in feedback pipes.
LEMMA DataOfStill ==
    ASSUME IInv, IInv', SeenInv, DeliverInv, Frame, UNCHANGED <<ring, out>>, \A n \in Nodes : Holding(n)' = Holding(n)
    PROVE  SeenInv' /\ DeliverInv'
<1>1. ASSUME NEW r \in Places, r[1] # "pipe" PROVE At(r)' = At(r)
  <2>1. r[2] \in Nodes
    BY PlaceFacts
  <2>2. InRing(r[2])' = InRing(r[2]) /\ ToPush(r[2])' = ToPush(r[2]) /\ Holding(r[2])' = Holding(r[2])
    BY <2>1 DEF InRing, ToPush, Pushed, Toward
  <2>3. QED
    BY <1>1, <2>2 DEF At
<1>2. \A m \in Flows : Keeps(m)
  BY <1>1, QuietKeep
<1>3. QED
  BY <1>2, DataKept

-----------------------------------------------------------------------------
(* Steps that process a message.                                             *)

\* What has been made is all that is there.
LEMMA LiveIsMade ==
    ASSUME IInv, NEW p \in Places, NEW i \in Inputs, NEW k \in 1 .. MaxData, Data(i, k) \in At(p)
    PROVE  k <= made[i]
BY DEF IInv, CustodyInv, LiveInv, FreshInv

\* A mover processes the message in its hands.
LEMMA DataOfHand ==
    ASSUME IInv, SeenInv, DeliverInv, NEW n \in Movers, n # Mgr, pc[n] = "decide", NEW N, N \cap Flows = {},
           Moves(<<"hand", n>>, <<"out", n>>, {cur[n]}, N), seen' = seen \cup {<<n, cur[n]>>},
           UNCHANGED <<made, askers, state>>
    PROVE  SeenInv' /\ DeliverInv'
<1> DEFINE p == <<"hand", n>>
           q == <<"out", n>>
<1>0. PICK m \in Msgs : m = cur[n]
  BY HandFacts
<1>1. /\ p \in Places /\ q \in Places /\ At(p) = {m} /\ m \in Msgs
      /\ Level(q) = Level(p) + 1 /\ Level(p) \in Nat /\ n \notin OutNodes /\ n \in Nodes
  BY <1>0, HandFacts
<1>2. \A x \in Flows : Keeps(x)
  BY HandKeeps
<1>3. ~Past(m, n)
  BY <1>1 DEF Past
<1>4. m \in Flows => Past(m, n)'
  <2>1. SUFFICES ASSUME m \in Flows, NEW r \in Places, m \in At(r)' PROVE Level(r) > Level(p)
    BY DEF Past
  <2>a. Moves(p, q, {m}, N) /\ m \notin N
    BY <1>0, <2>1
  <2>2. r = q \/ (r # p /\ m \in At(r))
    BY <1>0, <1>1, <2>1, <2>a DEF Moves
  <2>3. ~(r # p /\ m \in At(r))
    <3>1. Exclude(r, p)
      BY <1>1 DEF Exclude
    <3>2. m \in At(p) /\ m \in Msgs
      BY <1>1
    <3> HIDE DEF p, q
    <3>3. QED
      BY <1>1, <3>1, <3>2, <2>1 DEF IInv, CustodyInv, UniqueInv
  <2>4. QED
    BY <1>1, <2>2, <2>3
<1>5. made \in [Inputs -> Nat] /\ made' \in [Inputs -> Nat] /\ \A i \in Inputs : made[i] <= made'[i]
  BY MadeNumbers
<1>6. \A i \in Inputs, k \in 1 .. MaxData : \A w \in Nodes :
          <<w, Data(i, k)>> \in seen' => <<w, Data(i, k)>> \in seen \/ k <= made'[i]
  <2>1. SUFFICES ASSUME NEW i \in Inputs, NEW k \in 1 .. MaxData, m = Data(i, k) PROVE k <= made[i]
    BY <1>0
  <2>2. Data(i, k) \in At(p)
    BY <1>1, <2>1
  <2> HIDE DEF p
  <2>3. QED
    BY <1>1, <2>2, LiveIsMade
<1>7. \A x \in Flows, w \in Movers : <<w, x>> \in seen' => <<w, x>> \in seen \/ (~Past(x, w) /\ Past(x, w)')
  <2>1. SUFFICES ASSUME NEW x \in Flows, NEW w \in Movers, <<w, x>> \in seen', <<w, x>> \notin seen
                 PROVE  ~Past(x, w) /\ Past(x, w)'
    OBVIOUS
  <2>2. w = n /\ x = m
    BY <1>0, <2>1
  <2>3. QED
    BY <1>3, <1>4, <2>1, <2>2
<1>8. \A x \in Flows, o \in Outputs :
          x[2] \in Wants[o] /\ (Coming(x, o) \/ (<<In(x[2]), x>> \in seen' /\ <<In(x[2]), x>> \notin seen))
          => Coming(x, o)'
  <2>1. \A x \in Flows : In(x[2]) # n
    BY PathFacts DEF Flows
  <2>2. \A x \in Flows : <<In(x[2]), x>> \in seen' => <<In(x[2]), x>> \in seen
    BY <2>1
  <2>3. QED
    BY <1>2, <2>2 DEF Keeps
<1>9. \A x \in Flows : Onward(x)
  BY <1>2 DEF Keeps
<1>10. seen \subseteq seen' /\ askers \subseteq askers' /\ (state' # "stop_fast" => state # "stop_fast")
  OBVIOUS
<1>11. QED
  BY <1>5, <1>6, <1>7, <1>8, <1>9, <1>10, DataStep

LEMMA DataOfProcess ==
    ASSUME IInv, SeenInv, DeliverInv, NEW n \in Movers, (n \in Parsers /\ ParserProcess(n[2])) \/ InterProcess(n)
    PROVE  SeenInv' /\ DeliverInv'
<1>1. CASE n \in Parsers /\ ParserProcess(n[2])
  <2>1. n # Mgr /\ n = Parser(n[2]) /\ n[2] \in Inputs
    BY <1>1, NodeFacts, SuccFacts
  <2>2. pc[n] = "decide" /\ seen' = seen \cup {<<n, cur[n]>>} /\ UNCHANGED <<made, askers, state>>
    BY <1>1, <2>1 DEF ParserProcess, config
  <2>3. \E N : N \cap Flows = {} /\ Moves(<<"hand", n>>, <<"out", n>>, {cur[n]}, N)
    <3>1. {TemplateGarbage(n[2])} \cap Flows = {} /\ {} \cap Flows = {}
      BY DEF TemplateGarbage, Flows, Type
    <3>2. \/ Passes(<<"hand", n>>, <<"out", n>>, cur[n])
          \/ Moves(<<"hand", n>>, <<"out", n>>, {cur[n]}, {TemplateGarbage(n[2])})
      BY <1>1, <2>1, ParserStep
    <3>3. \/ Moves(<<"hand", n>>, <<"out", n>>, {cur[n]}, {})
          \/ Moves(<<"hand", n>>, <<"out", n>>, {cur[n]}, {TemplateGarbage(n[2])})
      BY <3>2 DEF Passes
    <3>4. QED
      BY <3>1, <3>3
  <2>4. QED
    BY <2>1, <2>2, <2>3, DataOfHand
<1>2. CASE InterProcess(n)
  <2>1. n # Mgr /\ pc[n] = "decide" /\ seen' = seen \cup {<<n, cur[n]>>} /\ UNCHANGED <<made, askers, state>>
    BY <1>2 DEF InterProcess, config
  <2>2. Moves(<<"hand", n>>, <<"out", n>>, {cur[n]}, {}) /\ {} \cap Flows = {}
    BY <1>2, InterStep DEF Passes
  <2>3. QED
    BY <2>1, <2>2, DataOfHand
<1>3. QED
  BY <1>1, <1>2

\* A mover drops what comes when it is disabled; then an asker is behind it.
LEMMA DataOfMoverPop ==
    ASSUME IInv, StopInv, SeenInv, DeliverInv, NEW n \in Movers, MoverPop(n)
    PROVE  SeenInv' /\ DeliverInv'
<1> DEFINE p == <<"ring", n>>
           q == <<"hand", n>>
<1>1. ring[n] # <<>> /\ Frame /\ UNCHANGED <<askers, state, seen, made>> /\ n \in Readers /\ n \in Nodes
  BY DEF MoverPop, Frame, config, Readers, Nodes
<1>2. p \in Places /\ q \in Places /\ Level(q) = Level(p) + 1 /\ Level(p) \in Nat /\ n \notin OutNodes
  BY <1>1, PlaceFacts, NextLevel, LevelNumbers, NodeFacts DEF Movers
<1>a. Head(ring[n]) \in ToSet(ring[n]) /\ Head(ring[n]) \in Msgs
  <2>1. ring[n] \in Seq(Msgs)
    BY <1>1 DEF IInv, CustodyInv, PipesInv
  <2>2. QED
    BY <1>1, <2>1, TailFacts
<1>b. PICK m \in Msgs : m = Head(ring[n])
  BY <1>a
<1>3. m \in At(p) /\ m \in Msgs
  BY <1>1, <1>a, <1>b, AtFacts DEF InRing
<1>4. CASE Passes(p, q, m)
  <2>1. /\ Moves(p, q, {m}, {}) /\ {m} \subseteq At(p) /\ Level(p) <= Level(q)
        /\ p[2] \notin OutNodes /\ q[2] \notin OutNodes
    BY <1>2, <1>3, <1>4 DEF Passes
  <2> HIDE DEF p, q
  <2>2. \A x \in Flows : Keeps(x)
    BY <1>2, <2>1, MovesKeep
  <2>3. QED
    BY <1>1, <2>2, DataKept
<1>5. CASE Leaves(p, m) /\ live' = live \ {m}
  <2>1. \A x \in Flows : Onward(x) /\ (x # m => Keeps(x))
    BY <1>2, <1>5, LeavesKeep
  <2>2. m \in Flows => ~processing[n]
    <3>1. SUFFICES ASSUME m \in Flows, processing[n] PROVE FALSE
      OBVIOUS
    <3>2. ~IsEarlyTerm(n, m) /\ ~IsOldPeriodic(n, m)
      BY <3>1 DEF IsEarlyTerm, IsOldPeriodic, IsPeriodic, Flows
    <3>3. live' = live
      BY <1>b, <3>1, <3>2 DEF MoverPop
    <3>4. m \in live
      BY <1>2, <1>3 DEF IInv, CustodyInv, LiveInv
    <3>5. QED
      BY <1>5, <3>3, <3>4
  <2>3. ASSUME m \in Flows, state' # "stop_fast", askers' \cap OutNodes = {} PROVE Missed(m)'
    <3>1. n \in UpToAskers /\ n # Mgr
      <4>1. n \in UpToAskers
        BY <1>1, <2>2, <2>3 DEF StopInv
      <4>2. QED
        BY <1>1, <2>3, <4>1, UpFacts DEF StopInv
    <3>2. n \in Path(m)
      <4>1. CASE n \in Parsers
        <5>1. n[2] \in Inputs /\ n = Parser(n[2])
          BY <4>1, NodeFacts
        <5>2. p[2] = Parser(n[2]) /\ m \in At(p)
          BY <1>3, <5>1
        <5>3. m[2] = n[2]
          BY <1>2, <5>1, <5>2 DEF IInv, OriginInv
        <5>4. QED
          BY <5>1, <5>3 DEF Path
      <4>2. CASE n \in Inters
        BY <3>1, <4>2 DEF Path
      <4>3. QED
        BY <4>1, <4>2 DEF Movers
    <3>3. <<n, m>> \notin seen
      <4>1. ~Past(m, n)
        <5>1. ~(Level(p) > Level(q))
          BY <1>2
        <5>2. QED
          BY <1>2, <1>3, <5>1 DEF Past
      <4>2. QED
        BY <2>3, <4>1 DEF SeenInv
    <3>4. Past(m, n)'
      <4>1. SUFFICES ASSUME NEW r \in Places, m \in At(r)' PROVE FALSE
        BY DEF Past
      <4>2. r # p /\ m \in At(r)
        BY <1>5, <4>1 DEF Leaves
      <4>3. Exclude(r, p)
        BY <1>2 DEF Exclude
      <4> HIDE DEF p, q
      <4>4. QED
        BY <1>2, <1>3, <4>1, <4>2, <4>3 DEF IInv, CustodyInv, UniqueInv
    <3>5. UpToAskers' = UpToAskers /\ seen' = seen
      BY <1>1 DEF UpToAskers
    <3>6. QED
      BY <3>1, <3>2, <3>3, <3>4, <3>5 DEF Missed
  <2>4. made \in [Inputs -> Nat] /\ made' \in [Inputs -> Nat] /\ \A i \in Inputs : made[i] <= made'[i]
    BY <1>1, MadeNumbers
  <2>5. \A x \in Flows, o \in Outputs : x[2] \in Wants[o] /\ Coming(x, o) => x = m \/ Coming(x, o)'
    BY <2>1 DEF Keeps
  <2>6. \A x \in Flows : Onward(x)
    BY <2>1
  <2>7. QED
    BY <1>1, <2>3, <2>4, <2>5, <2>6, DataStep
<1>6. QED
  BY <1>b, <1>4, <1>5, PopStep

\* An enabled output processes the data it takes.
LEMMA DataOfOutPop ==
    ASSUME IInv, StopInv, SeenInv, DeliverInv, NEW n \in OutNodes, OutPop(n), askers \subseteq askers'
    PROVE  SeenInv' /\ DeliverInv'
<1> DEFINE p == <<"ring", n>>
           q == <<"hand", n>>
<1>1. ring[n] # <<>> /\ UNCHANGED <<state, made>> /\ n \in Readers /\ n \in Nodes
  BY DEF OutPop, config, Readers, Nodes
<1>2. p \in Places /\ q \in Places /\ Level(q) = Level(p) + 1 /\ Level(p) \in Nat /\ n \notin Movers
  BY <1>1, PlaceFacts, NextLevel, LevelNumbers, NodeFacts DEF Movers
<1>3. Head(ring[n]) \in ToSet(ring[n]) /\ Head(ring[n]) \in Msgs
  <2>1. ring[n] \in Seq(Msgs)
    BY <1>1 DEF IInv, CustodyInv, PipesInv
  <2>2. QED
    BY <1>1, <2>1, TailFacts
<1>4. PICK m \in Msgs : m = Head(ring[n])
  BY <1>3
<1>5. m \in At(p)
  BY <1>1, <1>3, <1>4, AtFacts DEF InRing
<1>6. seen' = IF processing[n] /\ IsData(m) THEN seen \cup {<<n, m>>} ELSE seen
  BY <1>4 DEF OutPop
<1>7. Moves(p, q, {m}, {})
  BY <1>4, OutPopStep DEF Passes
<1>8. ASSUME NEW x \in Flows PROVE Onward(x)
  <2>1. SUFFICES ASSUME NEW r \in Places, x \in At(r)' PROVE \E t \in Places : x \in At(t) /\ Level(t) <= Level(r)
    BY DEF Onward
  <2>2. x \in At(r) \/ (r = q /\ x \in At(p))
    BY <1>5, <1>7, <2>1 DEF Moves
  <2>3. Level(r) <= Level(r) /\ Level(p) <= Level(q)
    BY <1>2, LevelNumbers
  <2>4. QED
    BY <1>2, <2>1, <2>2, <2>3
<1>9. made \in [Inputs -> Nat] /\ made' \in [Inputs -> Nat] /\ \A i \in Inputs : made[i] <= made'[i]
  BY <1>1, MadeNumbers
<1>10. \A i \in Inputs, k \in 1 .. MaxData : \A w \in Nodes :
          <<w, Data(i, k)>> \in seen' => <<w, Data(i, k)>> \in seen \/ k <= made'[i]
  <2>1. SUFFICES ASSUME NEW i \in Inputs, NEW k \in 1 .. MaxData, m = Data(i, k) PROVE k <= made[i]
    BY <1>1, <1>6
  <2>2. Data(i, k) \in At(p)
    BY <1>5, <2>1
  <2> HIDE DEF p
  <2>3. QED
    BY <1>2, <2>2, LiveIsMade
<1>11. \A x \in Flows, w \in Movers : <<w, x>> \in seen' => <<w, x>> \in seen
  BY <1>2, <1>6
<1>12. \A x \in Flows : <<In(x[2]), x>> \in seen' => <<In(x[2]), x>> \in seen
  <2>1. SUFFICES ASSUME NEW x \in Flows PROVE In(x[2]) # n
    BY <1>6
  <2>2. In(x[2]) \in InNodes
    BY PathFacts, NodeFacts DEF Flows
  <2>3. QED
    BY <1>1, <2>2, NodeFacts
<1>13. ASSUME NEW x \in Flows, NEW o \in Outputs, state' # "stop_fast", askers' \cap OutNodes = {}, Coming(x, o)
       PROVE  <<Out(o), x>> \in seen' \/ Coming(x, o)'
  <2>1. PICK r \in Places : x \in At(r) /\ (r[2] \notin OutNodes \/ r \in Lane(o))
    BY <1>13 DEF Coming
  <2>2. CASE r # p \/ x # m
    <3>1. x \in At(r)'
      BY <1>7, <2>1, <2>2 DEF Moves
    <3>2. QED
      BY <2>1, <3>1 DEF Coming
  <2>3. CASE r = p /\ x = m
    <3>1. n = Out(o)
      BY <2>1, <2>3 DEF Lane
    <3>2. processing[n]
      <4>1. askers \cap OutNodes = {} /\ askers \subseteq Nodes \ {Mgr}
        BY <1>13 DEF StopInv
      <4>2. n \notin UpToAskers
        BY <4>1, UpFacts
      <4>3. QED
        BY <1>1, <1>13, <4>2 DEF StopInv
    <3>3. IsData(m)
      BY <2>3 DEF Flows, IsData
    <3>4. QED
      BY <1>6, <2>3, <3>1, <3>2, <3>3
  <2>4. QED
    BY <2>2, <2>3
<1>14. seen \subseteq seen'
  BY <1>6
<1>15. QED
  BY <1>1, <1>8, <1>9, <1>10, <1>11, <1>12, <1>13, <1>14, DataStep

\* What an input makes is new.
LEMMA NewIsUnseen ==
    ASSUME IInv, SeenInv, NEW i \in Inputs, made[i] < MaxData
    PROVE  /\ \A n \in Nodes : <<n, Data(i, made[i] + 1)>> \notin seen
           /\ made[i] + 1 \in 1 .. MaxData /\ Data(i, made[i] + 1) \in Flows
<1>1. made[i] \in Nat /\ MaxData \in Nat
  BY MadeNumbers, SizesAssumption
<1>2. PICK k \in 1 .. MaxData : k = made[i] + 1
  BY <1>1
<1>3. Data(i, k) \in Flows
  BY MsgFacts DEF Flows, Data, Type
<1>4. ~(k <= made[i])
  BY <1>1, <1>2
<1>5. \A n \in Nodes : <<n, Data(i, k)>> \notin seen
  BY <1>4 DEF SeenInv
<1>6. QED
  BY <1>2, <1>3, <1>5

\* An input passes on the messages S of its feedback pipe and makes N.
LEMMA InputKeeps ==
    ASSUME IInv, NEW i \in Inputs, NEW S, NEW N, S \subseteq At(<<"pipe", In(i)>>),
           Moves(<<"pipe", In(i)>>, <<"out", In(i)>>, S, N), NEW m, m \notin N
    PROVE  Keeps(m)
<1>1. In(i) \in InNodes /\ In(i) \in Nodes /\ In(i) \notin OutNodes
  BY NodeFacts DEF Nodes, Readers
<1> DEFINE p == <<"pipe", In(i)>>
           q == <<"out", In(i)>>
<1>2. p \in Places /\ q \in Places /\ p[2] \notin OutNodes /\ q[2] \notin OutNodes
  BY <1>1, PlaceFacts
<1>3. Level(p) <= Level(q)
  <2>1. Level(p) = 3 * Place(In(i)) /\ Level(q) = 3 * Place(In(i)) + 3 /\ Place(In(i)) = 1
    BY <1>1, Levels, PlaceNumbers DEF Level
  <2>2. QED
    BY <2>1
<1>4. Moves(p, q, S, N) /\ S \subseteq At(p)
  OBVIOUS
<1> HIDE DEF p, q
<1>5. QED
  BY <1>2, <1>3, <1>4, MovesKeep

LEMMA DataOfInput ==
    ASSUME IInv, SeenInv, DeliverInv, NEW i \in Inputs, NEW S, NEW N, S \subseteq At(<<"pipe", In(i)>>),
           Moves(<<"pipe", In(i)>>, <<"out", In(i)>>, S, N), Makes(i, N), UNCHANGED <<askers, state>>,
           IF made' = made THEN seen' = seen ELSE seen' = seen \cup {<<In(i), Data(i, made[i] + 1)>>}
    PROVE  SeenInv' /\ DeliverInv'
<1>1. made \in [Inputs -> Nat]
  BY MadeNumbers
<1>2. CASE made' = made
  <2>1. N \cap Flows = {}
    <3>1. N # {Data(i, made[i] + 1)} \/ made' # [made EXCEPT ![i] = @ + 1]
      BY <1>1, <1>2
    <3>2. N \subseteq {Close(i), SessionGarbage(i)}
      BY <3>1 DEF Makes
    <3>3. QED
      BY <3>2 DEF Close, SessionGarbage, Flows, Type
  <2>2. \A m \in Flows : Keeps(m)
    BY <2>1, InputKeeps
  <2>3. Frame
    BY <1>2 DEF Frame
  <2>4. QED
    BY <2>2, <2>3, DataKept
<1>3. CASE made' # made
  <2>1. N = {Data(i, made[i] + 1)} /\ made[i] < MaxData /\ made' = [made EXCEPT ![i] = @ + 1]
    BY <1>3 DEF Makes
  <2>2. PICK k \in 1 .. MaxData : k = made[i] + 1
    BY <2>1, NewIsUnseen
  <2>3. PICK d \in Flows : d = Data(i, k)
    BY <2>1, <2>2, NewIsUnseen
  <2>4. N = {d} /\ seen' = seen \cup {<<In(i), d>>} /\ \A n \in Nodes : <<n, d>> \notin seen
    BY <1>3, <2>1, <2>2, <2>3, NewIsUnseen
  <2>5. \A m \in Flows : m # d => Keeps(m)
    BY <2>4, InputKeeps
  <2>6. In(i) \in Nodes /\ In(i) \notin OutNodes /\ In(i) \notin Movers /\ <<"out", In(i)>> \in Places
    BY NodeFacts, PlaceFacts DEF Nodes, Readers, Movers
  <2>7. \A o \in Outputs : Coming(d, o)'
    <3>1. d \in At(<<"out", In(i)>>)'
      BY <2>4, <2>6 DEF Moves
    <3>2. QED
      BY <2>6, <3>1 DEF Coming
  <2>8. made' \in [Inputs -> Nat] /\ \A j \in Inputs : made[j] <= made'[j]
    BY <1>1, <2>1
  <2>9. \A m \in Flows : Onward(m) \/ \A n \in Nodes : <<n, m>> \notin seen
    BY <2>4, <2>5 DEF Keeps
  <2>10. \A j \in Inputs, l \in 1 .. MaxData : \A n \in Nodes :
             <<n, Data(j, l)>> \in seen' => <<n, Data(j, l)>> \in seen \/ l <= made'[j]
    <3>1. SUFFICES ASSUME NEW j \in Inputs, NEW l \in 1 .. MaxData, Data(j, l) = d PROVE l <= made'[j]
      BY <2>4
    <3>2. j = i /\ l = k
      BY <2>3, <3>1 DEF Data
    <3>3. made'[i] = k /\ k \in Nat
      BY <1>1, <2>1, <2>2
    <3>4. QED
      BY <3>2, <3>3
  <2>11. \A m \in Flows, n \in Movers : <<n, m>> \in seen' => <<n, m>> \in seen
    BY <2>4, <2>6
  <2>12. \A m \in Flows, o \in Outputs :
             m[2] \in Wants[o] /\ (Coming(m, o) \/ (<<In(m[2]), m>> \in seen' /\ <<In(m[2]), m>> \notin seen))
             => Coming(m, o)'
    BY <2>4, <2>5, <2>7 DEF Keeps
  <2>13. seen \subseteq seen' /\ askers \subseteq askers' /\ (state' # "stop_fast" => state # "stop_fast")
    BY <2>4
  <2>14. QED
    BY <1>1, <2>8, <2>9, <2>10, <2>11, <2>12, <2>13, DataStep
<1>4. QED
  BY <1>2, <1>3

LEMMA DataOfInputStep ==
    ASSUME IInv, SeenInv, DeliverInv, NEW i \in Inputs, InputPipe(i) \/ InputGet(i)
    PROVE  SeenInv' /\ DeliverInv'
<1>1. In(i) \in InNodes /\ In(i) \in Nodes /\ In(i)[2] = i
  BY NodeFacts DEF Nodes
<1>2. CASE InputPipe(i)
  <2>1. UNCHANGED <<askers, state, made, seen>> /\ fpipe[i] # <<>>
    BY <1>2 DEF InputPipe, config
  <2>2. {Head(fpipe[i])} \subseteq At(<<"pipe", In(i)>>)
    <3>1. fpipe[i] \in Seq(Msgs)
      BY DEF IInv, CustodyInv, PipesInv
    <3>2. Head(fpipe[i]) \in ToSet(fpipe[i])
      BY <2>1, <3>1, TailFacts
    <3>3. At(<<"pipe", In(i)>>) = ToSet(fpipe[i])
      BY <1>1, AtFacts
    <3>4. QED
      BY <3>2, <3>3
  <2>3. PICK N \in SUBSET Msgs : Makes(i, N) /\ Moves(<<"pipe", In(i)>>, <<"out", In(i)>>, {Head(fpipe[i])}, N)
    BY <1>2, InputPipeStep
  <2>4. QED
    BY <2>1, <2>2, <2>3, DataOfInput
<1>3. CASE InputGet(i)
  <2>1. UNCHANGED <<askers, state>>
    BY <1>3 DEF InputGet, config
  <2>2. IF made' = made THEN seen' = seen ELSE seen' = seen \cup {<<In(i), Data(i, made[i] + 1)>>}
    <3>1. made \in [Inputs -> Nat]
      BY MadeNumbers
    <3>2. [made EXCEPT ![i] = @ + 1] # made
      BY <3>1
    <3>3. \/ made' = [made EXCEPT ![i] = @ + 1] /\ seen' = seen \cup {<<In(i), Data(i, made[i] + 1)>>}
          \/ made' = made /\ seen' = seen
      BY <1>3 DEF InputGet
    <3>4. QED
      BY <3>2, <3>3
  <2>3. PICK N \in SUBSET Msgs : Makes(i, N) /\ Moves(<<"pipe", In(i)>>, <<"out", In(i)>>, {}, N)
    BY <1>3, InputGetStep
  <2>4. {} \subseteq At(<<"pipe", In(i)>>)
    OBVIOUS
  <2>5. QED
    BY <2>1, <2>2, <2>3, <2>4, DataOfInput
<1>4. QED
  BY <1>2, <1>3

-----------------------------------------------------------------------------
(* Who is disabled.                                                          *)

LEMMA ByAskersAppend ==
    ASSUME NEW s \in Seq(Requests), NEW x \in Requests, NEW A, NEW B, A \subseteq B, ByAskers(s, A),
           x[1] = "slow" /\ x[2] \in Nodes => x[2] \in B
    PROVE  ByAskers(Append(s, x), B)
<1>1. /\ DOMAIN Append(s, x) = DOMAIN s \cup {Len(s) + 1} /\ Append(s, x)[Len(s) + 1] = x
      /\ \A k \in DOMAIN s : Append(s, x)[k] = s[k]
  OBVIOUS
<1>2. ASSUME NEW k \in DOMAIN Append(s, x), Append(s, x)[k][1] = "slow", Append(s, x)[k][2] \in Nodes
      PROVE  Append(s, x)[k][2] \in B
  <2>1. CASE k \in DOMAIN s
    BY <1>1, <1>2, <2>1 DEF ByAskers
  <2>2. CASE k = Len(s) + 1
    BY <1>1, <1>2, <2>2
  <2>3. QED
    BY <1>1, <1>2, <2>1, <2>2
<1>3. QED
  BY <1>2 DEF ByAskers

LEMMA ByAskersTail ==
    ASSUME NEW s \in Seq(Requests), s # <<>>, NEW A, ByAskers(s, A)
    PROVE  ByAskers(Tail(s), A) /\ (Head(s)[1] = "slow" /\ Head(s)[2] \in Nodes => Head(s)[2] \in A)
<1>1. \A k \in DOMAIN Tail(s) : k + 1 \in DOMAIN s /\ Tail(s)[k] = s[k + 1]
  BY TailFacts
<1>2. 1 \in DOMAIN s /\ Head(s) = s[1]
  OBVIOUS
<1>3. ByAskers(Tail(s), A)
  BY <1>1 DEF ByAskers
<1>4. QED
  BY <1>2, <1>3 DEF ByAskers

\* Nothing but a notification or a signal is written.
LEMMA QuietPipe ==
    ASSUME IInv, ByAskers(cpipe, askers),
           cpipe' = cpipe \/ \E type \in {"slow", "fast", "done"} : cpipe' = Append(cpipe, <<type, NoMsg>>)
    PROVE  ByAskers(cpipe', askers)
<1>1. CASE cpipe' = cpipe
  BY <1>1
<1>2. ASSUME NEW type \in {"slow", "fast", "done"}, cpipe' = Append(cpipe, <<type, NoMsg>>)
      PROVE  ByAskers(cpipe', askers)
  <2>1. cpipe \in Seq(Requests) /\ <<type, NoMsg>> \in Requests
    BY DEF IInv, CustodyInv, PipesInv, Requests
  <2>2. <<type, NoMsg>>[2] \notin Nodes /\ askers \subseteq askers
    BY NodeFacts
  <2>3. QED
    BY <1>2, <2>1, <2>2, ByAskersAppend
<1>3. QED
  BY <1>1, <1>2

LEMMA StopOfThread ==
    ASSUME IInv, StopInv, UNCHANGED <<askers, processing, stops, state>>, rc'[Mgr] = "ok",
           cpipe' = cpipe \/ \E type \in {"slow", "fast", "done"} : cpipe' = Append(cpipe, <<type, NoMsg>>)
    PROVE  StopInv'
<1>1. UpToAskers' = UpToAskers
  BY DEF UpToAskers
<1>2. ByAskers(cpipe, askers) => ByAskers(cpipe', askers)
  BY QuietPipe
<1>3. QED
  BY <1>1, <1>2 DEF StopInv

LEMMA StopOfRc ==
    ASSUME IInv, StopInv, NEW n \in Nodes, NEW code \in RetCodes, code # "ok" => n # Mgr, HandleRc(n, code),
           UNCHANGED <<stops, state>>, rc'[Mgr] = "ok"
    PROVE  StopInv' /\ askers \subseteq askers'
<1>1. CASE code = "ok"
  <2>1. UNCHANGED <<processing, cpipe, askers>>
    BY <1>1 DEF HandleRc
  <2>2. QED
    BY <2>1, StopOfThread
<1>2. CASE code # "ok"
  <2>1. /\ processing' = [processing EXCEPT ![n] = FALSE] /\ cpipe' = Append(cpipe, <<code, n>>)
        /\ askers' = askers \cup {n}
    BY <1>2 DEF HandleRc
  <2>2. askers' \subseteq Nodes \ {Mgr} /\ askers \subseteq askers'
    BY <1>2, <2>1 DEF StopInv
  <2>3. UpToAskers \subseteq UpToAskers' /\ n \in UpToAskers'
    <3>1. Place(n) <= Place(n)
      BY PlaceNumbers
    <3>2. n \in UpToAskers'
      BY <2>1, <3>1 DEF UpToAskers
    <3>3. QED
      BY <2>2, <3>2, UpGrows
  <2>4. cpipe \in Seq(Requests) /\ <<code, n>> \in Requests
    BY <1>2 DEF IInv, CustodyInv, PipesInv, Requests, RetCodes
  <2>5. <<code, n>>[2] \in askers'
    BY <2>1
  <2>6. ByAskers(cpipe, askers) => ByAskers(cpipe', askers')
    BY <2>1, <2>2, <2>4, <2>5, ByAskersAppend
  <2>7. \A k \in Nodes : (processing[k] \/ k \in UpToAskers) => (processing'[k] \/ k \in UpToAskers')
    <3>1. processing \in [Nodes -> BOOLEAN]
      BY DEF IInv, NumbersInv
    <3>2. \A k \in Nodes : k # n => processing'[k] = processing[k]
      BY <2>1, <3>1
    <3>3. QED
      BY <2>3, <3>2
  <2>8. QED
    BY <2>2, <2>3, <2>6, <2>7 DEF StopInv
<1>3. QED
  BY <1>1, <1>2

\* What a request disables is up to the instance that has made it.
UpTo(n) == {x \in Nodes : Place(x) <= Place(n)}

LEMMA StopPartlyUp ==
    ASSUME NEW n \in Nodes
    PROVE  ToSet(StopPartly(n)) \subseteq UpTo(n)
<1> DEFINE S == UpTo(n)
<1>1. NIn \in Nat /\ NOut \in Nat /\ NInter \in Nat
  BY SizesAssumption
<1>2. /\ \A i \in 1 .. NIn : In(i) \in Nodes /\ Place(In(i)) = 1
      /\ \A i \in 1 .. NIn : Parser(i) \in Nodes /\ Place(Parser(i)) = 2
      /\ \A k \in 1 .. NInter + 1 : Inter(k) \in Nodes /\ Place(Inter(k)) = 2 + k
      /\ \A o \in 1 .. NOut : Out(o) \in Nodes /\ Place(Out(o)) = NInter + 4
  <2>1. /\ \A i \in Inputs : In(i) \in InNodes /\ Parser(i) \in Parsers
        /\ \A k \in 1 .. NInter + 1 : Inter(k) \in Inters /\ Inter(k)[2] = k
        /\ \A o \in Outputs : Out(o) \in OutNodes
    BY NodeFacts
  <2>2. \A i \in Inputs : In(i) \in Nodes /\ Place(In(i)) = 1 /\ Parser(i) \in Nodes /\ Place(Parser(i)) = 2
    BY <2>1, PlaceNumbers DEF Nodes, Readers, Movers
  <2>3. \A k \in 1 .. NInter + 1 : Inter(k) \in Nodes /\ Place(Inter(k)) = 2 + k
    BY <2>1, PlaceNumbers DEF Nodes, Readers, Movers
  <2>4. \A o \in Outputs : Out(o) \in Nodes /\ Place(Out(o)) = NInter + 4
    BY <2>1, PlaceNumbers DEF Nodes, Readers
  <2>5. QED
    BY <2>2, <2>3, <2>4 DEF Inputs, Outputs
<1>3. ASSUME Place(n) >= 1 PROVE [i \in 1 .. NIn |-> In(i)] \in Seq(S)
  <2>1. \A i \in 1 .. NIn : In(i) \in S
    BY <1>2, <1>3 DEF UpTo
  <2> HIDE DEF S
  <2>2. QED
    BY <1>1, <2>1, IsASeq
<1>4. ASSUME Place(n) >= 2 PROVE [i \in 1 .. NIn |-> Parser(i)] \in Seq(S)
  <2>1. \A i \in 1 .. NIn : Parser(i) \in S
    BY <1>2, <1>4 DEF UpTo
  <2> HIDE DEF S
  <2>2. QED
    BY <1>1, <2>1, IsASeq
<1>5. ASSUME NEW to \in 0 .. NInter + 1, Place(n) >= 2 + to PROVE [k \in 1 .. to |-> Inter(k)] \in Seq(S)
  <2>1. \A k \in 1 .. to : Inter(k) \in S
    <3>1. SUFFICES ASSUME NEW k \in 1 .. to PROVE Inter(k) \in S
      OBVIOUS
    <3>2. k \in 1 .. NInter + 1 /\ Place(n) \in Nat /\ 2 + k <= Place(n)
      BY <1>1, <1>5, PlaceNumbers
    <3>3. QED
      BY <1>2, <3>2 DEF UpTo
  <2> HIDE DEF S
  <2>2. to \in Nat
    BY <1>1
  <2>3. QED
    BY <2>1, <2>2, IsASeq
<1>6. ASSUME Place(n) >= NInter + 4 PROVE [o \in 1 .. NOut |-> Out(o)] \in Seq(S)
  <2>1. \A o \in 1 .. NOut : Out(o) \in S
    BY <1>2, <1>6 DEF UpTo
  <2> HIDE DEF S
  <2>2. QED
    BY <1>1, <2>1, IsASeq
<1>7. /\ n \in InNodes => n \notin Parsers /\ n \notin Inters /\ n \notin OutNodes
      /\ n \in Parsers => n \notin Inters /\ n \notin OutNodes
      /\ n \in Inters => n \notin OutNodes
      /\ n # NoMsg
      /\ n \in InNodes \/ n \in Parsers \/ n \in Inters \/ n \in OutNodes
  BY NodeFacts DEF Nodes, Readers, Movers
<1>8. StopPartly(n) \in Seq(S)
  <2>1. CASE n \in InNodes
    <3>1. StopPartly(n) = [i \in 1 .. NIn |-> In(i)]
      BY <1>7, <2>1, Zenon DEF StopPartly, Inputs
    <3>2. Place(n) >= 1
      BY <2>1, PlaceNumbers
    <3>3. QED
      BY <1>3, <3>1, <3>2
  <2>2. CASE n \in Parsers
    <3>1. StopPartly(n) = [i \in 1 .. NIn |-> In(i)] \o [i \in 1 .. NIn |-> Parser(i)]
      BY <1>7, <2>2, Zenon DEF StopPartly, Inputs
    <3>2. Place(n) >= 1 /\ Place(n) >= 2
      BY <2>2, PlaceNumbers
    <3> HIDE DEF S
    <3>3. QED
      BY <1>3, <1>4, <3>1, <3>2, ConcatProperties
  <2>3. CASE n \in Inters
    <3>1. StopPartly(n) = [i \in 1 .. NIn |-> In(i)] \o [i \in 1 .. NIn |-> Parser(i)] \o [k \in 1 .. n[2] |-> Inter(k)]
      BY <1>7, <2>3, Zenon DEF StopPartly, Inputs
    <3>2. Place(n) >= 1 /\ Place(n) >= 2 /\ Place(n) >= 2 + n[2] /\ n[2] \in 0 .. NInter + 1
      BY <1>1, <2>3, PlaceNumbers
    <3>3. PICK s \in Seq(S) : s = [i \in 1 .. NIn |-> In(i)]
      BY <1>3, <3>2
    <3>4. PICK t \in Seq(S) : t = [i \in 1 .. NIn |-> Parser(i)]
      BY <1>4, <3>2
    <3>5. PICK u \in Seq(S) : u = [k \in 1 .. n[2] |-> Inter(k)]
      BY <1>5, <3>2
    <3> HIDE DEF S
    <3>6. s \o t \o u \in Seq(S)
      OBVIOUS
    <3>7. QED
      BY <3>1, <3>3, <3>4, <3>5, <3>6
  <2>4. CASE n \in OutNodes
    <3>1. StopPartly(n) = [i \in 1 .. NIn |-> In(i)] \o [i \in 1 .. NIn |-> Parser(i)]
                              \o [k \in 1 .. NInter + 1 |-> Inter(k)] \o [o \in 1 .. NOut |-> Out(o)]
      BY <1>7, <2>4, Zenon DEF StopPartly, Inputs, Outputs
    <3>2. /\ Place(n) >= 1 /\ Place(n) >= 2 /\ Place(n) >= 2 + (NInter + 1) /\ Place(n) >= NInter + 4
          /\ NInter + 1 \in 0 .. NInter + 1
      BY <1>1, <2>4, PlaceNumbers
    <3>3. PICK s \in Seq(S) : s = [i \in 1 .. NIn |-> In(i)]
      BY <1>3, <3>2
    <3>4. PICK t \in Seq(S) : t = [i \in 1 .. NIn |-> Parser(i)]
      BY <1>4, <3>2
    <3>5. PICK u \in Seq(S) : u = [k \in 1 .. NInter + 1 |-> Inter(k)]
      BY <1>5, <3>2
    <3>6. PICK v \in Seq(S) : v = [o \in 1 .. NOut |-> Out(o)]
      BY <1>6, <3>2
    <3> HIDE DEF S
    <3>7. s \o t \o u \o v \in Seq(S)
      OBVIOUS
    <3>8. QED
      BY <3>1, <3>3, <3>4, <3>5, <3>6, <3>7
  <2>5. QED
    BY <1>7, <2>1, <2>2, <2>3, <2>4
<1> HIDE DEF S
<1>9. \A s \in Seq(S) : ToSet(s) \subseteq S
  BY DEF ToSet
<1>10. QED
  BY <1>8, <1>9 DEF S

LEMMA StopOfReceive ==
    ASSUME IInv, StopInv, Receive
    PROVE  StopInv' /\ UNCHANGED askers /\ (state' # "stop_fast" => state # "stop_fast")
<1> DEFINE tick == IF periods < MaxPeriodic THEN <<<<"periodic", NoMsg>>>> ELSE <<>>
<1>1. cpipe \in Seq(Requests) /\ <<"periodic", NoMsg>> \in Requests
  BY DEF IInv, CustodyInv, PipesInv, Requests
<1>2. PICK queue \in Seq(Requests) :
          queue = cpipe \o tick /\ \A A : ByAskers(cpipe, A) => ByAskers(queue, A)
  <2>1. CASE periods < MaxPeriodic
    <3>1. cpipe \o tick = Append(cpipe, <<"periodic", NoMsg>>)
      BY <1>1, <2>1
    <3>2. Append(cpipe, <<"periodic", NoMsg>>) \in Seq(Requests)
      BY <1>1
    <3>3. \A A : ByAskers(cpipe, A) => ByAskers(Append(cpipe, <<"periodic", NoMsg>>), A)
      <4>1. SUFFICES ASSUME NEW A, ByAskers(cpipe, A) PROVE ByAskers(Append(cpipe, <<"periodic", NoMsg>>), A)
        OBVIOUS
      <4>2. <<"periodic", NoMsg>>[1] # "slow" /\ A \subseteq A
        OBVIOUS
      <4>3. QED
        BY <1>1, <4>1, <4>2, ByAskersAppend
    <3>4. QED
      BY <3>1, <3>2, <3>3
  <2>2. CASE ~(periods < MaxPeriodic)
    BY <1>1, <2>2
  <2>3. QED
    BY <2>1, <2>2
<1>3. stops = <<>> /\ queue # <<>> /\ cpipe' = Tail(queue) /\ UNCHANGED <<askers, processing, rc>>
  BY <1>2 DEF Receive, threads
<1>4. PICK req \in Requests : req = Head(queue)
  BY <1>3, TailFacts
<1>5. /\ ByAskers(queue, askers) => ByAskers(cpipe', askers)
      /\ ByAskers(queue, askers) /\ req[1] = "slow" /\ req[2] \in Nodes => req[2] \in askers
  BY <1>3, <1>4, ByAskersTail
<1>6. req[2] \in Nodes \cup {NoMsg} /\ req[1] \in {"slow", "fast", "done", "periodic"}
  BY DEF Requests
<1>7. \/ state' = state /\ stops' = stops
      \/ req[1] \in {"slow", "fast"} /\ HandleRequest(req[1], req[2])
  <2>1. req[1] = "periodic" => UNCHANGED <<state, stops>>
    BY <1>2, <1>4 DEF Receive
  <2>2. req[1] = "done" => UNCHANGED <<state, stops>>
    BY <1>2, <1>4 DEF Receive, HandleDone
  <2>3. req[1] \in {"slow", "fast"} => HandleRequest(req[1], req[2])
    BY <1>2, <1>4 DEF Receive


  <2>4. QED
    BY <1>6, <2>1, <2>2, <2>3
<1> HIDE DEF tick
<1>8. state' # "stop_fast" => state # "stop_fast"
  BY <1>7 DEF HandleRequest, NextState
<1>9. UpToAskers' = UpToAskers
  BY <1>3 DEF UpToAskers
<1>10. ASSUME state' # "stop_fast" PROVE ToSet(stops') \subseteq UpToAskers
  <2>1. state # "stop_fast" /\ ByAskers(queue, askers)
    BY <1>2, <1>8, <1>10 DEF StopInv
  <2>2. CASE stops' = stops
    BY <2>1, <2>2 DEF StopInv
  <2>3. CASE req[1] \in {"slow", "fast"} /\ HandleRequest(req[1], req[2])
    <3>1. req[1] = "slow" /\ stops' = StopPartly(req[2])
      BY <1>10, <2>1, <2>3 DEF HandleRequest, NextState
    <3>2. CASE req[2] = NoMsg
      <4>1. StopPartly(NoMsg) = <<>>
        <5>1. NoMsg \notin InNodes /\ NoMsg \notin Parsers /\ NoMsg \notin Inters /\ NoMsg \notin OutNodes
          BY NodeFacts DEF Nodes, Readers, Movers
        <5>2. QED
          BY <5>1, Zenon DEF StopPartly

      <4>2. QED
        BY <3>1, <3>2, <4>1, EmptyFacts
    <3>3. CASE req[2] \in Nodes
      <4>1. PICK n \in Nodes : n = req[2] /\ n \in askers
        BY <1>5, <2>1, <3>1, <3>3
      <4>2. UpTo(n) \subseteq UpToAskers
        BY <4>1 DEF UpTo, UpToAskers
      <4>3. QED
        BY <3>1, <4>1, <4>2, StopPartlyUp
    <3>4. QED
      BY <1>6, <3>2, <3>3
  <2>4. QED
    BY <1>7, <2>2, <2>3
<1>11. StopInv'
  BY <1>2, <1>3, <1>5, <1>8, <1>9, <1>10 DEF StopInv
<1>12. QED
  BY <1>3, <1>8, <1>11

LEMMA StopOfStopNext ==
    ASSUME IInv, StopInv, StopNext
    PROVE  StopInv' /\ UNCHANGED <<askers, state>>
<1>1. /\ stops # <<>> /\ stops' = Tail(stops) /\ processing' = [processing EXCEPT ![Head(stops)] = FALSE]
      /\ UNCHANGED <<askers, state, cpipe, rc>>
  BY DEF StopNext, threads
<1>2. Head(stops) \in Nodes /\ Head(stops) \in ToSet(stops) /\ ToSet(stops) = ToSet(stops') \cup {Head(stops)}
  <2>1. stops \in Seq(Nodes)
    BY DEF IInv, CustodyInv, PipesInv
  <2>2. QED
    BY <1>1, <2>1, TailFacts
<1>3. PICK h \in Nodes : h = Head(stops)
  BY <1>2
<1>4. UpToAskers' = UpToAskers
  BY <1>1 DEF UpToAskers
<1>5. processing \in [Nodes -> BOOLEAN] /\ \A n \in Nodes : n # h => processing'[n] = processing[n]
  BY <1>1, <1>3 DEF IInv, NumbersInv
<1>6. QED
  BY <1>1, <1>2, <1>3, <1>4, <1>5 DEF StopInv

-----------------------------------------------------------------------------
(* Every step keeps the invariant.                                           *)

\* A thread does something that is neither a request nor a signal; what it processes
\* is kept by SeenInv and DeliverInv.
LEMMA StopOfStep ==
    ASSUME IInv, StopInv,
           \/ \E n \in InNodes \cup Movers : PushOne(n)
           \/ \E i \in Inputs : InputPipe(i) \/ InputGet(i) \/ InputSkip(i)
           \/ \E n \in Movers : \/ MoverPop(n) \/ MoverPass(n) \/ MoverTerm(n) \/ InterProcess(n)
                                \/ n \in Parsers /\ ParserProcess(n[2])
           \/ ManagerProcess
           \/ \E n \in OutNodes : OutRelease(n) \/ OutDestroy(n)
           \/ Cleanup \/ Signal \/ UNCHANGED vars
    PROVE  StopInv'
<1> DEFINE PipeKept == cpipe' = cpipe \/ \E type \in {"slow", "fast", "done"} : cpipe' = Append(cpipe, <<type, NoMsg>>)
<1>1. rc \in [Nodes -> RetCodes] /\ rc[Mgr] = "ok" /\ Mgr \in Nodes
  BY SuccFacts DEF StopInv, IInv, CustodyInv, ThreadInv, Nodes, Readers, Movers
<1>2. \A m : Destroy(m) => PipeKept
  BY DEF Destroy
<1> SUFFICES UNCHANGED <<askers, processing, stops, state>> /\ rc'[Mgr] = "ok" /\ PipeKept
  BY StopOfThread
<1>3. \A n, m, ps, code : n \in Nodes /\ Start(n, m, ps, code) /\ (n = Mgr => code = "ok") => rc'[Mgr] = "ok"
  BY <1>1 DEF Start
<1> HIDE DEF PipeKept
<1>4. cpipe' = cpipe => PipeKept
  BY DEF PipeKept
<1>5. ASSUME NEW n \in InNodes \cup Movers, PushOne(n)
      PROVE  UNCHANGED <<askers, processing, stops, state>> /\ rc'[Mgr] = "ok" /\ PipeKept
  <2>1. UNCHANGED <<askers, processing, config, cpipe>> /\ Start(n, cur[n], Tail(out[n]), rc[n])
    BY <1>5, Zenon DEF PushOne
  <2>2. UNCHANGED <<stops, state>> /\ rc' = [rc EXCEPT ![n] = rc[n]]
    BY <2>1 DEF Start, config
  <2>3. QED
    BY <1>1, <1>4, <2>1, <2>2

<1>6. ASSUME NEW i \in Inputs, InputPipe(i) \/ InputGet(i) \/ InputSkip(i)
      PROVE  UNCHANGED <<askers, processing, stops, state>> /\ rc'[Mgr] = "ok" /\ PipeKept
  <2>1. In(i) # Mgr /\ In(i) \in Nodes
    BY NodeFacts, SuccFacts DEF Nodes, Readers, Movers
  <2>2. /\ UNCHANGED <<askers, processing, stops, state, cpipe>>
        /\ rc' = rc \/ \E code : rc' = [rc EXCEPT ![In(i)] = code]
    BY <1>6 DEF InputPipe, InputGet, InputSkip, Start, config
  <2>3. QED
    BY <1>1, <1>4, <2>1, <2>2
<1>7. ASSUME NEW n \in Movers, MoverPop(n)
      PROVE  UNCHANGED <<askers, processing, stops, state>> /\ rc'[Mgr] = "ok" /\ PipeKept
  <2>1. UNCHANGED <<askers, processing, stops, state, rc>> /\ (cpipe' = cpipe \/ Destroy(Head(ring[n])))
    BY <1>7 DEF MoverPop, config
  <2>2. QED
    BY <1>1, <1>2, <1>4, <2>1
<1>8. ASSUME NEW n \in Movers, MoverPass(n) \/ MoverTerm(n) \/ InterProcess(n)
      PROVE  UNCHANGED <<askers, processing, stops, state>> /\ rc'[Mgr] = "ok" /\ PipeKept
  <2>1. n # Mgr /\ UNCHANGED <<askers, processing, stops, state, cpipe>> /\ (\E code : rc' = [rc EXCEPT ![n] = code])
    BY <1>8 DEF MoverPass, MoverTerm, InterProcess, Start, config
  <2>2. QED
    BY <1>1, <1>4, <2>1
<1>9. ASSUME NEW n \in Parsers, ParserProcess(n[2])
      PROVE  UNCHANGED <<askers, processing, stops, state>> /\ rc'[Mgr] = "ok" /\ PipeKept
  <2>1. n # Mgr /\ n = Parser(n[2])
    BY NodeFacts, SuccFacts
  <2>2. UNCHANGED <<askers, processing, stops, state, cpipe>> /\ rc' = [rc EXCEPT ![n] = "ok"]
    BY <1>9, <2>1 DEF ParserProcess, Start, config
  <2>3. QED
    BY <1>1, <1>4, <2>1, <2>2
<1>10. ASSUME ManagerProcess
       PROVE  UNCHANGED <<askers, processing, stops, state>> /\ rc'[Mgr] = "ok" /\ PipeKept
  <2>1. /\ UNCHANGED <<askers, processing, stops, state>> /\ (cpipe' = cpipe \/ Destroy(cur[Mgr]))
        /\ rc' = [rc EXCEPT ![Mgr] = "ok"]
    BY <1>10 DEF ManagerProcess, Start, config
  <2>2. QED
    BY <1>1, <1>2, <1>4, <2>1
<1>11. ASSUME NEW n \in OutNodes, OutRelease(n) \/ OutDestroy(n)
       PROVE  UNCHANGED <<askers, processing, stops, state>> /\ rc'[Mgr] = "ok" /\ PipeKept
  <2>1. UNCHANGED <<askers, processing, stops, state, rc>> /\ (cpipe' = cpipe \/ Destroy(cur[n]))
    BY <1>11 DEF OutRelease, OutDestroy, config
  <2>2. QED
    BY <1>1, <1>2, <1>4, <2>1
<1>12. ASSUME Cleanup \/ Signal \/ UNCHANGED vars
       PROVE  UNCHANGED <<askers, processing, stops, state>> /\ rc'[Mgr] = "ok" /\ PipeKept
  <2>1. UNCHANGED <<askers, processing, stops, state, rc>>
    BY <1>12 DEF Cleanup, Signal, vars, threads, config
  <2>2. PipeKept
    BY <1>12 DEF Cleanup, Signal, vars, PipeKept
  <2>3. QED
    BY <1>1, <2>1, <2>2
<1>13. QED
  BY <1>5, <1>6, <1>7, <1>8, <1>9, <1>10, <1>11, <1>12

LEMMA DataOfLoop ==
    ASSUME IInv, IInv', DataInv, StopInv', NEW n \in Nodes, pc[n] \notin {"decide", "release"}, NEW a,
           a \notin {"decide", "release"}, pc' = [pc EXCEPT ![n] = a], Frame, UNCHANGED <<ring, cur, out>>
    PROVE  DataInv'
<1>1. \A k \in Nodes : Holding(k)' = Holding(k)
  BY DEF Holding, IInv, CustodyInv, ThreadInv
<1>2. QED
  BY <1>1, DataOfStill DEF DataInv

LEMMA NextData == IInv /\ IInv' /\ DataInv /\ [Next]_vars => DataInv'
<1>1. SUFFICES ASSUME IInv, IInv', DataInv, StopInv, SeenInv, DeliverInv, [Next]_vars PROVE DataInv'
  BY DEF DataInv
<1>2. ASSUME NEW n \in Nodes, HandleCode(n) PROVE DataInv'
  <2>1. /\ pc[n] = "handle" /\ pc' = [pc EXCEPT ![n] = "loop"] /\ HandleRc(n, rc[n]) /\ rc' = [rc EXCEPT ![n] = "ok"]
        /\ UNCHANGED <<ring, cur, out, seen, made, state, stops>>
    BY <1>2 DEF HandleCode, config
  <2>2. rc[n] \in RetCodes /\ (rc[n] # "ok" => n # Mgr) /\ rc'[Mgr] = "ok"
    BY <1>1, <2>1, SuccFacts DEF StopInv, IInv, CustodyInv, ThreadInv, Nodes, Readers, Movers
  <2>3. StopInv' /\ askers \subseteq askers'
    BY <1>1, <2>1, <2>2, StopOfRc
  <2>4. Frame
    BY <2>1, <2>3 DEF Frame
  <2>5. QED
    BY <1>1, <2>1, <2>3, <2>4, DataOfLoop
<1>3. ASSUME NEW i \in Inputs, InputThread(i) PROVE DataInv'
  <2>1. In(i) \in InNodes \cup Movers /\ In(i) \in Nodes
    BY NodeFacts DEF Nodes
  <2>2. CASE InputPipe(i) \/ InputGet(i)
    BY <1>1, <2>2, DataOfInputStep, StopOfStep DEF DataInv
  <2>3. CASE InputSkip(i)
    <3>1. /\ pc[In(i)] \notin {"decide", "release"} /\ pc' = [pc EXCEPT ![In(i)] = "loop"]
          /\ UNCHANGED <<ring, cur, out>> /\ Frame
      BY <2>3 DEF InputSkip, Frame, config
    <3>2. StopInv'
      BY <1>1, <2>3, StopOfStep
    <3>3. QED
      BY <1>1, <2>1, <3>1, <3>2, DataOfLoop
  <2>4. CASE PushOne(In(i))
    BY <1>1, <2>1, <2>4, DataOfPush, StopOfStep DEF DataInv
  <2>5. QED
    BY <1>2, <1>3, <2>1, <2>2, <2>3, <2>4 DEF InputThread
<1>4. ASSUME NEW n \in Movers, MoverThread(n) PROVE DataInv'
  <2>1. n \in InNodes \cup Movers /\ n \in Nodes
    BY DEF Nodes, Readers
  <2>2. CASE MoverPop(n)
    BY <1>1, <2>2, DataOfMoverPop, StopOfStep DEF DataInv
  <2>3. CASE PushOne(n)
    BY <1>1, <2>1, <2>3, DataOfPush, StopOfStep DEF DataInv
  <2>4. CASE ManagerProcess
    BY <1>1, <2>4, DataOfManager, StopOfStep DEF DataInv
  <2>5. CASE MoverPass(n) \/ MoverTerm(n)
    BY <1>1, <2>5, DataOfPass, StopOfStep DEF DataInv
  <2>6. CASE (n \in Parsers /\ ParserProcess(n[2])) \/ InterProcess(n)
    BY <1>1, <2>6, DataOfProcess, StopOfStep DEF DataInv
  <2>7. QED
    BY <1>2, <1>4, <2>1, <2>2, <2>3, <2>4, <2>5, <2>6 DEF MoverThread
<1>5. ASSUME NEW n \in OutNodes, OutThread(n) PROVE DataInv'
  <2>1. n \in Nodes /\ n # Mgr
    BY NodeFacts, SuccFacts DEF Nodes, Readers
  <2>2. CASE OutPop(n)
    <3>1. PICK code \in Codes(n) : HandleRc(n, IF processing[n] /\ IsData(Head(ring[n])) THEN code ELSE "ok")
      BY <2>2 DEF OutPop
    <3>2. (IF processing[n] /\ IsData(Head(ring[n])) THEN code ELSE "ok") \in RetCodes
      BY DEF Codes, RetCodes
    <3>3. UNCHANGED <<stops, state, rc>> /\ rc'[Mgr] = "ok"
      BY <1>1, <2>2 DEF OutPop, config, StopInv
    <3>4. StopInv' /\ askers \subseteq askers'
      BY <1>1, <2>1, <3>1, <3>2, <3>3, StopOfRc
    <3>5. QED
      BY <1>1, <2>2, <3>4, DataOfOutPop DEF DataInv
  <2>3. CASE OutRelease(n)
    BY <1>1, <2>3, DataOfRelease, StopOfStep DEF DataInv
  <2>4. CASE OutDestroy(n)
    <3>1. pc[n] \notin {"decide", "release"} /\ pc' = [pc EXCEPT ![n] = "exit"] /\ UNCHANGED <<ring, cur, out>> /\ Frame
      BY <2>4 DEF OutDestroy, Frame, config
    <3>2. StopInv'
      BY <1>1, <2>4, StopOfStep
    <3>3. QED
      BY <1>1, <2>1, <3>1, <3>2, DataOfLoop
  <2>5. QED
    BY <1>5, <2>2, <2>3, <2>4 DEF OutThread
<1>6. ASSUME Configurator \/ Signal \/ Idle \/ UNCHANGED vars PROVE DataInv'
  <2>1. UNCHANGED <<ring, pc, cur, out, seen, made>>
    <3>1. CASE Configurator
      BY <3>1 DEF Configurator, Receive, StopNext, Cleanup, threads
    <3>2. CASE Signal
      BY <3>2 DEF Signal, threads
    <3>3. CASE Idle \/ UNCHANGED vars
      BY <3>3 DEF Idle, vars, threads
    <3>4. QED
      BY <1>6, <3>1, <3>2, <3>3
  <2>2. \A k \in Nodes : Holding(k)' = Holding(k)
    BY <2>1 DEF Holding
  <2>3. StopInv' /\ askers \subseteq askers' /\ (state' # "stop_fast" => state # "stop_fast")
    <3>1. CASE Receive
      BY <1>1, <3>1, StopOfReceive
    <3>2. CASE StopNext
      BY <1>1, <3>2, StopOfStopNext
    <3>3. CASE Cleanup \/ Signal \/ UNCHANGED vars
      <4>1. UNCHANGED <<askers, state>>
        BY <3>3 DEF Cleanup, Signal, vars, config
      <4>2. QED
        BY <1>1, <3>3, <4>1, StopOfStep
    <3>4. Idle => UNCHANGED vars
      BY DEF Idle
    <3>5. QED
      BY <1>6, <3>1, <3>2, <3>3, <3>4 DEF Configurator
  <2>4. Frame
    BY <2>1, <2>3 DEF Frame
  <2>5. QED
    BY <1>1, <2>1, <2>2, <2>3, <2>4, DataOfStill DEF DataInv
<1>7. QED
  BY <1>1, <1>3, <1>4, <1>5, <1>6 DEF Next

LEMMA InitData == Init => DataInv
<1>1. SUFFICES ASSUME Init PROVE DataInv
  OBVIOUS
<1>2. /\ askers = {} /\ seen = {} /\ stops = <<>> /\ cpipe = <<>> /\ Mgr \in Nodes
      /\ \A n \in Nodes : processing[n] /\ rc[n] = "ok"
  BY <1>1, SuccFacts DEF Init, Nodes, Readers, Movers
<1>3. ToSet(stops) = {} /\ ByAskers(cpipe, askers)
  BY <1>2, EmptyFacts DEF ByAskers
<1>4. StopInv
  BY <1>2, <1>3 DEF StopInv
<1>5. SeenInv /\ DeliverInv
  BY <1>2 DEF SeenInv, DeliverInv
<1>6. QED
  BY <1>4, <1>5 DEF DataInv

\* At the end nothing is on its way, and what the hypothesis names was not missed.
LEMMA NothingLost == IInv /\ EndInv /\ DataInv => SlowKeepsData
<1>1. SUFFICES ASSUME IInv, EndInv, DataInv, cpc = "done", state = "stop_slow", askers \cap OutNodes = {},
                      NEW m \in Msgs, NEW o \in Outputs, Type(m) = "ipfix", <<In(m[2]), m>> \in seen,
                      m[2] \in Wants[o], \A n \in Path(m) \cap UpToAskers : <<n, m>> \in seen
               PROVE  <<Out(o), m>> \in seen
  BY DEF SlowKeepsData
<1>2. m \in Flows
  BY <1>1 DEF Flows
<1>3. Missed(m) \/ <<Out(o), m>> \in seen \/ Coming(m, o)
  BY <1>1, <1>2 DEF DataInv, DeliverInv
<1>4. ~Missed(m)
  BY <1>1 DEF Missed
<1>5. ~Coming(m, o)
  <2>1. live = {}
    BY <1>1 DEF EndInv
  <2>2. \A r \in Places : At(r) = {}
    BY <1>1, <2>1 DEF IInv, CustodyInv, LiveInv
  <2>3. QED
    BY <2>2 DEF Coming
<1>6. QED
  BY <1>3, <1>4, <1>5

\* A slow termination loses nothing that got past the instances that asked for it
\* (termination_stop_partly, thread_handle_rc): every output that wants such an IPFIX
\* message has processed it when the collector has ended.
THEOREM SlowLosesNothing == Spec => []SlowKeepsData
<1>1. Init => IInv /\ TermInv /\ EndInv /\ DataInv
  BY InitInv, InitTerm, InitData
<1>2. (IInv /\ TermInv /\ EndInv /\ DataInv) /\ [Next]_vars => (IInv /\ TermInv /\ EndInv /\ DataInv)'
  BY NextInv, NextTerm, NextEnd, NextData
<1>3. IInv /\ EndInv /\ DataInv => SlowKeepsData
  BY NothingLost
<1>4. QED
  BY <1>1, <1>2, <1>3, PTL DEF Spec
=============================================================================
