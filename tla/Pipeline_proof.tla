--------------------------- MODULE Pipeline_proof ---------------------------
(* Proofs about the pipeline, for every number of inputs, intermediate       *)
(* plugins and outputs, every filter and every size of the rings.            *)
EXTENDS Pipeline, FiniteSetTheorems, SequenceTheorems, TLAPS

-----------------------------------------------------------------------------
(* Where messages are.                                                       *)

\* In the feedback pipe of an input, in the ring of a reader, in the hands of a
\* thread, or among the pushes it has to do.  What the output manager has to
\* push is kept by the outputs: an output is a lane of its own, in which every
\* message has to be released.
Places == {"pipe", "ring", "hand", "out"} \X Nodes
Toward(n, ps) == {m \in Msgs : \E k \in DOMAIN ps : ps[k] = <<n, m>>}
Pushed(ps) == {ps[j][2] : j \in DOMAIN ps}
ToPush(n) == IF n \in OutNodes THEN Toward(n, out[Mgr])
             ELSE IF n = Mgr THEN {} ELSE Pushed(out[n])
At(p) == IF p[1] = "pipe" THEN IF p[2] \in InNodes THEN ToSet(fpipe[p[2][2]]) ELSE {}
    ELSE IF p[1] = "ring" THEN InRing(p[2])
    ELSE IF p[1] = "hand" THEN Holding(p[2])
    ELSE ToPush(p[2])

\* Places that never share a message: all but those of different outputs.
Exclude(p, q) == p[2] \in OutNodes /\ q[2] \in OutNodes => p[2] = q[2]

\* Outputs that have not released a message yet.
Users(m) == {o \in Outputs : \E p \in Places : p[2] = Out(o) /\ m \in At(p)}

-----------------------------------------------------------------------------
(* The inductive invariant.                                                  *)

\* What a thread does, has in its hands and has to push agree.
InputStates == {"loop", "get", "push", "handle", "exit"}
MoverStates == {"loop", "decide", "push", "handle", "exit"}
OutStates == {"loop", "release", "destroy", "exit"}
States(n) == IF n \in InNodes THEN InputStates ELSE IF n \in Movers THEN MoverStates ELSE OutStates
RetCodes == {"ok", "slow", "fast"}
\* The output manager pushes one message to outputs, everybody else to one instance.
Targets(n, m, ps) ==
    \A k \in DOMAIN ps : IF n = Mgr THEN ps[k][1] \in OutNodes /\ ps[k][2] = m ELSE ps[k][1] = Succ(n)
ThreadInv ==
    /\ pc \in [Nodes -> InputStates \cup MoverStates \cup OutStates] /\ cur \in [Nodes -> Msgs \cup {NoMsg}]
    /\ rc \in [Nodes -> RetCodes] /\ out \in [Nodes -> Seq(Readers \X Msgs)]
    /\ \A n \in Nodes :
          /\ pc[n] \in States(n)
          /\ out[n] # <<>> <=> pc[n] = "push"
          /\ pc[n] \in {"decide", "release"} => cur[n] # NoMsg
          /\ pc[n] \in {"decide", "release", "push"} \/ cur[n] = NoMsg
          /\ rc[n] = "ok" \/ (pc[n] \in {"push", "handle"} /\ Type(cur[n]) # "term")
          /\ Targets(n, cur[n], out[n])
\* What the configuration pipe carries: a request by an instance or a signal, a
\* notification, or a tick of the timer.
Requests == {"slow", "fast", "done", "periodic"} \X (Nodes \cup {NoMsg})
PipesInv ==
    /\ ring \in [Readers -> Seq(Msgs)] /\ \A n \in Readers : Len(ring[n]) <= RingSize
    /\ fpipe \in [Inputs -> Seq(Msgs)]
    /\ \A i \in Inputs : \A m \in ToSet(fpipe[i]) : Type(m) \in {"periodic", "stray", "term"}
    /\ cpipe \in Seq(Requests)
    /\ stops \in Seq(Nodes)

\* A message is in one place, and there once.
UniqueInv ==
    \A p, q \in Places : \A m \in Msgs : m \in At(p) /\ m \in At(q) /\ Exclude(p, q) => p = q
OnceInv ==
    /\ \A i \in Inputs : IsInjective(fpipe[i])
    /\ \A n \in Readers : IsInjective(ring[n])
    /\ \A n \in Nodes : IsInjective(out[n])

\* What is allocated is somewhere, and what is somewhere is allocated.
LiveInv ==
    /\ live \subseteq Msgs
    /\ \A p \in Places : At(p) \subseteq live
    /\ \A m \in live : \E p \in Places : m \in At(p)

\* The outputs that have not released a message are counted.
RefsInv == refs \in [Msgs -> Nat] /\ \A m \in Msgs : refs[m] = Cardinality(Users(m))

CustodyInv == ThreadInv /\ PipesInv /\ UniqueInv /\ OnceInv /\ LiveInv /\ RefsInv

\* Up to its parser, an input has its own messages only.
OriginInv ==
    \A i \in Inputs : \A p \in Places : p[2] \in {In(i), Parser(i)} => \A m \in At(p) : m[2] = i

\* Messages that are still to be made do not exist yet.
Terminating(n) == pc[n] = "exit" \/ (pc[n] = "push" /\ Type(cur[n]) = "term")
BehindParser(i) == {<<"out", In(i)>>, <<"ring", Parser(i)>>, <<"hand", Parser(i)>>}
FreshInv ==
    /\ \A i \in Inputs : \A k \in 1 .. MaxData : Data(i, k) \in live => k <= made[i]
    /\ \A i \in Inputs : open[i] => Close(i) \notin live /\ SessionGarbage(i) \notin live
    /\ \A i \in Inputs : TemplateGarbage(i) \in live =>
           ~open[i] /\ \A p \in BehindParser(i) : Close(i) \notin At(p)
    /\ \A i \in Inputs : ParserGarbage(i) \in live => Terminating(Parser(i))
    /\ \A i \in Inputs : \A s \in 0 .. MaxPeriodic - 1 : Periodic(i, s) \in live => s < periods
    /\ cpc = "run" /\ termSent = 0 =>
           state = "running" /\ \A m \in live : Type(m) \notin {"term", "stray"}
    /\ cpc = "run" /\ state = "running" => \A i \in Inputs : Term(i, 2) \notin live

\* The other variables.
NumbersInv ==
    /\ processing \in [Nodes -> BOOLEAN] /\ open \in [Inputs -> BOOLEAN] /\ knows \in [Inputs -> BOOLEAN]
    /\ termCnt \in 0 .. NIn /\ termSent \in 0 .. NIn
    /\ waiting \in [Movers -> 0 .. MaxPeriodic] /\ periods \in 0 .. MaxPeriodic
    /\ made \in [Inputs -> 0 .. MaxData] /\ signals \in 0 .. MaxSignals
    /\ state \in {"running", "stop_slow", "stop_fast"} /\ cpc \in {"run", "join", "done", "abort"}

IInv == CustodyInv /\ NumbersInv /\ OriginInv /\ FreshInv

-----------------------------------------------------------------------------
(* Sequences.                                                                *)

LEMMA TailFacts ==
    ASSUME NEW S, NEW s \in Seq(S), s # <<>>
    PROVE  /\ Head(s) \in S /\ Head(s) \in ToSet(s)
           /\ Tail(s) \in Seq(S) /\ Len(Tail(s)) = Len(s) - 1
           /\ \A k \in DOMAIN Tail(s) : k + 1 \in DOMAIN s /\ Tail(s)[k] = s[k + 1]
           /\ ToSet(s) = ToSet(Tail(s)) \cup {Head(s)}
           /\ IsInjective(s) => IsInjective(Tail(s)) /\ Head(s) \notin ToSet(Tail(s))
<1>1. /\ Head(s) = s[1] /\ 1 \in DOMAIN s /\ Tail(s) \in Seq(S) /\ Len(Tail(s)) = Len(s) - 1
      /\ \A k \in DOMAIN Tail(s) : k + 1 \in DOMAIN s /\ Tail(s)[k] = s[k + 1]
  OBVIOUS
<1>2. ToSet(s) = ToSet(Tail(s)) \cup {Head(s)}
  <2>1. \A k \in DOMAIN s : k = 1 \/ (k - 1 \in DOMAIN Tail(s) /\ s[k] = Tail(s)[k - 1])
    BY <1>1
  <2>2. ToSet(s) \subseteq ToSet(Tail(s)) \cup {Head(s)}
    <3>1. SUFFICES ASSUME NEW k \in DOMAIN s PROVE s[k] \in ToSet(Tail(s)) \cup {Head(s)}
      BY DEF ToSet
    <3>2. CASE k = 1
      BY <1>1, <3>2
    <3>3. CASE k - 1 \in DOMAIN Tail(s) /\ s[k] = Tail(s)[k - 1]
      BY <3>3 DEF ToSet
    <3>4. QED
      BY <2>1, <3>2, <3>3
  <2>3. ToSet(Tail(s)) \cup {Head(s)} \subseteq ToSet(s)
    BY <1>1 DEF ToSet
  <2>4. QED
    BY <2>2, <2>3
<1>3. QED
  BY SMTT(30), <1>1, <1>2 DEF ToSet, IsInjective

LEMMA AppendFacts ==
    ASSUME NEW S, NEW s \in Seq(S), NEW x \in S
    PROVE  /\ Append(s, x) \in Seq(S) /\ Len(Append(s, x)) = Len(s) + 1
           /\ ToSet(Append(s, x)) = ToSet(s) \cup {x}
           /\ IsInjective(s) /\ x \notin ToSet(s) => IsInjective(Append(s, x))
<1>1. /\ Append(s, x) \in Seq(S) /\ Len(Append(s, x)) = Len(s) + 1
      /\ \A k \in 1 .. Len(s) : Append(s, x)[k] = s[k]
      /\ Append(s, x)[Len(s) + 1] = x
      /\ DOMAIN Append(s, x) = DOMAIN s \cup {Len(s) + 1} /\ DOMAIN s = 1 .. Len(s)
  OBVIOUS
<1>2. QED
  BY <1>1 DEF ToSet, IsInjective

LEMMA EmptyFacts == ToSet(<<>>) = {} /\ IsInjective(<<>>) /\ \A S : <<>> \in Seq(S)
BY DEF ToSet, IsInjective

-----------------------------------------------------------------------------
(* Instances and messages.                                                   *)

LEMMA InputFacts == 1 \in Inputs /\ 1 \in Outputs /\ NInter + 1 \in 1 .. NInter + 1
BY SizesAssumption DEF Inputs, Outputs

LEMMA NodeFacts ==
    /\ \A n \in InNodes : n \notin Readers /\ n[2] \in Inputs /\ n = In(n[2])
    /\ \A n \in Parsers : n \notin Inters \cup OutNodes /\ n[2] \in Inputs /\ n = Parser(n[2])
    /\ \A n \in Inters : n \notin OutNodes /\ n[2] \in 1 .. NInter + 1 /\ n = Inter(n[2])
    /\ \A n \in OutNodes : n[2] \in Outputs /\ n = Out(n[2])
    /\ \A i \in Inputs : In(i) \in InNodes /\ In(i)[2] = i /\ Parser(i) \in Parsers /\ Parser(i)[2] = i
    /\ \A k \in 1 .. NInter + 1 : Inter(k) \in Inters /\ Inter(k)[2] = k
    /\ \A o \in Outputs : Out(o) \in OutNodes /\ Out(o)[2] = o
    /\ NoMsg \notin Nodes
<1>1. \A i \in Inputs : In(i) \in InNodes /\ In(i)[2] = i /\ Parser(i) \in Parsers /\ Parser(i)[2] = i
  BY DEF In, Parser, InNodes, Parsers
<1>2. \A k \in 1 .. NInter + 1 : Inter(k) \in Inters /\ Inter(k)[2] = k
  BY DEF Inter, Inters
<1>3. \A o \in Outputs : Out(o) \in OutNodes /\ Out(o)[2] = o
  BY DEF Out, OutNodes
<1>4. /\ \A n \in InNodes : n[1] = "in" /\ n[2] \in Inputs /\ n = In(n[2])
      /\ \A n \in Parsers : n[1] = "parser" /\ n[2] \in Inputs /\ n = Parser(n[2])
      /\ \A n \in Inters : n[1] = "inter" /\ n[2] \in 1 .. NInter + 1 /\ n = Inter(n[2])
      /\ \A n \in OutNodes : n[1] = "out" /\ n[2] \in Outputs /\ n = Out(n[2])
  BY DEF In, Parser, Inter, Out, InNodes, Parsers, Inters, OutNodes
<1>5. NoMsg[1] = "none"
  BY DEF NoMsg
<1>6. QED
  BY <1>1, <1>2, <1>3, <1>4, <1>5 DEF Readers, Movers, Nodes

LEMMA SuccFacts ==
    /\ Mgr \in Inters /\ Inter(1) \in Inters
    /\ \A i \in Inputs : Succ(In(i)) = Parser(i)
    /\ \A n \in Parsers : Succ(n) = Inter(1)
    /\ \A n \in Inters \ {Mgr} : Succ(n) \in Inters /\ Succ(n) # n
    /\ \A n \in InNodes \cup Movers : n # Mgr => Succ(n) \in Movers /\ Succ(n) # n
    /\ \A n \in Movers : n # Mgr => Succ(n) \in Inters
<1>1. Mgr \in Inters /\ Inter(1) \in Inters
  BY SizesAssumption, NodeFacts DEF Mgr
<1>2. \A n \in Inters \ {Mgr} : n[2] + 1 \in 1 .. NInter + 1 /\ n[2] + 1 # n[2] /\ Succ(n) = Inter(n[2] + 1)
  <2>1. SUFFICES ASSUME NEW n \in Inters \ {Mgr}
                 PROVE  n[2] + 1 \in 1 .. NInter + 1 /\ n[2] + 1 # n[2] /\ Succ(n) = Inter(n[2] + 1)
    OBVIOUS
  <2>2. n[2] \in 1 .. NInter + 1 /\ n[2] # NInter + 1
    BY NodeFacts DEF Mgr
  <2>3. n \notin InNodes /\ n \notin Parsers
    BY NodeFacts DEF Readers, Movers
  <2>4. QED
    BY <2>2, <2>3, SizesAssumption DEF Succ
<1>3. \A n \in Inters \ {Mgr} : Succ(n) \in Inters /\ Succ(n) # n
  BY <1>2, NodeFacts
<1>4. \A i \in Inputs : Succ(In(i)) = Parser(i)
  BY NodeFacts DEF Succ, Readers, Movers
<1>5. \A n \in Parsers : Succ(n) = Inter(1)
  BY NodeFacts DEF Succ, Readers, Movers
<1>6. QED
  BY <1>1, <1>3, <1>4, <1>5, NodeFacts DEF Movers, Readers

MsgTypes == {"ipfix", "close", "garbage", "periodic", "stray", "term"}
LEMMA MsgFacts ==
    /\ \A m \in Msgs : Type(m) \in MsgTypes /\ m[2] \in Inputs /\ m # NoMsg
    /\ \A m \in Msgs : IsPeriodic(m) => m[3] \in 0 .. MaxPeriodic - 1
    /\ \A m \in Msgs : Type(m) = "close" => m = Close(m[2])
    /\ \A i \in Inputs : Close(i) \in Msgs /\ SessionGarbage(i) \in Msgs /\ TemplateGarbage(i) \in Msgs /\ ParserGarbage(i) \in Msgs
    /\ \A i \in Inputs, k \in 1 .. MaxData : Data(i, k) \in Msgs
    /\ \A i \in Inputs, s \in 0 .. MaxPeriodic - 1 : Periodic(i, s) \in Msgs /\ Stray(i, s) \in Msgs
    /\ \A i \in Inputs, k \in 1 .. 2 : Term(i, k) \in Msgs
    /\ Type(NoMsg) = "none"
BY DEF Msgs, MsgTypes, Type, IsPeriodic, Close, SessionGarbage, TemplateGarbage, ParserGarbage, Data, Periodic, Stray, Term, NoMsg
-----------------------------------------------------------------------------
(* Steps of one thread.                                                      *)

\* Start keeps the thread in order.
LEMMA StartThread ==
    ASSUME ThreadInv, NEW n \in InNodes \cup Movers, NEW m \in Msgs \cup {NoMsg},
           NEW ps \in Seq(Readers \X Msgs), NEW code \in RetCodes,
           Start(n, m, ps, code),
           Type(m) = "term" => code = "ok",
           Targets(n, m, ps)
    PROVE  /\ ThreadInv'
           /\ ps = <<>> => pc'[n] \in {"loop", "get", "handle", "exit"} /\ cur'[n] = NoMsg
           /\ ps # <<>> => pc'[n] = "push" /\ cur'[n] = m
           /\ out'[n] = ps
           /\ \A k \in Nodes \ {n} : pc'[k] = pc[k] /\ cur'[k] = cur[k] /\ out'[k] = out[k]
<1>1. n \in Nodes /\ n \notin OutNodes
  BY NodeFacts DEF Nodes, Readers, Movers
<1>2. After(n, m, code) \in States(n) /\ After(n, m, code) \in {"loop", "get", "handle", "exit"}
      /\ (code # "ok" => After(n, m, code) = "handle")
  <2>1. n \in InNodes \/ (n \in Movers /\ n \notin InNodes)
    BY NodeFacts DEF Readers
  <2>2. After(n, m, code) \in {"loop", "get", "handle", "exit"}
    BY DEF After
  <2>3. code # "ok" => After(n, m, code) = "handle"
    BY DEF After
  <2>4. n \notin InNodes => After(n, m, code) \in {"loop", "handle", "exit"}
    BY DEF After
  <2>5. QED
    BY <2>1, <2>2, <2>3, <2>4 DEF States, InputStates, MoverStates
<1>3. "push" \in States(n)
  BY <1>1, NodeFacts DEF States, InputStates, MoverStates, OutStates, Readers
<1>4. /\ pc' = [pc EXCEPT ![n] = IF ps = <<>> THEN After(n, m, code) ELSE "push"]
      /\ cur' = [cur EXCEPT ![n] = IF ps = <<>> THEN NoMsg ELSE m]
      /\ out' = [out EXCEPT ![n] = ps]
      /\ rc' = [rc EXCEPT ![n] = code]
  BY DEF Start
<1>5. Type(NoMsg) # "term"
  BY MsgFacts
<1>6. /\ pc' \in [Nodes -> InputStates \cup MoverStates \cup OutStates]
      /\ cur' \in [Nodes -> Msgs \cup {NoMsg}]
      /\ rc' \in [Nodes -> RetCodes] /\ out' \in [Nodes -> Seq(Readers \X Msgs)]
  BY <1>1, <1>2, <1>3, <1>4 DEF ThreadInv, InputStates, MoverStates, OutStates
<1>7. /\ pc'[n] = IF ps = <<>> THEN After(n, m, code) ELSE "push"
      /\ cur'[n] = IF ps = <<>> THEN NoMsg ELSE m
      /\ out'[n] = ps /\ rc'[n] = code
  BY <1>1, <1>4 DEF ThreadInv
<1>8. \A k \in Nodes \ {n} : pc'[k] = pc[k] /\ cur'[k] = cur[k] /\ out'[k] = out[k] /\ rc'[k] = rc[k]
  BY <1>4 DEF ThreadInv
<1>9. ASSUME NEW k \in Nodes
      PROVE  /\ pc'[k] \in States(k)
             /\ out'[k] # <<>> <=> pc'[k] = "push"
             /\ pc'[k] \in {"decide", "release"} => cur'[k] # NoMsg
             /\ pc'[k] \in {"decide", "release", "push"} \/ cur'[k] = NoMsg
             /\ rc'[k] = "ok" \/ (pc'[k] \in {"push", "handle"} /\ Type(cur'[k]) # "term")
             /\ Targets(k, cur'[k], out'[k])
  <2>1. CASE k = n
    <3>1. CASE ps = <<>>
      <4>1. Targets(k, cur'[k], out'[k])
        BY <1>7, <2>1, <3>1 DEF Targets
      <4>2. QED
        BY <1>2, <1>3, <1>5, <1>7, <2>1, <3>1, <4>1
    <3>2. CASE ps # <<>>
      BY <1>2, <1>3, <1>5, <1>7, <2>1, <3>2
    <3>3. QED
      BY <3>1, <3>2
  <2>2. CASE k # n
    BY <1>8, <2>2 DEF ThreadInv
  <2>3. QED
    BY <2>1, <2>2
<1>10. QED
  BY <1>2, <1>6, <1>7, <1>8, <1>9 DEF ThreadInv

\* What Start changes of the places: nothing is in the hands of n, and the
\* pushes of n are others.
LEMMA StartHands ==
    ASSUME ThreadInv, NEW n \in InNodes \cup Movers, NEW m, NEW ps, NEW code, Start(n, m, ps, code)
    PROVE  \A k \in Nodes : Holding(k)' = IF k = n THEN {} ELSE Holding(k)
<1>1. n \in Nodes
  BY DEF Nodes, Readers
<1>2. After(n, m, code) \in {"loop", "get", "handle", "exit"}
  BY DEF After
<1>3. /\ pc'[n] \notin {"decide", "release"}
      /\ \A k \in Nodes \ {n} : pc'[k] = pc[k] /\ cur'[k] = cur[k]
  BY <1>1, <1>2 DEF Start, ThreadInv
<1>4. QED
  BY <1>3 DEF Holding

LEMMA StartPushes ==
    ASSUME ThreadInv, NEW n \in InNodes \cup Movers, n # Mgr, NEW m, NEW ps, NEW code, Start(n, m, ps, code)
    PROVE  \A k \in Nodes : ToPush(k)' = IF k = n THEN Pushed(ps) ELSE ToPush(k)
<1>1. n \in Nodes /\ n \notin OutNodes /\ Mgr \in Nodes
  BY NodeFacts, SuccFacts DEF Nodes, Readers, Movers
<1>2. out'[n] = ps /\ \A k \in Nodes \ {n} : out'[k] = out[k]
  BY <1>1 DEF Start, ThreadInv
<1>3. ASSUME NEW k \in Nodes PROVE ToPush(k)' = IF k = n THEN Pushed(ps) ELSE ToPush(k)
  <2>1. CASE k = n
    BY <1>1, <1>2, <2>1 DEF ToPush
  <2>2. CASE k # n
    <3>1. out'[k] = out[k] /\ out'[Mgr] = out[Mgr]
      BY <1>1, <1>2, <2>2
    <3>2. QED
      BY <2>2, <3>1 DEF ToPush
  <2>3. QED
    BY <2>1, <2>2
<1>4. QED
  BY <1>3

LEMMA StartMgrPushes ==
    ASSUME ThreadInv, NEW m, NEW ps, NEW code, Start(Mgr, m, ps, code)
    PROVE  \A k \in Nodes : ToPush(k)' = IF k \in OutNodes THEN Toward(k, ps) ELSE ToPush(k)
<1>1. Mgr \in Nodes /\ Mgr \notin OutNodes
  BY NodeFacts, SuccFacts DEF Nodes, Readers, Movers
<1>2. out'[Mgr] = ps /\ \A k \in Nodes \ {Mgr} : out'[k] = out[k]
  BY <1>1 DEF Start, ThreadInv
<1>3. ASSUME NEW k \in Nodes PROVE ToPush(k)' = IF k \in OutNodes THEN Toward(k, ps) ELSE ToPush(k)
  <2>1. CASE k \in OutNodes
    BY <1>2, <2>1 DEF ToPush
  <2>2. CASE k \notin OutNodes
    <3>1. k # Mgr => out'[k] = out[k]
      BY <1>2
    <3>2. QED
      BY <2>2, <3>1 DEF ToPush
  <2>3. QED
    BY <2>1, <2>2
<1>4. QED
  BY <1>3

-----------------------------------------------------------------------------
(* Messages that move from one place to another, and new ones.               *)

\* The messages S move from p to q, together with the new messages N.
Moves(p, q, S, N) ==
    \A r \in Places : At(r)' = (IF r = p THEN At(r) \ S ELSE At(r)) \cup (IF r = q THEN S \cup N ELSE {})

\* A message leaves the place p; a message moves from p to q.
Leaves(p, m) == \A r \in Places : At(r)' = IF r = p THEN At(r) \ {m} ELSE At(r)
Passes(p, q, m) == Moves(p, q, {m}, {}) /\ live' = live

LEMMA OutputsFinite == IsFiniteSet(Outputs)
BY SizesAssumption, FS_Interval DEF Outputs

LEMMA UsersFacts ==
    \A m : IsFiniteSet(Users(m)) /\ Cardinality(Users(m)) \in Nat
<1>1. IsFiniteSet(Outputs)
  BY OutputsFinite
<1>2. \A m : Users(m) \subseteq Outputs
  BY DEF Users
<1>3. QED
  BY <1>1, <1>2, FS_Subset, FS_CardinalityType

LEMMA Moved ==
    ASSUME UniqueInv, LiveInv, RefsInv,
           NEW p \in Places, NEW q \in Places, NEW S \in SUBSET Msgs, NEW N \in SUBSET Msgs,
           Moves(p, q, S, N), S \subseteq At(p), N \cap live = {},
           \/ p[2] \notin OutNodes /\ q[2] \notin OutNodes
           \/ p[2] = q[2] /\ N = {},
           live' = live \cup N, refs' = refs
    PROVE  UniqueInv' /\ LiveInv' /\ RefsInv'
<1>1. \A r \in Places : At(r)' \subseteq At(r) \cup S \cup N
  BY DEF Moves
<1>2. UniqueInv'
  <2>1. SUFFICES ASSUME NEW a \in Places, NEW b \in Places, NEW m \in Msgs,
                        m \in At(a)', m \in At(b)', Exclude(a, b), a # b
                 PROVE  FALSE
    BY DEF UniqueInv, Exclude
  <2>2. CASE m \in N
    <3>1. \A r \in Places : m \notin At(r)
      BY <2>2 DEF LiveInv
    <3>2. a = q /\ b = q
      BY <2>1, <2>2, <3>1 DEF Moves
    <3>3. QED
      BY <2>1, <3>2
  <2>3. CASE m \notin N /\ m \in S
    <3>1. \A r \in Places : m \in At(r)' /\ r # q => m \in At(r) /\ r # p
      BY <2>3 DEF Moves
    <3>2. \A r \in Places : m \in At(r)' /\ r # q => ~Exclude(r, p)
      BY <2>3, <3>1 DEF UniqueInv
    <3>3. \A r \in Places : m \in At(r)' /\ r # q => ~Exclude(r, q)
      BY <3>2 DEF Exclude
    <3>4. \A r \in Places : Exclude(q, r) => Exclude(r, q)
      BY DEF Exclude
    <3>5. QED
      BY <2>1, <3>1, <3>3, <3>4 DEF UniqueInv
  <2>4. CASE m \notin N /\ m \notin S
    <3>1. \A r \in Places : m \in At(r)' => m \in At(r)
      BY <2>4 DEF Moves
    <3>2. QED
      BY <2>1, <3>1 DEF UniqueInv
  <2>5. QED
    BY <2>2, <2>3, <2>4
<1>3. LiveInv'
  <2>1. \A r \in Places : At(r)' \subseteq live'
    BY <1>1 DEF LiveInv
  <2>2. ASSUME NEW m \in live' PROVE \E r \in Places : m \in At(r)'
    <3>1. CASE m \in S \cup N
      <4>1. m \in At(q)'
        BY <3>1 DEF Moves
      <4>2. QED
        BY <4>1
    <3>2. CASE m \notin S \cup N
      <4>1. PICK r \in Places : m \in At(r)
        BY <3>2 DEF LiveInv
      <4>2. m \in At(r)'
        BY <3>2, <4>1 DEF Moves
      <4>3. QED
        BY <4>2
    <3>3. QED
      BY <3>1, <3>2
  <2>3. QED
    BY <2>1, <2>2 DEF LiveInv
<1>4. \A m \in Msgs : Users(m)' = Users(m)
  <2>1. SUFFICES ASSUME NEW m \in Msgs, NEW o \in Outputs
                 PROVE  (\E r \in Places : r[2] = Out(o) /\ m \in At(r)') <=> (\E r \in Places : r[2] = Out(o) /\ m \in At(r))
    BY DEF Users
  <2>2. Out(o) \in OutNodes
    BY NodeFacts
  <2>3. CASE p[2] \notin OutNodes /\ q[2] \notin OutNodes
    <3>1. \A r \in Places : r[2] = Out(o) => At(r)' = At(r)
      BY <2>2, <2>3 DEF Moves
    <3>2. QED
      BY <3>1
  <2>4. CASE p[2] = q[2] /\ N = {}
    <3>1. ASSUME NEW r \in Places, r[2] = Out(o), m \in At(r)'
          PROVE  \E t \in Places : t[2] = Out(o) /\ m \in At(t)
      <4>1. m \in At(r) \/ (r = q /\ m \in S)
        BY <2>4, <3>1 DEF Moves
      <4>2. m \in At(r) \/ (m \in At(p) /\ p[2] = Out(o))
        BY <2>4, <3>1, <4>1
      <4>3. QED
        BY <3>1, <4>2
    <3>2. ASSUME NEW r \in Places, r[2] = Out(o), m \in At(r)
          PROVE  \E t \in Places : t[2] = Out(o) /\ m \in At(t)'
      <4>1. m \in At(r)' \/ (r = p /\ m \in At(q)')
        BY <3>2 DEF Moves
      <4>2. QED
        BY <2>4, <3>2, <4>1
    <3>3. QED
      BY <3>1, <3>2
  <2>5. QED
    BY <2>3, <2>4
<1>5. RefsInv'
  BY <1>4 DEF RefsInv
<1>6. QED
  BY <1>2, <1>3, <1>5

\* A message is destroyed before it gets to the outputs.
LEMMA Dropped ==
    ASSUME UniqueInv, LiveInv, RefsInv,
           NEW p \in Places, NEW m \in Msgs, m \in At(p), p[2] \notin OutNodes,
           \A r \in Places : At(r)' = IF r = p THEN At(r) \ {m} ELSE At(r),
           live' = live \ {m}, refs' = refs
    PROVE  UniqueInv' /\ LiveInv' /\ RefsInv'
<1>1. UniqueInv'
  BY DEF UniqueInv
<1>2. \A r \in Places : m \in At(r) => r = p
  BY DEF UniqueInv, Exclude
<1>3. \A r \in Places : m \notin At(r)'
  BY <1>2
<1>4. LiveInv'
  <2>1. \A r \in Places : At(r)' \subseteq live'
    BY <1>3 DEF LiveInv
  <2>2. \A x \in live' : \E r \in Places : x \in At(r)'
    BY DEF LiveInv
  <2>3. QED
    BY <2>1, <2>2 DEF LiveInv
<1>5. \A x \in Msgs : Users(x)' = Users(x)
  BY NodeFacts DEF Users
<1>6. QED
  BY <1>1, <1>4, <1>5 DEF RefsInv

\* An output releases a message; the last one destroys it.
LEMMA Released ==
    ASSUME UniqueInv, LiveInv, RefsInv,
           NEW p \in Places, NEW m \in Msgs, NEW o \in Outputs, m \in At(p), p[2] = Out(o),
           \A r \in Places : At(r)' = IF r = p THEN At(r) \ {m} ELSE At(r),
           refs' = [refs EXCEPT ![m] = @ - 1],
           live' = IF refs[m] = 1 THEN live \ {m} ELSE live
    PROVE  UniqueInv' /\ LiveInv' /\ RefsInv'
<1>1. UniqueInv'
  BY DEF UniqueInv
<1>2. \A r \in Places : r[2] = Out(o) /\ m \in At(r) => r = p
  BY DEF UniqueInv, Exclude
<1>3. \A x \in Msgs : Users(x)' = IF x = m THEN Users(m) \ {o} ELSE Users(x)
  <2>1. ASSUME NEW x \in Msgs, x # m PROVE Users(x)' = Users(x)
    <3>1. \A r \in Places : x \in At(r)' <=> x \in At(r)
      BY <2>1
    <3>2. QED
      BY <3>1 DEF Users
  <2>2. Users(m)' = Users(m) \ {o}
    <3>1. o \notin Users(m)'
      BY <1>2 DEF Users
    <3>2. ASSUME NEW u \in Outputs, u # o PROVE u \in Users(m)' <=> u \in Users(m)
      <4>1. Out(u) # Out(o)
        BY <3>2, NodeFacts
      <4>2. \A r \in Places : r[2] = Out(u) => At(r)' = At(r)
        BY <4>1
      <4>3. QED
        BY <4>2 DEF Users
    <3>3. QED
      BY <3>1, <3>2 DEF Users
  <2>3. QED
    BY <2>1, <2>2
<1>4. o \in Users(m)
  BY DEF Users
<1>5. Cardinality(Users(m) \ {o}) = refs[m] - 1 /\ refs[m] \in Nat
  BY ZenonT(40), <1>4, UsersFacts, FS_RemoveElement DEF RefsInv
<1>6. RefsInv'
  <2>1. refs[m] # 0
    BY <1>4, UsersFacts, FS_EmptySet DEF RefsInv
  <2>2. refs' \in [Msgs -> Nat]
    BY <1>5, <2>1 DEF RefsInv
  <2>3. \A x \in Msgs : refs'[x] = Cardinality(Users(x)')
    BY <1>3, <1>5 DEF RefsInv
  <2>4. QED
    BY <2>2, <2>3 DEF RefsInv
<1>7. \A x \in live : x # m => \E r \in Places : x \in At(r)'
  BY DEF LiveInv
<1>f. IsFiniteSet(Users(m) \ {o})
  BY UsersFacts, FS_Subset
<1>8. CASE refs[m] = 1
  <2>1. Users(m) \ {o} = {}
    <3>1. Cardinality(Users(m) \ {o}) = 0
      BY <1>5, <1>8
    <3>2. QED
      BY <1>f, <3>1, FS_EmptySet
  <2>2. \A r \in Places : m \in At(r) => r = p
    <3>1. SUFFICES ASSUME NEW r \in Places, m \in At(r), r # p PROVE FALSE
      OBVIOUS
    <3>2. ~Exclude(r, p)
      BY <3>1 DEF UniqueInv
    <3>3. r[2] \in OutNodes /\ r[2] # Out(o)
      BY <3>2 DEF Exclude
    <3>4. r[2][2] \in Outputs /\ r[2] = Out(r[2][2])
      BY <3>3, NodeFacts
    <3>5. r[2][2] \in Users(m) /\ r[2][2] # o
      BY <3>1, <3>3, <3>4 DEF Users
    <3>6. QED
      BY <2>1, <3>5
  <2>3. \A r \in Places : At(r)' \subseteq live'
    BY <1>8, <2>2 DEF LiveInv
  <2>4. LiveInv'
    BY <1>7, <1>8, <2>3 DEF LiveInv
  <2>5. QED
    BY <1>1, <1>6, <2>4
<1>9. CASE refs[m] # 1
  <2>1. Users(m) \ {o} # {}
    <3>1. Cardinality(Users(m) \ {o}) # 0
      BY <1>5, <1>9
    <3>2. QED
      BY <3>1, FS_EmptySet
  <2>2. PICK u \in Outputs : u # o /\ u \in Users(m)
    BY <2>1 DEF Users
  <2>3. PICK r \in Places : r[2] = Out(u) /\ m \in At(r)
    BY <2>2 DEF Users
  <2>4. m \in At(r)'
    BY <2>2, <2>3, NodeFacts
  <2>5. \A x \in live : \E t \in Places : x \in At(t)'
    BY <1>7, <2>4
  <2>6. LiveInv'
    BY <1>9, <2>5 DEF LiveInv
  <2>7. QED
    BY <1>1, <1>6, <2>6
<1>10. QED
  BY <1>8, <1>9

\* The output manager gives a message to the outputs D, or destroys it.
Spreads(p, m, D) ==
    \A r \in Places : At(r)' = (IF r = p THEN At(r) \ {m} ELSE At(r))
                                   \cup (IF \E o \in D : r = <<"out", Out(o)>> THEN {m} ELSE {})
LEMMA Broadcast ==
    ASSUME UniqueInv, LiveInv, RefsInv,
           NEW p \in Places, NEW m \in Msgs, NEW D \in SUBSET Outputs, m \in At(p), p[2] \notin OutNodes,
           Spreads(p, m, D), refs' = [refs EXCEPT ![m] = Cardinality(D)],
           live' = IF D = {} THEN live \ {m} ELSE live
    PROVE  UniqueInv' /\ LiveInv' /\ RefsInv'
<1>1. \A r \in Places : m \in At(r) => r = p
  BY DEF UniqueInv, Exclude
<1>0. \A r \in Places : At(r)' = (IF r = p THEN At(r) \ {m} ELSE At(r))
                   \cup (IF \E o \in D : r = <<"out", Out(o)>> THEN {m} ELSE {})
  BY DEF Spreads
<1>2. \A r \in Places : m \in At(r)' <=> \E o \in D : r = <<"out", Out(o)>>
  BY <1>0, <1>1
<1>3. \A r \in Places : \A x \in Msgs \ {m} : x \in At(r)' <=> x \in At(r)
  BY <1>0
<1>4. \A o \in Outputs : <<"out", Out(o)>> \in Places /\ <<"out", Out(o)>>[2] = Out(o)
  BY NodeFacts DEF Places, Nodes, Readers
<1>5. UniqueInv'
  <2>1. SUFFICES ASSUME NEW a \in Places, NEW b \in Places, NEW x \in Msgs,
                        x \in At(a)', x \in At(b)', Exclude(a, b)
                 PROVE  a = b
    BY DEF UniqueInv, Exclude
  <2>2. CASE x # m
    BY <1>3, <2>1, <2>2 DEF UniqueInv
  <2>3. CASE x = m
    <3>1. PICK u \in D : a = <<"out", Out(u)>>
      BY <1>2, <2>1, <2>3
    <3>2. PICK v \in D : b = <<"out", Out(v)>>
      BY <1>2, <2>1, <2>3
    <3>3. Out(u) = Out(v)
      BY <2>1, <3>1, <3>2, NodeFacts DEF Exclude
    <3>4. QED
      BY <3>1, <3>2, <3>3
  <2>4. QED
    BY <2>2, <2>3
<1>6. \A x \in Msgs : Users(x)' = IF x = m THEN D ELSE Users(x)
  <2>1. ASSUME NEW x \in Msgs, x # m PROVE Users(x)' = Users(x)
    BY <1>3, <2>1 DEF Users
  <2>2. Users(m)' = D
    <3>1. ASSUME NEW o \in D PROVE o \in Users(m)'
      BY <1>2, <1>4 DEF Users
    <3>2. ASSUME NEW o \in Users(m)' PROVE o \in D
      <4>1. PICK r \in Places : r[2] = Out(o) /\ m \in At(r)' /\ o \in Outputs
        BY <3>2 DEF Users
      <4>2. PICK u \in D : r = <<"out", Out(u)>>
        BY <1>2, <4>1
      <4>3. u = o
        BY <4>1, <4>2, NodeFacts
      <4>4. QED
        BY <4>3
    <3>3. QED
      BY <3>1, <3>2
  <2>3. QED
    BY <2>1, <2>2
<1>7. RefsInv'
  <2>1. IsFiniteSet(D)
    BY OutputsFinite, FS_Subset
  <2>a. Cardinality(D) \in Nat
    BY <2>1, FS_CardinalityType
  <2>2. QED
    BY <1>6, <2>a DEF RefsInv
<1>8. LiveInv'
  <2>1. m \in live /\ live' \subseteq Msgs
    BY DEF LiveInv
  <2>2. \A r \in Places : At(r)' \subseteq live'
    <3>1. SUFFICES ASSUME NEW r \in Places, NEW x \in At(r)' PROVE x \in live'
      OBVIOUS
    <3>2. x \in At(r) \/ x = m
      BY <1>0
    <3>3. x \in live
      BY <2>1, <3>2 DEF LiveInv
    <3>4. x = m => D # {}
      BY <1>2, <3>1
    <3>5. QED
      BY <3>3, <3>4
  <2>3. ASSUME NEW x \in live' PROVE \E r \in Places : x \in At(r)'
    <3>1. CASE x # m
      BY <1>3, <3>1, <2>1 DEF LiveInv
    <3>2. CASE x = m
      <4>1. PICK o \in D : TRUE
        BY <3>2
      <4>2. QED
        BY <1>2, <1>4, <3>2, <4>1
    <3>3. QED
      BY <3>1, <3>2
  <2>4. QED
    BY <2>1, <2>2, <2>3 DEF LiveInv
<1>9. QED
  BY <1>5, <1>7, <1>8

\* The configurator writes to the feedback pipes.
LEMMA Gained ==
    ASSUME UniqueInv, LiveInv, RefsInv, NEW G \in [Inputs -> SUBSET Msgs],
           \A i \in Inputs : G[i] \cap live = {},
           \A i, j \in Inputs : i # j => G[i] \cap G[j] = {},
           \A r \in Places : At(r)' = At(r) \cup (IF r[1] = "pipe" /\ r[2] \in InNodes THEN G[r[2][2]] ELSE {}),
           live' = live \cup UNION {G[i] : i \in Inputs}, refs' = refs
    PROVE  UniqueInv' /\ LiveInv' /\ RefsInv'
<1>1. UniqueInv'
  <2>1. SUFFICES ASSUME NEW a \in Places, NEW b \in Places, NEW m \in Msgs,
                        m \in At(a)', m \in At(b)', Exclude(a, b)
                 PROVE  a = b
    BY DEF UniqueInv, Exclude
  <2>2. CASE m \in live
    <3>1. m \in At(a) /\ m \in At(b)
      BY <2>1, <2>2, NodeFacts
    <3>2. QED
      BY <2>1, <3>1 DEF UniqueInv
  <2>3. CASE m \notin live
    <3>1. \A r \in Places : m \in At(r)' => r[1] = "pipe" /\ r[2] \in InNodes /\ m \in G[r[2][2]]
      BY <2>3 DEF LiveInv
    <3>2. \A n \in InNodes : n[2] \in Inputs /\ n = In(n[2])
      BY NodeFacts
    <3>3. a[2] = b[2] /\ a[1] = b[1]
      BY <2>1, <3>1, <3>2
    <3>4. QED
      BY <3>3 DEF Places
  <2>4. QED
    BY <2>2, <2>3
<1>2. LiveInv'
  <2>1. live' \subseteq Msgs
    BY DEF LiveInv
  <2>2. \A r \in Places : At(r)' \subseteq live'
    BY NodeFacts DEF LiveInv
  <2>3. ASSUME NEW m \in live' PROVE \E r \in Places : m \in At(r)'
    <3>1. CASE m \in live
      BY <3>1 DEF LiveInv
    <3>2. CASE m \notin live
      <4>1. PICK i \in Inputs : m \in G[i]
        BY <3>2
      <4>2. <<"pipe", In(i)>> \in Places /\ In(i) \in InNodes /\ In(i)[2] = i
        BY NodeFacts DEF Places, Nodes
      <4>3. QED
        BY <4>1, <4>2
    <3>3. QED
      BY <3>1, <3>2
  <2>4. QED
    BY <2>1, <2>2, <2>3 DEF LiveInv
<1>3. \A m \in Msgs : Users(m)' = Users(m)
  <2>0. \A o \in Outputs : Out(o) \notin InNodes
    BY NodeFacts DEF Readers
  <2>1. \A r \in Places : \A o \in Outputs : r[2] = Out(o) => At(r)' = At(r)
    BY <2>0
  <2>2. QED
    BY <2>1 DEF Users
<1>4. QED
  BY <1>1, <1>2, <1>3 DEF RefsInv

\* What is left in the feedback pipes is destroyed.
LEMMA Emptied ==
    ASSUME UniqueInv, LiveInv, RefsInv,
           \A r \in Places : At(r)' = IF r[1] = "pipe" THEN {} ELSE At(r),
           live' = live \ UNION {At(r) : r \in {t \in Places : t[1] = "pipe"}}, refs' = refs,
           \A r \in Places : r[1] = "pipe" /\ At(r) # {} => r[2] \in InNodes
    PROVE  UniqueInv' /\ LiveInv' /\ RefsInv'
<1>1. UniqueInv'
  BY DEF UniqueInv, Exclude
<1>2. ASSUME NEW r \in Places, NEW m \in At(r), r[1] # "pipe" PROVE m \in live'
  <2>1. m \in live /\ m \in Msgs
    BY DEF LiveInv
  <2>2. \A t \in Places : t[1] = "pipe" /\ m \in At(t) => Exclude(t, r)
    BY NodeFacts DEF Exclude, Readers
  <2>3. \A t \in Places : t[1] = "pipe" => m \notin At(t)
    BY <1>2, <2>1, <2>2 DEF UniqueInv
  <2>4. QED
    BY <2>1, <2>3
<1>3. LiveInv'
  <2>1. live' \subseteq Msgs /\ \A r \in Places : At(r)' \subseteq live'
    BY <1>2 DEF LiveInv
  <2>2. ASSUME NEW m \in live' PROVE \E r \in Places : m \in At(r)'
    <3>1. PICK r \in Places : m \in At(r)
      BY DEF LiveInv
    <3>2. r[1] # "pipe"
      BY <3>1
    <3>3. QED
      BY <3>1, <3>2
  <2>3. QED
    BY <2>1, <2>2 DEF LiveInv
<1>4. \A m \in Msgs : Users(m)' = Users(m)
  <2>0. \A o \in Outputs : Out(o) \notin InNodes
    BY NodeFacts DEF Readers
  <2>1. \A r \in Places : \A o \in Outputs : r[2] = Out(o) => At(r)' = At(r)
    BY <2>0
  <2>2. QED
    BY <2>1 DEF Users
<1>5. QED
  BY <1>1, <1>3, <1>4 DEF RefsInv

-----------------------------------------------------------------------------
(* The parts of the invariant under a move.                                  *)

LEMMA PlaceFacts ==
    /\ \A n \in Nodes : \A k \in {"pipe", "ring", "hand", "out"} : <<k, n>> \in Places
    /\ \A r \in Places : r[2] \in Nodes /\ r = <<r[1], r[2]>> /\ r[1] \in {"pipe", "ring", "hand", "out"}
BY DEF Places

\* The places one by one.
LEMMA MovesIf ==
    ASSUME NEW p \in Places, NEW q \in Places, NEW S, NEW N,
           \A k \in {"pipe", "ring", "hand", "out"} : \A n \in Nodes :
               At(<<k, n>>)' = (IF <<k, n>> = p THEN At(<<k, n>>) \ S ELSE At(<<k, n>>))
                                  \cup (IF <<k, n>> = q THEN S \cup N ELSE {})
    PROVE  Moves(p, q, S, N)
<1>1. SUFFICES ASSUME NEW r \in Places
               PROVE  At(r)' = (IF r = p THEN At(r) \ S ELSE At(r)) \cup (IF r = q THEN S \cup N ELSE {})
  BY DEF Moves
<1>2. r[1] \in {"pipe", "ring", "hand", "out"} /\ r[2] \in Nodes /\ r = <<r[1], r[2]>>
  BY PlaceFacts
<1>3. QED
  BY <1>2

LEMMA AtFacts ==
    ASSUME NEW n \in Nodes
    PROVE  /\ At(<<"pipe", n>>) = IF n \in InNodes THEN ToSet(fpipe[n[2]]) ELSE {}
           /\ At(<<"ring", n>>) = InRing(n)
           /\ At(<<"hand", n>>) = Holding(n)
           /\ At(<<"out", n>>) = ToPush(n)
BY DEF At

LEMMA OriginMoves ==
    ASSUME OriginInv, NEW p \in Places, NEW q \in Places, NEW S, NEW N, Moves(p, q, S, N),
           \A i \in Inputs : q[2] \in {In(i), Parser(i)} => \A m \in S \cup N : m[2] = i
    PROVE  OriginInv'
BY DEF OriginInv, Moves

\* Nothing new has been made.
LEMMA FreshKept ==
    ASSUME FreshInv, live' \subseteq live, UNCHANGED <<made, open, periods, state>>,
           termSent' = termSent, cpc' = "run" => cpc = "run",
           \A i \in Inputs : (\A p \in BehindParser(i) : Close(i) \notin At(p)) =>
                                 \A p \in BehindParser(i) : Close(i) \notin At(p)',
           \A i \in Inputs : Terminating(Parser(i)) => Terminating(Parser(i))'
    PROVE  FreshInv'
BY DEF FreshInv

-----------------------------------------------------------------------------
(* Where inputs and movers put messages.                                     *)

LEMMA PushFacts ==
    ASSUME NEW n \in InNodes \cup Movers, n # Mgr, NEW ms \in Seq(Msgs)
    PROVE  /\ Push(n, ms) \in Seq(Readers \X Msgs)
           /\ Push(n, ms) = <<>> <=> ms = <<>>
           /\ DOMAIN Push(n, ms) = DOMAIN ms
           /\ \A m : Targets(n, m, Push(n, ms))
           /\ Pushed(Push(n, ms)) = ToSet(ms)
           /\ IsInjective(ms) => IsInjective(Push(n, ms))
<1>1. Succ(n) \in Readers
  BY SuccFacts DEF Readers
<1>2. Push(n, ms) = [k \in 1 .. Len(ms) |-> <<Succ(n), ms[k]>>]
  BY DEF Push
<1>3. Len(ms) \in Nat /\ \A k \in 1 .. Len(ms) : ms[k] \in Msgs
  OBVIOUS
<1>4. Push(n, ms) \in Seq(Readers \X Msgs) /\ Len(Push(n, ms)) = Len(ms)
  BY <1>1, <1>2, <1>3, IsASeq
<1>5. \A k \in DOMAIN Push(n, ms) : Push(n, ms)[k][1] = Succ(n) /\ Push(n, ms)[k][2] = ms[k]
  BY <1>2
<1>6. DOMAIN Push(n, ms) = DOMAIN ms
  BY <1>2
<1>7. Pushed(Push(n, ms)) = ToSet(ms)
  BY <1>5, <1>6 DEF ToSet, Pushed
<1>8. IsInjective(ms) => IsInjective(Push(n, ms))
  BY <1>5, <1>6 DEF IsInjective
<1>9. Push(n, ms) = <<>> <=> ms = <<>>
  BY <1>4
<1>10. QED
  BY <1>4, <1>5, <1>6, <1>7, <1>8, <1>9 DEF Targets

\* A mover gives away the message in its hands, with new ones.
LEMMA HandOver ==
    ASSUME CustodyInv, NEW n \in Movers, n # Mgr, pc[n] = "decide",
           NEW ms \in Seq(Msgs), IsInjective(ms), NEW N \in SUBSET Msgs, N \cap live = {},
           ToSet(ms) = {cur[n]} \cup N, NEW code \in RetCodes, Type(cur[n]) = "term" => code = "ok",
           Start(n, cur[n], Push(n, ms), code), UNCHANGED <<ring, fpipe, cpipe, stops, refs>>,
           live' = live \cup N
    PROVE  /\ CustodyInv' /\ cur[n] \in Msgs
           /\ Moves(<<"hand", n>>, <<"out", n>>, {cur[n]}, N)
           /\ pc'[n] = "push" /\ cur'[n] = cur[n]
           /\ \A k \in Nodes \ {n} : pc'[k] = pc[k] /\ cur'[k] = cur[k]
<1>1. n \in Nodes /\ n \notin OutNodes /\ n \in InNodes \cup Movers
  BY NodeFacts DEF Nodes, Readers, Movers
<1>2. cur[n] \in Msgs
  BY <1>1 DEF CustodyInv, ThreadInv
<1>3. ms # <<>>
  BY <1>2, EmptyFacts
<1>4. /\ Push(n, ms) \in Seq(Readers \X Msgs) /\ Push(n, ms) # <<>>
      /\ Targets(n, cur[n], Push(n, ms))
      /\ Pushed(Push(n, ms)) = ToSet(ms)
      /\ IsInjective(Push(n, ms))
  BY <1>1, <1>3, PushFacts
<1>5. /\ ThreadInv' /\ pc'[n] = "push" /\ cur'[n] = cur[n] /\ out'[n] = Push(n, ms)
      /\ \A k \in Nodes \ {n} : pc'[k] = pc[k] /\ cur'[k] = cur[k] /\ out'[k] = out[k]
  BY <1>1, <1>2, <1>4, StartThread DEF CustodyInv
<1>6. /\ \A k \in Nodes : Holding(k)' = IF k = n THEN {} ELSE Holding(k)
      /\ \A k \in Nodes : ToPush(k)' = IF k = n THEN ToSet(ms) ELSE ToPush(k)
  <2>1. \A k \in Nodes : ToPush(k)' = IF k = n THEN Pushed(Push(n, ms)) ELSE ToPush(k)
    BY <1>1, StartPushes DEF CustodyInv
  <2>2. \A k \in Nodes : Holding(k)' = IF k = n THEN {} ELSE Holding(k)
    BY <1>1, StartHands DEF CustodyInv
  <2>3. QED
    BY <1>4, <2>1, <2>2
<1>7. Holding(n) = {cur[n]} /\ ToPush(n) = {}
  <2>1. out[n] = <<>>
    BY <1>1 DEF CustodyInv, ThreadInv
  <2>2. QED
    BY <1>1, <2>1 DEF Holding, ToPush, Pushed
<1>8. \A k \in Nodes : InRing(k)' = InRing(k)
  BY DEF InRing
<1>9. Moves(<<"hand", n>>, <<"out", n>>, {cur[n]}, N)
  <2>1. <<"hand", n>> \in Places /\ <<"out", n>> \in Places
    BY <1>1, PlaceFacts
  <2>2. ASSUME NEW w \in Nodes
        PROVE  /\ At(<<"pipe", w>>)' = At(<<"pipe", w>>)
               /\ At(<<"ring", w>>)' = At(<<"ring", w>>)
               /\ At(<<"hand", w>>)' = IF w = n THEN {} ELSE At(<<"hand", w>>)
               /\ At(<<"out", w>>)' = IF w = n THEN {cur[n]} \cup N ELSE At(<<"out", w>>)
    BY <1>6, <1>8 DEF At
  <2>3. At(<<"hand", n>>) = {cur[n]} /\ At(<<"out", n>>) = {}
    BY <1>7 DEF At
  <2>4. QED
    BY ZenonT(40), <2>1, <2>2, <2>3, MovesIf
<1>10. UniqueInv' /\ LiveInv' /\ RefsInv'
  <2>1. <<"hand", n>> \in Places /\ <<"out", n>> \in Places /\ {cur[n]} \in SUBSET Msgs
    BY <1>1, <1>2, PlaceFacts
  <2>2. {cur[n]} \subseteq At(<<"hand", n>>)
    BY <1>7 DEF At
  <2>3. QED
    BY <1>1, <1>9, <2>1, <2>2, Moved DEF CustodyInv
<1>11. OnceInv'
  BY <1>4, <1>5 DEF CustodyInv, OnceInv
<1>12. PipesInv'
  BY DEF CustodyInv, PipesInv
<1>13. QED
  BY <1>2, <1>5, <1>9, <1>10, <1>11, <1>12 DEF CustodyInv

\* The messages S are taken from the feedback pipe: the first one, or none.
Takes(i, S) ==
    \/ S = {} /\ fpipe' = fpipe
    \/ fpipe[i] # <<>> /\ S = {Head(fpipe[i])} /\ fpipe' = [fpipe EXCEPT ![i] = Tail(@)]

\* An input passes what it has read from its feedback pipe (S) and new messages.
LEMMA InputStart ==
    ASSUME CustodyInv, NEW i \in Inputs, NEW n, n = In(i), pc[n] \in {"loop", "get"},
           NEW S \in SUBSET Msgs, NEW m \in Msgs \cup {NoMsg},
           Takes(i, S),
           NEW ms \in Seq(Msgs), IsInjective(ms), NEW N \in SUBSET Msgs, N \cap live = {},
           ToSet(ms) = S \cup N, NEW code \in RetCodes, Type(m) = "term" => code = "ok",
           Start(n, m, Push(n, ms), code), UNCHANGED <<ring, cpipe, stops, refs>>,
           live' = live \cup N
    PROVE  /\ CustodyInv'
           /\ Moves(<<"pipe", n>>, <<"out", n>>, S, N)
           /\ \A k \in Nodes \ {n} : pc'[k] = pc[k] /\ cur'[k] = cur[k]
<1>1. n \in InNodes /\ n[2] = i /\ n \in Nodes /\ n \notin OutNodes /\ n # Mgr /\ n \in InNodes \cup Movers
  BY NodeFacts, SuccFacts DEF Nodes, Readers, Movers
<1>t. ThreadInv
  BY DEF CustodyInv
<1>2. /\ Push(n, ms) \in Seq(Readers \X Msgs)
      /\ Targets(n, m, Push(n, ms))
      /\ Pushed(Push(n, ms)) = ToSet(ms)
      /\ IsInjective(Push(n, ms))
  BY <1>1, PushFacts
<1>3. /\ ThreadInv' /\ out'[n] = Push(n, ms)
      /\ \A k \in Nodes \ {n} : pc'[k] = pc[k] /\ cur'[k] = cur[k] /\ out'[k] = out[k]
  BY <1>1, <1>2, StartThread DEF CustodyInv
<1>4. /\ \A k \in Nodes : Holding(k)' = IF k = n THEN {} ELSE Holding(k)
      /\ \A k \in Nodes : ToPush(k)' = IF k = n THEN ToSet(ms) ELSE ToPush(k)
  <2>1. \A k \in Nodes : ToPush(k)' = IF k = n THEN Pushed(Push(n, ms)) ELSE ToPush(k)
    BY <1>1, StartPushes DEF CustodyInv
  <2>2. \A k \in Nodes : Holding(k)' = IF k = n THEN {} ELSE Holding(k)
    BY <1>1, StartHands DEF CustodyInv
  <2>3. QED
    BY <1>2, <2>1, <2>2
<1>5. Holding(n) = {} /\ ToPush(n) = {}
  <2>1. out[n] = <<>>
    BY <1>1 DEF CustodyInv, ThreadInv
  <2>2. QED
    BY <1>1, <2>1 DEF Holding, ToPush, Pushed
<1>6. \A k \in Nodes : InRing(k)' = InRing(k)
  BY DEF InRing
<1>7. fpipe[i] \in Seq(Msgs) /\ fpipe \in [Inputs -> Seq(Msgs)] /\ IsInjective(fpipe[i])
  BY DEF CustodyInv, PipesInv, OnceInv
<1>8. /\ fpipe' \in [Inputs -> Seq(Msgs)] /\ IsInjective(fpipe'[i])
      /\ ToSet(fpipe'[i]) = ToSet(fpipe[i]) \ S /\ S \subseteq ToSet(fpipe[i])
      /\ \A j \in Inputs \ {i} : fpipe'[j] = fpipe[j]
  <2>1. CASE S = {} /\ fpipe' = fpipe
    BY <1>7, <2>1
  <2>2. CASE fpipe[i] # <<>> /\ S = {Head(fpipe[i])} /\ fpipe' = [fpipe EXCEPT ![i] = Tail(@)]
    <3>1. /\ Tail(fpipe[i]) \in Seq(Msgs) /\ IsInjective(Tail(fpipe[i]))
          /\ ToSet(fpipe[i]) = ToSet(Tail(fpipe[i])) \cup S /\ Head(fpipe[i]) \notin ToSet(Tail(fpipe[i]))
      BY <1>7, <2>2, TailFacts
    <3>2. fpipe'[i] = Tail(fpipe[i]) /\ fpipe' \in [Inputs -> Seq(Msgs)]
          /\ \A j \in Inputs \ {i} : fpipe'[j] = fpipe[j]
      BY <1>7, <2>2, <3>1
    <3>3. QED
      BY <2>2, <3>1, <3>2
  <2>3. QED
    BY <2>1, <2>2 DEF Takes
<1>9. Moves(<<"pipe", n>>, <<"out", n>>, S, N)
  <2>1. <<"pipe", n>> \in Places /\ <<"out", n>> \in Places
    BY <1>1, PlaceFacts
  <2>2. ASSUME NEW w \in Nodes
        PROVE  /\ At(<<"pipe", w>>)' = IF w = n THEN At(<<"pipe", w>>) \ S ELSE At(<<"pipe", w>>)
               /\ At(<<"ring", w>>)' = At(<<"ring", w>>)
               /\ At(<<"hand", w>>)' = At(<<"hand", w>>)
               /\ At(<<"out", w>>)' = IF w = n THEN S \cup N ELSE At(<<"out", w>>)
    <3>1. At(<<"pipe", w>>)' = IF w = n THEN At(<<"pipe", w>>) \ S ELSE At(<<"pipe", w>>)
      <4>1. w \in InNodes => w[2] \in Inputs /\ (w[2] = i => w = n)
        BY NodeFacts
      <4>2. QED
        BY <1>1, <1>8, <4>1 DEF At
    <3>2. QED
      BY <1>4, <1>5, <1>6, <3>1 DEF At
  <2>3. At(<<"out", n>>) = {}
    BY <1>5 DEF At
  <2>4. \A k \in {"pipe", "ring", "hand", "out"} : \A w \in Nodes :
           At(<<k, w>>)' = (IF <<k, w>> = <<"pipe", n>> THEN At(<<k, w>>) \ S ELSE At(<<k, w>>))
                               \cup (IF <<k, w>> = <<"out", n>> THEN S \cup N ELSE {})
    BY <2>2, <2>3
  <2>5. QED
    BY <2>1, <2>4, MovesIf
<1>10. UniqueInv' /\ LiveInv' /\ RefsInv'
  <2>1. <<"pipe", n>> \in Places /\ <<"out", n>> \in Places
    BY <1>1, PlaceFacts
  <2>2. S \subseteq At(<<"pipe", n>>)
    BY <1>1, <1>8 DEF At
  <2>3. QED
    BY <1>1, <1>9, <2>1, <2>2, Moved DEF CustodyInv
<1>11. OnceInv'
  BY <1>2, <1>3, <1>8 DEF CustodyInv, OnceInv
<1>12. PipesInv'
  <2>1. \A j \in Inputs : ToSet(fpipe'[j]) \subseteq ToSet(fpipe[j])
    BY <1>8
  <2>2. QED
    BY <1>8, <2>1 DEF CustodyInv, PipesInv
<1>13. QED
  BY <1>3, <1>9, <1>10, <1>11, <1>12 DEF CustodyInv

\* A mover takes the first message of its ring, or destroys it.
LEMMA Popped ==
    ASSUME CustodyInv, NEW n \in Readers, pc[n] = "loop", ring[n] # <<>>,
           ring' = [ring EXCEPT ![n] = Tail(@)], UNCHANGED <<fpipe, stops, refs, out>>
    PROVE  /\ Head(ring[n]) \in Msgs /\ Head(ring[n]) \in At(<<"ring", n>>)
           /\ ring' \in [Readers -> Seq(Msgs)] /\ \A k \in Readers : Len(ring'[k]) <= RingSize
           /\ OnceInv'
           /\ \A w \in Nodes : /\ At(<<"pipe", w>>)' = At(<<"pipe", w>>)
                               /\ At(<<"ring", w>>)' = IF w = n THEN At(<<"ring", w>>) \ {Head(ring[n])}
                                                       ELSE At(<<"ring", w>>)
                               /\ At(<<"out", w>>)' = At(<<"out", w>>)
           /\ At(<<"hand", n>>) = {}
<1>1. n \in Nodes
  BY DEF Nodes
<1>2. ring[n] \in Seq(Msgs) /\ ring \in [Readers -> Seq(Msgs)] /\ IsInjective(ring[n]) /\ Len(ring[n]) <= RingSize
  BY DEF CustodyInv, PipesInv, OnceInv
<1>3. /\ Head(ring[n]) \in Msgs /\ Head(ring[n]) \in ToSet(ring[n])
      /\ Tail(ring[n]) \in Seq(Msgs) /\ IsInjective(Tail(ring[n])) /\ Len(Tail(ring[n])) = Len(ring[n]) - 1
      /\ ToSet(Tail(ring[n])) = ToSet(ring[n]) \ {Head(ring[n])}
  BY <1>2, TailFacts
<1>4. ring'[n] = Tail(ring[n]) /\ \A k \in Readers \ {n} : ring'[k] = ring[k]
  BY <1>2
<1>5. ring' \in [Readers -> Seq(Msgs)] /\ \A k \in Readers : Len(ring'[k]) <= RingSize
  <2>1. Len(Tail(ring[n])) <= RingSize
    BY <1>2, <1>3, SizesAssumption
  <2>2. QED
    BY <1>2, <1>3, <1>4, <2>1 DEF CustodyInv, PipesInv
<1>6. ASSUME NEW w \in Nodes
      PROVE  InRing(w)' = IF w = n THEN InRing(w) \ {Head(ring[n])} ELSE InRing(w)
  <2>1. CASE w = n
    BY <1>3, <1>4, <2>1 DEF InRing
  <2>2. CASE w # n
    BY <1>4, <2>2 DEF InRing
  <2>3. QED
    BY <2>1, <2>2
<1>7. \A w \in Nodes : ToPush(w)' = ToPush(w)
  BY DEF ToPush
<1>8. OnceInv'
  BY <1>3, <1>4 DEF CustodyInv, OnceInv
<1>9. Head(ring[n]) \in At(<<"ring", n>>) /\ At(<<"hand", n>>) = {}
  BY <1>3 DEF At, InRing, Holding
<1>10. QED
  BY <1>3, <1>5, <1>6, <1>7, <1>8, <1>9 DEF At

\* The place of what n pushes to an instance.
PushPlace(n, to) == <<"out", IF n = Mgr THEN to ELSE n>>

\* What n has to push behind the first one.
Rest(n) == Tail(out[n])

LEMMA PushHead ==
    ASSUME CustodyInv, NEW n \in InNodes \cup Movers, pc[n] = "push"
    PROVE  \E to \in Readers, m \in Msgs : Head(out[n]) = <<to, m>>
<1>1. out[n] # <<>> /\ out[n] \in Seq(Readers \X Msgs)
  BY DEF CustodyInv, ThreadInv, Nodes, Readers
<1>2. Head(out[n]) \in Readers \X Msgs
  BY <1>1, TailFacts
<1>3. QED
  BY <1>2

LEMMA PushTail ==
    ASSUME CustodyInv, NEW n \in InNodes \cup Movers, pc[n] = "push",
           NEW to \in Readers, NEW m \in Msgs, Head(out[n]) = <<to, m>>
    PROVE  /\ Rest(n) \in Seq(Readers \X Msgs) /\ IsInjective(Rest(n)) /\ Targets(n, cur[n], Rest(n))
           /\ n # Mgr => to = Succ(n) /\ Pushed(Rest(n)) = Pushed(out[n]) \ {m} /\ m \in Pushed(out[n])
           /\ n = Mgr => to \in OutNodes /\ m = cur[n] /\ m \in Toward(to, out[n])
           /\ \A k : Toward(k, Rest(n)) = IF k = to THEN Toward(k, out[n]) \ {m} ELSE Toward(k, out[n])
<1>1. n \in Nodes
  BY DEF Nodes, Readers
<1>2. PICK s \in Seq(Readers \X Msgs) : out[n] = s
  BY <1>1 DEF CustodyInv, ThreadInv
<1>3. s # <<>> /\ IsInjective(s) /\ Targets(n, cur[n], s)
  BY <1>1, <1>2 DEF CustodyInv, ThreadInv, OnceInv
<1>4. PICK t \in Seq(Readers \X Msgs) : Rest(n) = t /\ t = Tail(s)
  BY <1>2, <1>3, TailFacts DEF Rest
<1>5. /\ IsInjective(t) /\ Head(s) \notin ToSet(t)
      /\ \A k \in DOMAIN t : k + 1 \in DOMAIN s /\ t[k] = s[k + 1]
      /\ ToSet(s) = ToSet(t) \cup {Head(s)}
  BY <1>3, <1>4, TailFacts
<1>6. Head(s) = <<to, m>> /\ s[1] = <<to, m>> /\ 1 \in DOMAIN s
  BY <1>2, <1>3
<1>7. ASSUME NEW x PROVE (\E j \in DOMAIN t : t[j] = x) <=> (\E j \in DOMAIN s : s[j] = x) /\ x # <<to, m>>
  BY <1>5, <1>6 DEF ToSet
<1>8. Targets(n, cur[n], t)
  BY <1>3, <1>5 DEF Targets
<1>9. ASSUME n # Mgr PROVE Pushed(t) = Pushed(s) \ {m} /\ m \in Pushed(s) /\ to = Succ(n)
  <2>1. \A k \in DOMAIN s : s[k] = <<Succ(n), s[k][2]>>
    <3>1. ASSUME NEW k \in DOMAIN s PROVE s[k] = <<Succ(n), s[k][2]>>
      <4>1. s[k] \in Readers \X Msgs
        OBVIOUS
      <4>2. s[k] = <<s[k][1], s[k][2]>>
        BY <4>1
      <4>3. QED
        BY <1>3, <1>9, <4>2 DEF Targets
    <3>2. QED
      BY <3>1
  <2>2. \A k \in DOMAIN s : s[k][2] # m <=> s[k] # <<to, m>>
    BY <1>6, <2>1
  <2>3. ASSUME NEW x PROVE x \in Pushed(t) <=> x \in Pushed(s) /\ x # m
    <3>1. ASSUME x \in Pushed(t) PROVE x \in Pushed(s) /\ x # m
      <4>1. PICK j \in DOMAIN t : x = t[j][2]
        BY <3>1 DEF Pushed
      <4>2. PICK k \in DOMAIN s : s[k] = t[j] /\ s[k] # <<to, m>>
        BY <1>7
      <4>3. QED
        BY <2>2, <4>1, <4>2 DEF Pushed
    <3>2. ASSUME x \in Pushed(s), x # m PROVE x \in Pushed(t)
      <4>1. PICK k \in DOMAIN s : x = s[k][2]
        BY <3>2 DEF Pushed
      <4>2. s[k] # <<to, m>>
        BY <2>2, <3>2, <4>1
      <4>3. PICK j \in DOMAIN t : t[j] = s[k]
        BY <1>7, <4>2
      <4>4. QED
        BY <4>1, <4>3 DEF Pushed
    <3>3. QED
      BY <3>1, <3>2
  <2>4. m \in Pushed(s)
    BY <1>6 DEF Pushed
  <2>5. to = Succ(n)
    BY <1>6, <2>1
  <2>6. QED
    BY <2>3, <2>4, <2>5
<1>10. n = Mgr => to \in OutNodes /\ m = cur[n] /\ m \in Toward(to, s)
  BY <1>3, <1>6 DEF Targets, Toward
<1>11. ASSUME NEW k PROVE Toward(k, t) = IF k = to THEN Toward(k, s) \ {m} ELSE Toward(k, s)
  <2>1. \A x \in Msgs : x \in Toward(k, t) <=> x \in Toward(k, s) /\ <<k, x>> # <<to, m>>
    BY <1>7 DEF Toward
  <2>2. \A x : <<k, x>> = <<to, m>> <=> k = to /\ x = m
    OBVIOUS
  <2>3. Toward(k, t) \subseteq Msgs /\ Toward(k, s) \subseteq Msgs
    BY DEF Toward
  <2>4. QED
    BY <2>1, <2>2, <2>3
<1>12. QED
  BY <1>2, <1>4, <1>5, <1>8, <1>9, <1>10, <1>11

LEMMA PushOneCustody ==
    ASSUME CustodyInv, NEW n \in InNodes \cup Movers, PushOne(n),
           NEW to \in Readers, NEW m \in Msgs, Head(out[n]) = <<to, m>>
    PROVE  /\ CustodyInv'
           /\ IF n = Mgr THEN to \in OutNodes ELSE to = Succ(n)
           /\ Moves(PushPlace(n, to), <<"ring", to>>, {m}, {})
           /\ m \in At(PushPlace(n, to))
           /\ Terminating(n) => Terminating(n)'
           /\ \A k \in Nodes \ {n} : pc'[k] = pc[k] /\ cur'[k] = cur[k]
<1> USE DEF RetCodes
<1>1. n \in Nodes /\ n \notin OutNodes /\ pc[n] = "push"
  BY NodeFacts DEF Nodes, Readers, Movers, PushOne
<1>2. /\ Rest(n) \in Seq(Readers \X Msgs) /\ IsInjective(Rest(n)) /\ Targets(n, cur[n], Rest(n))
      /\ n # Mgr => to = Succ(n) /\ Pushed(Rest(n)) = Pushed(out[n]) \ {m} /\ m \in Pushed(out[n])
      /\ n = Mgr => to \in OutNodes /\ m = cur[n] /\ m \in Toward(to, out[n])
      /\ \A k : Toward(k, Rest(n)) = IF k = to THEN Toward(k, out[n]) \ {m} ELSE Toward(k, out[n])
  BY <1>1, PushTail
<1>3. /\ ring' = [ring EXCEPT ![to] = Append(@, m)] /\ Len(ring[to]) < RingSize
      /\ Start(n, cur[n], Rest(n), rc[n])
      /\ UNCHANGED <<fpipe, cpipe, stops, refs, live>>
  <2>1. <<to, m>>[1] = to /\ <<to, m>>[2] = m
    OBVIOUS
  <2>2. QED
    BY <2>1 DEF PushOne, config, Rest
<1>4. cur[n] \in Msgs \cup {NoMsg} /\ rc[n] \in RetCodes /\ (Type(cur[n]) = "term" => rc[n] = "ok") /\ ThreadInv
  BY <1>1 DEF CustodyInv, ThreadInv
<1>5. /\ ThreadInv' /\ out'[n] = Rest(n)
      /\ Rest(n) # <<>> => pc'[n] = "push" /\ cur'[n] = cur[n]
      /\ \A k \in Nodes \ {n} : pc'[k] = pc[k] /\ cur'[k] = cur[k] /\ out'[k] = out[k]
  BY <1>2, <1>3, <1>4, StartThread
<1>6. Terminating(n) => Terminating(n)'
  <2>1. SUFFICES ASSUME Type(cur[n]) = "term", Rest(n) = <<>> PROVE pc'[n] = "exit"
    BY <1>1, <1>5 DEF Terminating
  <2>2. rc[n] = "ok"
    BY <1>4, <2>1
  <2>3. After(n, cur[n], rc[n]) = "exit"
    BY <2>1, <2>2 DEF After, IsPeriodic
  <2>4. QED
    BY <1>1, <1>3, <1>4, <2>1, <2>3 DEF Start, ThreadInv
<1>7. \A k \in Nodes : Holding(k)' = Holding(k)
  <2>1. \A k \in Nodes : Holding(k)' = IF k = n THEN {} ELSE Holding(k)
    BY <1>3, <1>4, StartHands
  <2>2. Holding(n) = {}
    BY <1>1 DEF Holding
  <2>3. QED
    BY <2>1, <2>2
<1>8. \A k \in Nodes : ToPush(k)' = IF k = PushPlace(n, to)[2] THEN ToPush(k) \ {m} ELSE ToPush(k)
  <2>1. CASE n # Mgr
    <3>1. \A k \in Nodes : ToPush(k)' = IF k = n THEN Pushed(Rest(n)) ELSE ToPush(k)
      BY <1>3, <1>4, <2>1, StartPushes
    <3>2. ToPush(n) = Pushed(out[n])
      BY <1>1, <2>1 DEF ToPush
    <3>3. PushPlace(n, to)[2] = n
      BY <2>1 DEF PushPlace
    <3>4. QED
      BY <1>2, <2>1, <3>1, <3>2, <3>3
  <2>2. CASE n = Mgr
    <3>1. \A k \in Nodes : ToPush(k)' =
             IF k \in OutNodes THEN Toward(k, Rest(n)) ELSE ToPush(k)
      BY <1>3, <1>4, <2>2, StartMgrPushes
    <3>2. PushPlace(n, to)[2] = to
      BY <2>2 DEF PushPlace
    <3>3. ASSUME NEW k \in OutNodes
          PROVE  ToPush(k)' = IF k = to THEN ToPush(k) \ {m} ELSE ToPush(k)
      <4>1. k \in Nodes
        BY DEF Nodes, Readers
      <4>2. ToPush(k)' = Toward(k, Rest(n)) /\ ToPush(k) = Toward(k, out[n])
        BY <2>2, <3>1, <4>1 DEF ToPush
      <4>3. QED
        BY <1>2, <4>2
    <3>4. QED
      BY <1>2, <2>2, <3>1, <3>2, <3>3
  <2>3. QED
    BY <2>1, <2>2
<1>9. m \in At(PushPlace(n, to)) /\ PushPlace(n, to) \in Places
  <2>1. CASE n # Mgr
    <3>1. ToPush(n) = Pushed(out[n])
      BY <1>1, <2>1 DEF ToPush
    <3>2. QED
      BY <1>1, <1>2, <2>1, <3>1, PlaceFacts DEF PushPlace, At
  <2>2. CASE n = Mgr
    <3>1. m \in ToPush(to) /\ to \in Nodes
      BY <1>2, <2>2 DEF ToPush, Nodes
    <3>2. QED
      BY <2>2, <3>1, PlaceFacts DEF PushPlace, At
  <2>3. QED
    BY <2>1, <2>2
<1>10. m \notin ToSet(ring[to])
  <2>1. <<"ring", to>> \in Places /\ At(<<"ring", to>>) = ToSet(ring[to])
    BY <1>2, PlaceFacts DEF At, InRing, Nodes
  <2>2. PushPlace(n, to) # <<"ring", to>> /\ Exclude(PushPlace(n, to), <<"ring", to>>)
    BY <1>1 DEF PushPlace, Exclude
  <2>3. QED
    BY <1>2, <1>9, <2>1, <2>2 DEF CustodyInv, UniqueInv
<1>11. ring[to] \in Seq(Msgs) /\ ring \in [Readers -> Seq(Msgs)] /\ IsInjective(ring[to])
  BY <1>2 DEF CustodyInv, PipesInv, OnceInv
<1>12. /\ Append(ring[to], m) \in Seq(Msgs) /\ Len(Append(ring[to], m)) <= RingSize
       /\ ToSet(Append(ring[to], m)) = ToSet(ring[to]) \cup {m} /\ IsInjective(Append(ring[to], m))
  BY <1>2, <1>3, <1>10, <1>11, AppendFacts, SizesAssumption
<1>13. ring'[to] = Append(ring[to], m) /\ \A k \in Readers \ {to} : ring'[k] = ring[k]
  BY <1>2, <1>3, <1>11
<1>14. \A k \in Nodes : InRing(k)' = IF k = to THEN InRing(k) \cup {m} ELSE InRing(k)
  <2>1. InRing(to)' = InRing(to) \cup {m}
    BY <1>2, <1>12, <1>13 DEF InRing
  <2>2. \A k \in Nodes : k # to => InRing(k)' = InRing(k)
    BY <1>13 DEF InRing
  <2>3. QED
    BY <2>1, <2>2
<1>15. Moves(PushPlace(n, to), <<"ring", to>>, {m}, {})
  <2>1. PushPlace(n, to)[1] = "out" /\ PushPlace(n, to) = <<"out", PushPlace(n, to)[2]>>
    BY DEF PushPlace
  <2>2. ASSUME NEW w \in Nodes
        PROVE  /\ At(<<"pipe", w>>)' = At(<<"pipe", w>>)
               /\ At(<<"ring", w>>)' = IF w = to THEN At(<<"ring", w>>) \cup {m} ELSE At(<<"ring", w>>)
               /\ At(<<"hand", w>>)' = At(<<"hand", w>>)
               /\ At(<<"out", w>>)' = IF w = PushPlace(n, to)[2] THEN At(<<"out", w>>) \ {m} ELSE At(<<"out", w>>)
    BY <1>3, <1>7, <1>8, <1>14 DEF At
  <2>3. <<"ring", to>> \in Places
    BY <1>2, PlaceFacts DEF Nodes
  <2>4. ASSUME NEW k \in {"pipe", "ring", "hand", "out"}, NEW w \in Nodes
        PROVE  At(<<k, w>>)' = (IF <<k, w>> = PushPlace(n, to) THEN At(<<k, w>>) \ {m} ELSE At(<<k, w>>))
                                   \cup (IF <<k, w>> = <<"ring", to>> THEN {m} \cup {} ELSE {})
    <3>1. <<k, w>> = PushPlace(n, to) <=> k = "out" /\ w = PushPlace(n, to)[2]
      BY <2>1
    <3>2. <<k, w>> = <<"ring", to>> <=> k = "ring" /\ w = to
      OBVIOUS
    <3>3. QED
      BY <2>2, <3>1, <3>2
  <2>5. QED
    BY <1>9, <2>3, <2>4, MovesIf
<1>16. UniqueInv' /\ LiveInv' /\ RefsInv'
  <2>1. <<"ring", to>> \in Places /\ {m} \subseteq At(PushPlace(n, to)) /\ {m} \in SUBSET Msgs
    BY <1>2, <1>9, PlaceFacts DEF Nodes
  <2>2. \/ PushPlace(n, to)[2] \notin OutNodes /\ to \notin OutNodes
        \/ PushPlace(n, to)[2] = to
    <3>1. n # Mgr => to \in Movers
      BY <1>2, SuccFacts
    <3>2. QED
      BY <1>1, <3>1, NodeFacts DEF PushPlace, Movers
  <2>3. <<"ring", to>>[2] = to /\ {} \cap live = {} /\ live' = live \cup {}
    BY <1>3
  <2>4. QED
    BY <1>3, <1>9, <1>15, <2>1, <2>2, <2>3, Moved DEF CustodyInv
<1>17. OnceInv'
  BY <1>2, <1>3, <1>5, <1>12, <1>13 DEF CustodyInv, OnceInv
<1>18. PipesInv'
  BY <1>3, <1>11, <1>12, <1>13 DEF CustodyInv, PipesInv
<1>19. QED
  BY <1>2, <1>5, <1>6, <1>9, <1>15, <1>16, <1>17, <1>18 DEF CustodyInv

-----------------------------------------------------------------------------
(* Steps without a push.                                                     *)

\* The thread of n goes to a with m in its hands, and has nothing to push.
LEMMA StepThread ==
    ASSUME ThreadInv, NEW n \in Nodes, pc[n] \notin {"push"},
           NEW a \in States(n), a # "push", NEW c \in Msgs \cup {NoMsg}, a \in {"decide", "release"} <=> c # NoMsg,
           pc' = [pc EXCEPT ![n] = a], cur' = [cur EXCEPT ![n] = c], out' = out,
           rc' = [rc EXCEPT ![n] = "ok"]
    PROVE  /\ ThreadInv'
           /\ \A k \in Nodes : Holding(k)' = IF k = n THEN IF c = NoMsg THEN {} ELSE {c} ELSE Holding(k)
           /\ pc'[n] = a /\ cur'[n] = c
           /\ \A k \in Nodes \ {n} : pc'[k] = pc[k] /\ cur'[k] = cur[k]
<1>1. /\ pc'[n] = a /\ cur'[n] = c /\ rc'[n] = "ok" /\ out'[n] = <<>>
      /\ \A k \in Nodes \ {n} : pc'[k] = pc[k] /\ cur'[k] = cur[k] /\ rc'[k] = rc[k] /\ out'[k] = out[k]
  BY DEF ThreadInv
<1>2. /\ pc' \in [Nodes -> InputStates \cup MoverStates \cup OutStates]
      /\ cur' \in [Nodes -> Msgs \cup {NoMsg}]
      /\ rc' \in [Nodes -> RetCodes] /\ out' \in [Nodes -> Seq(Readers \X Msgs)]
  <2>1. a \in InputStates \cup MoverStates \cup OutStates
    BY DEF States
  <2>2. pc' \in [Nodes -> InputStates \cup MoverStates \cup OutStates]
    BY <2>1 DEF ThreadInv
  <2>3. QED
    BY <2>2 DEF ThreadInv, RetCodes
<1>3. Targets(n, c, <<>>)
  BY DEF Targets
<1>4. ASSUME NEW k \in Nodes
      PROVE  /\ pc'[k] \in States(k)
             /\ out'[k] # <<>> <=> pc'[k] = "push"
             /\ pc'[k] \in {"decide", "release"} => cur'[k] # NoMsg
             /\ pc'[k] \in {"decide", "release", "push"} \/ cur'[k] = NoMsg
             /\ rc'[k] = "ok" \/ (pc'[k] \in {"push", "handle"} /\ Type(cur'[k]) # "term")
             /\ Targets(k, cur'[k], out'[k])
  <2>1. CASE k = n
    BY <1>1, <1>3, <2>1
  <2>2. CASE k # n
    BY <1>1, <2>2 DEF ThreadInv
  <2>3. QED
    BY <2>1, <2>2
<1>5. ThreadInv'
  BY <1>2, <1>4 DEF ThreadInv
<1>6. ASSUME NEW k \in Nodes
      PROVE  Holding(k)' = IF k = n THEN IF c = NoMsg THEN {} ELSE {c} ELSE Holding(k)
  BY <1>1 DEF Holding
<1>7. QED
  BY <1>1, <1>5, <1>6

\* Nothing moves.
LEMMA Quiet ==
    ASSUME CustodyInv, UNCHANGED <<ring, out, fpipe, live, refs>>, ThreadInv', PipesInv',
           \A n \in Nodes : Holding(n)' = Holding(n)
    PROVE  CustodyInv' /\ \A r \in Places : At(r)' = At(r)
<1>1. ASSUME NEW r \in Places PROVE At(r)' = At(r)
  <2>1. r[2] \in Nodes
    BY PlaceFacts
  <2>2. /\ InRing(r[2])' = InRing(r[2])
        /\ ToPush(r[2])' = ToPush(r[2])
    BY DEF InRing, ToPush
  <2>3. QED
    BY <2>1, <2>2 DEF At
<1>2. \A m \in Msgs : Users(m)' = Users(m)
  BY <1>1 DEF Users
<1>3. UniqueInv' /\ LiveInv' /\ RefsInv'
  <2>1. UniqueInv'
    BY <1>1 DEF CustodyInv, UniqueInv, Exclude
  <2>2. LiveInv'
    BY <1>1 DEF CustodyInv, LiveInv
  <2>3. RefsInv'
    BY <1>2 DEF CustodyInv, RefsInv
  <2>4. QED
    BY <2>1, <2>2, <2>3
<1>4. OnceInv'
  BY DEF CustodyInv, OnceInv
<1>5. QED
  BY <1>1, <1>3, <1>4 DEF CustodyInv

\* Before the intermediate plugins, messages move from p to q only, and forward.
Shifts(p, q) ==
    \A r \in Places : r[2] \in InNodes \cup Parsers =>
        At(r)' \subseteq At(r) \cup (IF r = q THEN At(p) ELSE {})
Forward(p, q) ==
    \A i \in Inputs : /\ q[2] \in {In(i), Parser(i)} => p[2] \in {In(i), Parser(i)}
                      /\ q \in BehindParser(i) => p \in BehindParser(i)

LEMMA BehindFacts ==
    \A i \in Inputs : \A r \in BehindParser(i) : r \in Places /\ r[2] \in {In(i), Parser(i)} /\ r[1] # "pipe"
<1>1. SUFFICES ASSUME NEW i \in Inputs, NEW r \in BehindParser(i)
               PROVE  r \in Places /\ r[2] \in {In(i), Parser(i)} /\ r[1] # "pipe"
  OBVIOUS
<1>2. In(i) \in Nodes /\ Parser(i) \in Nodes
  BY NodeFacts DEF Nodes, Readers, Movers
<1>3. r = <<"out", In(i)>> \/ r = <<"ring", Parser(i)>> \/ r = <<"hand", Parser(i)>>
  BY DEF BehindParser
<1>4. QED
  BY ZenonT(40), <1>2, <1>3, PlaceFacts

LEMMA Shifted ==
    ASSUME OriginInv, FreshInv, NEW p \in Places, NEW q \in Places, Shifts(p, q), Forward(p, q),
           live' \subseteq live, UNCHANGED <<made, open, periods, state, termSent>>,
           cpc' = "run" => cpc = "run",
           \A i \in Inputs : Terminating(Parser(i)) => Terminating(Parser(i))'
    PROVE  OriginInv' /\ FreshInv'
<1>1. \A i \in Inputs : In(i) \in InNodes /\ Parser(i) \in Parsers
  BY NodeFacts
<1>2. OriginInv'
  <2>1. SUFFICES ASSUME NEW i \in Inputs, NEW r \in Places, r[2] \in {In(i), Parser(i)},
                        NEW m \in At(r)'
                 PROVE  m[2] = i
    BY DEF OriginInv
  <2>2. m \in At(r) \/ (r = q /\ m \in At(p))
    BY <1>1, <2>1 DEF Shifts
  <2>3. CASE m \in At(r)
    BY <2>1, <2>3 DEF OriginInv
  <2>4. CASE r = q /\ m \in At(p)
    <3>1. p[2] \in {In(i), Parser(i)}
      BY <2>1, <2>4 DEF Forward
    <3>2. QED
      BY <2>4, <3>1 DEF OriginInv
  <2>5. QED
    BY <2>2, <2>3, <2>4
<1>3. ASSUME NEW i \in Inputs, \A r \in BehindParser(i) : Close(i) \notin At(r)
      PROVE  \A r \in BehindParser(i) : Close(i) \notin At(r)'
  <2>1. \A r \in BehindParser(i) : r \in Places /\ r[2] \in InNodes \cup Parsers
    BY <1>1, BehindFacts
  <2>2. \A r \in BehindParser(i) : At(r)' \subseteq At(r) \cup (IF r = q THEN At(p) ELSE {})
    BY <2>1 DEF Shifts
  <2>3. q \in BehindParser(i) => Close(i) \notin At(p)
    BY <1>3 DEF Forward
  <2>4. QED
    BY <1>3, <2>2, <2>3
<1>4. FreshInv'
  BY <1>3, FreshKept
<1>5. QED
  BY <1>2, <1>4

LEMMA Notified ==
    ASSUME PipesInv, NEW m, Destroy(m)
    PROVE  cpipe' \in Seq(Requests)
<1>1. <<"done", NoMsg>> \in Requests
  BY DEF Requests
<1>2. cpipe \in Seq(Requests)
  BY DEF PipesInv
<1>3. cpipe' = Append(cpipe, <<"done", NoMsg>>) \/ cpipe' = cpipe
  BY DEF Destroy
<1>4. Append(cpipe, <<"done", NoMsg>>) \in Seq(Requests)
  BY <1>1, <1>2, AppendFacts
<1>5. QED
  BY <1>2, <1>3, <1>4

\* A thread that terminates still does, and the others have not moved.
LEMMA StillTerminating ==
    ASSUME NEW n \in Nodes, Terminating(n) => Terminating(n)',
           \A k \in Nodes \ {n} : pc'[k] = pc[k] /\ cur'[k] = cur[k]
    PROVE  \A i \in Inputs : Terminating(Parser(i)) => Terminating(Parser(i))'
<1>1. \A i \in Inputs : Parser(i) \in Nodes
  BY NodeFacts DEF Nodes, Readers, Movers
<1>2. ASSUME NEW i \in Inputs, Terminating(Parser(i)) PROVE Terminating(Parser(i))'
  <2>1. CASE Parser(i) = n
    BY <1>2, <2>1
  <2>2. CASE Parser(i) # n
    <3>1. pc'[Parser(i)] = pc[Parser(i)] /\ cur'[Parser(i)] = cur[Parser(i)]
      BY <1>1, <2>2
    <3>2. QED
      BY <1>2, <3>1 DEF Terminating
  <2>3. QED
    BY <2>1, <2>2
<1>3. QED
  BY <1>2

\* The places of one instance.
LEMMA WithinForward ==
    ASSUME NEW n, NEW p, NEW q, p = <<"ring", n>>, q \in {<<"hand", n>>, p}
    PROVE  Forward(p, q)
<1>1. SUFFICES ASSUME NEW i \in Inputs, q \in BehindParser(i) PROVE p \in BehindParser(i)
  BY DEF Forward
<1>2. n = Parser(i)
  <2>1. q[2] = n /\ q[1] # "out"
    OBVIOUS
  <2>2. q[2] = Parser(i)
    BY <1>1, <2>1 DEF BehindParser
  <2>3. QED
    BY <2>1, <2>2
<1>3. QED
  BY <1>2 DEF BehindParser

\* A thread takes a message in its hands.
LEMMA TakenThread ==
    ASSUME ThreadInv, NEW n \in Nodes, pc[n] = "loop", NEW m \in Msgs, NEW a \in States(n), a \in {"decide", "release"},
           pc' = [pc EXCEPT ![n] = a], cur' = [cur EXCEPT ![n] = m], UNCHANGED <<out, rc>>
    PROVE  /\ ThreadInv'
           /\ \A k \in Nodes : Holding(k)' = IF k = n THEN {m} ELSE Holding(k)
           /\ \A k \in Nodes \ {n} : pc'[k] = pc[k] /\ cur'[k] = cur[k]
<1>1. m # NoMsg /\ m \in Msgs \cup {NoMsg}
  BY MsgFacts
<1>2. rc' = [rc EXCEPT ![n] = "ok"] /\ out' = out
  BY DEF ThreadInv
<1>3. pc[n] \notin {"push"} /\ a # "push" /\ (a \in {"decide", "release"} <=> m # NoMsg)
  BY <1>1
<1>4. /\ ThreadInv'
      /\ \A k \in Nodes : Holding(k)' = IF k = n THEN IF m = NoMsg THEN {} ELSE {m} ELSE Holding(k)
      /\ \A k \in Nodes \ {n} : pc'[k] = pc[k] /\ cur'[k] = cur[k]
  BY <1>1, <1>2, <1>3, StepThread
<1>5. QED
  BY <1>1, <1>4

\* A reader has a message of its ring in its hands.
LEMMA Taken ==
    ASSUME IInv, NEW n \in Readers, pc[n] = "loop", ring[n] # <<>>,
           ring' = [ring EXCEPT ![n] = Tail(@)], UNCHANGED <<fpipe, stops, refs, out, rc, live>>,
           NEW a \in States(n), a \in {"decide", "release"},
           pc' = [pc EXCEPT ![n] = a], cur' = [cur EXCEPT ![n] = Head(ring[n])],
           cpipe' \in Seq(Requests), NumbersInv',
           UNCHANGED <<made, open, periods, state, termSent, cpc>>
    PROVE  IInv' /\ Passes(<<"ring", n>>, <<"hand", n>>, Head(ring[n]))
<1> DEFINE m == Head(ring[n])
           p == <<"ring", n>>
           q == <<"hand", n>>
<1> USE DEF IInv, CustodyInv
<1>1. n \in Nodes /\ p \in Places /\ q \in Places /\ p[2] = n /\ q[2] = n
  BY PlaceFacts DEF Nodes
<1>2. /\ m \in Msgs /\ m \in At(p)
      /\ ring' \in [Readers -> Seq(Msgs)] /\ \A k \in Readers : Len(ring'[k]) <= RingSize
      /\ OnceInv'
      /\ \A w \in Nodes : /\ At(<<"pipe", w>>)' = At(<<"pipe", w>>)
                          /\ At(<<"ring", w>>)' = IF w = n THEN At(<<"ring", w>>) \ {m} ELSE At(<<"ring", w>>)
                          /\ At(<<"out", w>>)' = At(<<"out", w>>)
      /\ At(q) = {}
  BY <1>1, Popped
<1>3. cur' = [cur EXCEPT ![n] = m]
  OBVIOUS
<1> HIDE DEF m, p, q
<1>4. PipesInv'
  BY <1>2 DEF PipesInv
<1>5. /\ ThreadInv'
      /\ \A k \in Nodes : Holding(k)' = IF k = n THEN {m} ELSE Holding(k)
      /\ \A k \in Nodes \ {n} : pc'[k] = pc[k] /\ cur'[k] = cur[k]
  <2>1. ThreadInv /\ UNCHANGED <<out, rc>> /\ m \in Msgs
    BY <1>2
  <2> HIDE DEF IInv, CustodyInv
  <2>2. QED
    BY <1>1, <1>3, <2>1, TakenThread
<1>6. Moves(p, q, {m}, {})
  <2>1. ASSUME NEW k \in {"pipe", "ring", "hand", "out"}, NEW w \in Nodes
        PROVE  At(<<k, w>>)' = (IF <<k, w>> = p THEN At(<<k, w>>) \ {m} ELSE At(<<k, w>>))
                                    \cup (IF <<k, w>> = q THEN {m} \cup {} ELSE {})
    <3>1. At(<<"hand", w>>)' = IF w = n THEN {m} ELSE At(<<"hand", w>>)
      BY <1>5 DEF At
    <3>2. QED
      BY <1>2, <3>1 DEF p, q
  <2>2. QED
    BY <1>1, <2>1, MovesIf
<1>7. UniqueInv' /\ LiveInv' /\ RefsInv'
  <2>1. {m} \subseteq At(p) /\ {m} \in SUBSET Msgs /\ live' = live \cup {} /\ {} \cap live = {}
    BY <1>2
  <2>2. QED
    BY <1>1, <1>6, <2>1, Moved
<1>8. Shifts(p, q) /\ Forward(p, q)
  <2>1. Shifts(p, q)
    BY <1>2, <1>6 DEF Shifts, Moves
  <2>2. QED
    BY <2>1, WithinForward DEF p, q
<1>9. \A i \in Inputs : Terminating(Parser(i)) => Terminating(Parser(i))'
  <2>1. ~Terminating(n)
    BY DEF Terminating
  <2>2. QED
    BY <1>1, <1>5, <2>1, StillTerminating
<1>10. OriginInv' /\ FreshInv'
  BY <1>1, <1>8, <1>9, Shifted
<1>11. QED
  BY <1>2, <1>4, <1>5, <1>6, <1>7, <1>10 DEF m, p, q, Passes

LEMMA PopStep ==
    ASSUME IInv, NEW n \in Movers, MoverPop(n)
    PROVE  /\ IInv'
           /\ \/ Leaves(<<"ring", n>>, Head(ring[n])) /\ live' = live \ {Head(ring[n])}
              \/ Passes(<<"ring", n>>, <<"hand", n>>, Head(ring[n]))
<1> DEFINE m == Head(ring[n])
           p == <<"ring", n>>
           q == <<"hand", n>>
<1> USE DEF IInv, CustodyInv
<1>1. n \in Readers /\ n \in Nodes /\ n \notin OutNodes /\ p \in Places /\ q \in Places /\ p[2] = n /\ q[2] = n
  BY NodeFacts, PlaceFacts DEF Nodes, Readers, Movers
<1>2. /\ pc[n] = "loop" /\ ring[n] # <<>>
      /\ ring' = [ring EXCEPT ![n] = Tail(@)]
      /\ termCnt' = IF IsEarlyTerm(n, m) THEN termCnt - 1 ELSE termCnt
      /\ waiting' = IF IsPeriodic(m) /\ ~IsOldPeriodic(n, m) THEN [waiting EXCEPT ![n] = @ + 1] ELSE waiting
      /\ UNCHANGED <<fpipe, stops, refs, out, rc, processing, made, open, knows, signals, state, termSent, periods, cpc>>
  BY DEF MoverPop, config
<1>3. \/ Destroy(m) /\ UNCHANGED <<pc, cur>>
      \/ pc' = [pc EXCEPT ![n] = "decide"] /\ cur' = [cur EXCEPT ![n] = m] /\ UNCHANGED <<live, cpipe>>
  BY DEF MoverPop
<1>4. /\ m \in Msgs /\ m \in At(p)
      /\ ring' \in [Readers -> Seq(Msgs)] /\ \A k \in Readers : Len(ring'[k]) <= RingSize
      /\ OnceInv'
      /\ \A w \in Nodes : /\ At(<<"pipe", w>>)' = At(<<"pipe", w>>)
                          /\ At(<<"ring", w>>)' = IF w = n THEN At(<<"ring", w>>) \ {m} ELSE At(<<"ring", w>>)
                          /\ At(<<"out", w>>)' = At(<<"out", w>>)
      /\ At(q) = {}
  BY <1>1, <1>2, Popped
<1> HIDE DEF m, p, q
<1>5. NumbersInv'
  <2>1. termCnt' \in 0 .. NIn
    BY <1>2, SizesAssumption DEF NumbersInv, IsEarlyTerm
  <2>2. waiting' \in [Movers -> 0 .. MaxPeriodic]
    <3>1. IsPeriodic(m) /\ ~IsOldPeriodic(n, m) => waiting[n] \in 0 .. MaxPeriodic - 1
      BY <1>4, MsgFacts DEF IsOldPeriodic
    <3>2. QED
      BY <1>2, <3>1, SizesAssumption DEF NumbersInv
  <2>3. QED
    BY <1>2, <2>1, <2>2 DEF NumbersInv
<1>6. cpipe' \in Seq(Requests)
  BY <1>3, Notified DEF PipesInv
<1>7. PipesInv'
  BY <1>2, <1>4, <1>6 DEF PipesInv
<1>8. CASE Destroy(m) /\ UNCHANGED <<pc, cur>>
  <2>1. ThreadInv' /\ \A k \in Nodes : Holding(k)' = Holding(k)
    BY <1>2, <1>8 DEF ThreadInv, Holding
  <2>2. \A r \in Places : At(r)' = IF r = p THEN At(r) \ {m} ELSE At(r)
    <3>1. ASSUME NEW k \in {"pipe", "ring", "hand", "out"}, NEW w \in Nodes
          PROVE  At(<<k, w>>)' = IF <<k, w>> = p THEN At(<<k, w>>) \ {m} ELSE At(<<k, w>>)
      <4>1. At(<<"hand", w>>)' = At(<<"hand", w>>)
        BY <2>1 DEF At
      <4>2. QED
        BY <1>4, <4>1 DEF p
    <3>2. ASSUME NEW r \in Places PROVE At(r)' = IF r = p THEN At(r) \ {m} ELSE At(r)
      <4>1. r[1] \in {"pipe", "ring", "hand", "out"} /\ r[2] \in Nodes /\ r = <<r[1], r[2]>>
        BY PlaceFacts
      <4>2. QED
        BY ZenonT(40), <3>1, <4>1
    <3>3. QED
      BY <3>2
  <2>3. live' = live \ {m} /\ refs' = refs
    BY <1>2, <1>8 DEF Destroy
  <2>4. UniqueInv' /\ LiveInv' /\ RefsInv'
    BY <1>1, <1>4, <2>2, <2>3, Dropped
  <2>5. Shifts(p, p) /\ Forward(p, p)
    BY <2>2, WithinForward DEF Shifts, p
  <2>6. OriginInv' /\ FreshInv'
    <3>1. \A i \in Inputs : Terminating(Parser(i)) => Terminating(Parser(i))'
      BY <1>8 DEF Terminating
    <3>2. QED
      BY <1>1, <1>2, <2>3, <2>5, <3>1, Shifted
  <2>7. QED
    BY <1>4, <1>5, <1>7, <2>1, <2>2, <2>3, <2>4, <2>6 DEF m, p, Leaves
<1>9. CASE pc' = [pc EXCEPT ![n] = "decide"] /\ cur' = [cur EXCEPT ![n] = m] /\ UNCHANGED <<live, cpipe>>
  <2>1. "decide" \in States(n)
    BY <1>1, NodeFacts DEF States, MoverStates
  <2>2. QED
    BY <1>1, <1>2, <1>5, <1>6, <1>9, <2>1, Taken DEF m
<1>10. QED
  BY <1>3, <1>8, <1>9

numbers == <<processing, open, knows, termCnt, termSent, waiting, periods, made, signals, state, cpc>>

LEMMA PushOneStep ==
    ASSUME IInv, NEW n \in InNodes \cup Movers, PushOne(n)
    PROVE  IInv'
<1> USE DEF IInv
<1>1. n \in Nodes /\ pc[n] = "push" /\ UNCHANGED numbers /\ live' = live
  BY DEF Nodes, Readers, PushOne, config, numbers
<1>2. PICK to \in Readers, m \in Msgs : Head(out[n]) = <<to, m>>
  BY <1>1, PushHead
<1> DEFINE p == PushPlace(n, to)
           q == <<"ring", to>>
<1>3. /\ CustodyInv'
      /\ IF n = Mgr THEN to \in OutNodes ELSE to = Succ(n)
      /\ Moves(p, q, {m}, {})
      /\ m \in At(p)
      /\ Terminating(n) => Terminating(n)'
      /\ \A k \in Nodes \ {n} : pc'[k] = pc[k] /\ cur'[k] = cur[k]
  BY <1>2, PushOneCustody
<1>4. p \in Places /\ q \in Places
  BY <1>1, <1>2, PlaceFacts DEF PushPlace, Nodes
<1>5. Forward(p, q)
  <2>1. CASE n \in InNodes
    <3>1. n[2] \in Inputs /\ n = In(n[2]) /\ n # Mgr
      BY <2>1, NodeFacts, SuccFacts DEF Readers, Movers
    <3>2. to = Parser(n[2])
      BY <1>3, <3>1, SuccFacts
    <3>3. p = <<"out", n>> /\ q = <<"ring", to>>
      BY <3>1 DEF PushPlace
    <3>4. \A i \in Inputs : to \in {In(i), Parser(i)} => i = n[2]
      BY <3>1, <3>2, NodeFacts DEF Readers, Movers
    <3>5. \A i \in Inputs : q \in BehindParser(i) => to = Parser(i)
      BY <3>3 DEF BehindParser
    <3>6. QED
      BY <3>1, <3>3, <3>4, <3>5 DEF Forward, BehindParser
  <2>2. CASE n \in Movers
    <3>1. to \in Inters \cup OutNodes
      BY <1>3, <2>2, SuccFacts
    <3>2. \A i \in Inputs : to \notin {In(i), Parser(i)}
      BY <3>1, NodeFacts DEF Readers, Movers
    <3>3. q[2] = to
      OBVIOUS
    <3>4. QED
      BY <3>2, <3>3, BehindFacts DEF Forward
  <2>3. QED
    BY <2>1, <2>2
<1>6. Shifts(p, q)
  BY <1>3 DEF Shifts, Moves
<1> HIDE DEF p, q
<1>7. OriginInv' /\ FreshInv'
  <2>1. \A i \in Inputs : Terminating(Parser(i)) => Terminating(Parser(i))'
    BY <1>1, <1>3, StillTerminating
  <2>2. QED
    BY <1>1, <1>4, <1>5, <1>6, <2>1, Shifted DEF numbers
<1>8. NumbersInv'
  BY <1>1 DEF NumbersInv, numbers
<1>9. QED
  BY <1>3, <1>7, <1>8

\* A mover that passes a message on.
LEMMA PassStep ==
    ASSUME IInv, NEW n \in Movers, n # Mgr, pc[n] = "decide", NEW code \in RetCodes,
           Type(cur[n]) = "term" => code = "ok", Start(n, cur[n], Push(n, <<cur[n]>>), code),
           UNCHANGED <<ring, fpipe, cpipe, stops, refs, live>>, knows' \in [Inputs -> BOOLEAN],
           UNCHANGED <<processing, open, termCnt, termSent, waiting, periods, made, signals, state, cpc>>
    PROVE  IInv' /\ Passes(<<"hand", n>>, <<"out", n>>, cur[n])
<1> USE DEF IInv
<1> DEFINE p == <<"hand", n>>
           q == <<"out", n>>
<1>1. n \in Nodes /\ cur[n] \in Msgs
  BY DEF CustodyInv, ThreadInv, Nodes, Readers
<1>2. /\ <<cur[n]>> \in Seq(Msgs) /\ ToSet(<<cur[n]>>) = {cur[n]} \cup {}
      /\ IsInjective(<<cur[n]>>)
  BY <1>1 DEF ToSet, IsInjective
<1>3. /\ CustodyInv' /\ Moves(p, q, {cur[n]}, {})
      /\ pc'[n] = "push" /\ cur'[n] = cur[n]
      /\ \A k \in Nodes \ {n} : pc'[k] = pc[k] /\ cur'[k] = cur[k]
  <2>1. live' = live \cup {} /\ {} \cap live = {} /\ {} \in SUBSET Msgs
    OBVIOUS
  <2>2. QED
    BY <1>2, <2>1, HandOver
<1>4. p \in Places /\ q \in Places /\ {cur[n]} \subseteq At(p)
  BY <1>1, PlaceFacts DEF At, Holding
<1>5. Forward(p, q)
  <2>1. q[2] = n /\ p[2] = n /\ \A i \in Inputs : q \in BehindParser(i) => n = In(i)
    BY DEF BehindParser
  <2>2. \A i \in Inputs : n # In(i)
    BY NodeFacts DEF Readers
  <2>3. QED
    BY <2>1, <2>2 DEF Forward
<1>6. Shifts(p, q)
  BY <1>3, <1>4 DEF Shifts, Moves
<1> HIDE DEF p, q
<1>7. OriginInv' /\ FreshInv'
  <2>1. \A i \in Inputs : Terminating(Parser(i)) => Terminating(Parser(i))'
    <3>1. ~Terminating(n)
      BY DEF Terminating
    <3>2. QED
      BY <1>1, <1>3, <3>1, StillTerminating
  <2>2. QED
    BY <1>4, <1>5, <1>6, <2>1, Shifted
<1>8. NumbersInv'
  BY DEF NumbersInv
<1>9. QED
  BY <1>3, <1>7, <1>8 DEF p, q, Passes

\* A parser passes a message on, with what becomes garbage.
LEMMA GarbageStep ==
    ASSUME IInv, NEW i \in Inputs, NEW n, n = Parser(i), pc[n] = "decide",
           NEW g \in {TemplateGarbage(i), ParserGarbage(i)}, NEW ms \in {<<cur[n], g>>, <<g, cur[n]>>},
           IF g = TemplateGarbage(i) THEN cur[n] = Close(i) ELSE Type(cur[n]) = "term",
           Start(n, cur[n], Push(n, ms), "ok"),
           UNCHANGED <<ring, fpipe, cpipe, stops, refs>>, live' = live \cup {g}, knows' \in [Inputs -> BOOLEAN],
           UNCHANGED <<processing, open, termCnt, termSent, waiting, periods, made, signals, state, cpc>>
    PROVE  IInv' /\ Moves(<<"hand", n>>, <<"out", n>>, {cur[n]}, {g})
<1> USE DEF IInv
<1> DEFINE p == <<"hand", n>>
           q == <<"out", n>>
<1>1. n \in Nodes /\ n \in Movers /\ n # Mgr /\ n \in Parsers
  BY NodeFacts, SuccFacts DEF Nodes, Readers, Movers
<1>2. cur[n] \in Msgs /\ g \in Msgs /\ Type(g) = "garbage" /\ g[2] = i /\ g[3] \in {2, 3} /\ cur[n] # g
  <2>1. cur[n] \in Msgs
    BY <1>1 DEF CustodyInv, ThreadInv
  <2>2. g \in Msgs /\ Type(g) = "garbage" /\ g[2] = i /\ g[3] \in {2, 3}
    <3>1. g \in Msgs
      BY MsgFacts
    <3>2. Type(g) = "garbage" /\ g[2] = i /\ g[3] \in {2, 3}
      BY DEF TemplateGarbage, ParserGarbage, Type
    <3>3. QED
      BY <3>1, <3>2
  <2>3. Type(cur[n]) # "garbage"
    BY DEF Close, Type
  <2>4. QED
    BY <2>1, <2>2, <2>3
<1>3. p \in Places /\ q \in Places /\ At(p) = {cur[n]}
  BY <1>1, PlaceFacts DEF At, Holding
<1>4. cur[n] \in live /\ cur[n][2] = i
  BY <1>3, <1>2 DEF OriginInv, CustodyInv, LiveInv
<1>5. g \notin live
  <2>1. CASE g = TemplateGarbage(i)
    <3>1. Close(i) \in At(p) /\ p \in BehindParser(i)
      BY <1>3, <2>1 DEF BehindParser
    <3>2. QED
      BY <2>1, <3>1 DEF FreshInv
  <2>2. CASE g = ParserGarbage(i)
    BY <2>2 DEF FreshInv, Terminating
  <2>3. QED
    BY <2>1, <2>2
<1>6. /\ ms \in Seq(Msgs) /\ IsInjective(ms) /\ ToSet(ms) = {cur[n]} \cup {g}
  <2>1. /\ <<cur[n], g>> \in Seq(Msgs) /\ IsInjective(<<cur[n], g>>) /\ ToSet(<<cur[n], g>>) = {cur[n]} \cup {g}
    BY <1>2 DEF IsInjective, ToSet
  <2>2. /\ <<g, cur[n]>> \in Seq(Msgs) /\ IsInjective(<<g, cur[n]>>) /\ ToSet(<<g, cur[n]>>) = {cur[n]} \cup {g}
    BY <1>2 DEF IsInjective, ToSet
  <2>3. QED
    BY <2>1, <2>2
<1>7. /\ CustodyInv' /\ Moves(p, q, {cur[n]}, {g})
      /\ pc'[n] = "push" /\ cur'[n] = cur[n]
      /\ \A k \in Nodes \ {n} : pc'[k] = pc[k] /\ cur'[k] = cur[k]
  <2>1. {g} \cap live = {} /\ {g} \in SUBSET Msgs /\ "ok" \in RetCodes
    BY <1>2, <1>5 DEF RetCodes
  <2>2. QED
    BY <1>1, <1>6, <2>1, HandOver
<1>8. OriginInv'
  <2>1. \A j \in Inputs : q[2] \in {In(j), Parser(j)} => j = i
    BY <1>1, NodeFacts DEF Readers, Movers
  <2>2. QED
    BY <1>2, <1>3, <1>4, <1>7, <2>1, OriginMoves
<1>9. \A j \in Inputs : \A r \in BehindParser(j) : At(r)' \subseteq At(r)
  <2>1. ASSUME NEW j \in Inputs, NEW r \in BehindParser(j) PROVE r # q
    <3>1. q[1] = "out" /\ q[2] = n /\ n # In(j)
      BY <1>1, NodeFacts DEF Readers, Movers
    <3>2. r[1] = "out" => r[2] = In(j)
      BY <2>1 DEF BehindParser
    <3>3. QED
      BY <3>1, <3>2
  <2>2. \A j \in Inputs : BehindParser(j) \subseteq Places
    BY BehindFacts
  <2>3. QED
    BY <1>7, <2>1, <2>2 DEF Moves
<1>10. g = TemplateGarbage(i) => ~open[i] /\ \A r \in BehindParser(i) : Close(i) \notin At(r)'
  <2>1. SUFFICES ASSUME g = TemplateGarbage(i)
                 PROVE  ~open[i] /\ \A r \in BehindParser(i) : Close(i) \notin At(r)'
    OBVIOUS
  <2>2. ~open[i]
    BY <1>4, <2>1 DEF FreshInv
  <2>3. ASSUME NEW r \in BehindParser(i), Close(i) \in At(r)' PROVE FALSE
    <3>1. Close(i) \in At(r) /\ r \in Places /\ r[2] \in {In(i), Parser(i)}
      BY <1>9, <2>3, BehindFacts
    <3>2. Exclude(r, p)
      BY <1>1, NodeFacts DEF Exclude, Readers, Movers
    <3>3. r = p
      BY <1>2, <1>3, <2>1, <3>1, <3>2 DEF CustodyInv, UniqueInv
    <3>4. Close(i) \notin At(p)'
      <4>1. p # q
        OBVIOUS
      <4>2. QED
        BY <1>3, <1>7, <2>1, <4>1 DEF Moves
    <3>5. QED
      BY <2>3, <3>3, <3>4
  <2>4. QED
    BY <2>2, <2>3
<1>11. g = ParserGarbage(i) => Terminating(n)'
  <2>1. TemplateGarbage(i) # ParserGarbage(i)
    BY DEF TemplateGarbage, ParserGarbage
  <2>2. QED
    BY <1>7, <2>1 DEF Terminating
<1> HIDE DEF p, q
<1>12. \A j \in Inputs : Terminating(Parser(j)) => Terminating(Parser(j))'
  <2>1. ~Terminating(n)
    BY DEF Terminating
  <2>2. QED
    BY <1>1, <1>7, <2>1, StillTerminating
<1>13. \A m \in Msgs : m \in live' => m \in live \/ m = g
  OBVIOUS
<1>14. FreshInv'
  <2>1. \A j \in Inputs : \A k \in 1 .. MaxData : Data(j, k) \in live' => k <= made'[j]
    <3>1. \A j, k : Data(j, k) # g
      BY <1>2 DEF Data, Type
    <3>2. QED
      BY <3>1 DEF FreshInv
  <2>2. \A j \in Inputs : open'[j] => Close(j) \notin live' /\ SessionGarbage(j) \notin live'
    <3>1. \A j : Close(j) # g /\ SessionGarbage(j) # g
      BY <1>2 DEF Close, SessionGarbage, Type
    <3>2. QED
      BY <3>1 DEF FreshInv
  <2>3. ASSUME NEW j \in Inputs, TemplateGarbage(j) \in live'
        PROVE  ~open'[j] /\ \A r \in BehindParser(j) : Close(j) \notin At(r)'
    <3>1. CASE TemplateGarbage(j) \in live
      BY <1>9, <3>1 DEF FreshInv
    <3>2. CASE TemplateGarbage(j) = g
      <4>1. j = i
        BY <1>2, <3>2 DEF TemplateGarbage
      <4>2. QED
        BY <1>10, <3>2, <4>1
    <3>3. QED
      BY <2>3, <3>1, <3>2
  <2>4. ASSUME NEW j \in Inputs, ParserGarbage(j) \in live' PROVE Terminating(Parser(j))'
    <3>1. CASE ParserGarbage(j) \in live
      BY <1>12, <3>1 DEF FreshInv
    <3>2. CASE ParserGarbage(j) = g
      <4>1. j = i
        BY <1>2, <3>2 DEF ParserGarbage
      <4>2. QED
        BY <1>11, <3>2, <4>1
    <3>3. QED
      BY <2>4, <3>1, <3>2
  <2>5. \A j \in Inputs : \A s \in 0 .. MaxPeriodic - 1 : Periodic(j, s) \in live' => s < periods'
    <3>1. \A j, s : Periodic(j, s) # g
      BY <1>2 DEF Periodic, Type
    <3>2. QED
      BY <3>1 DEF FreshInv
  <2>6. cpc' = "run" /\ termSent' = 0 => state' = "running" /\ \A m \in live' : Type(m) \notin {"term", "stray"}
    BY <1>2 DEF FreshInv
  <2>7. cpc' = "run" /\ state' = "running" => \A j \in Inputs : Term(j, 2) \notin live'
    <3>1. \A j : Term(j, 2) # g
      BY <1>2 DEF Term, Type
    <3>2. QED
      BY <3>1 DEF FreshInv
  <2>8. QED
    BY <2>1, <2>2, <2>3, <2>4, <2>5, <2>6, <2>7 DEF FreshInv
<1>15. NumbersInv'
  BY DEF NumbersInv
<1>16. QED
  BY <1>7, <1>8, <1>14, <1>15 DEF p, q

\* What an input makes: nothing, the end of its session, or an IPFIX message.
Makes(i, N) ==
    \/ N = {} /\ made' = made /\ open' \in {open, [open EXCEPT ![i] = FALSE]}
    \/ /\ N = {Close(i), SessionGarbage(i)} /\ open[i]
       /\ made' = made /\ open' = [open EXCEPT ![i] = FALSE]
    \/ /\ N = {Data(i, made[i] + 1)} /\ open[i] /\ made[i] < MaxData
       /\ made' = [made EXCEPT ![i] = @ + 1] /\ open' = open

LEMMA MakesFacts ==
    ASSUME IInv, NEW i \in Inputs, NEW N, Makes(i, N)
    PROVE  /\ N \in SUBSET Msgs /\ N \cap live = {} /\ \A m \in N : Type(m) \in {"ipfix", "close", "garbage"} /\ m[2] = i
           /\ Close(i) \in N => TemplateGarbage(i) \notin live
           /\ made' \in [Inputs -> 0 .. MaxData] /\ open' \in [Inputs -> BOOLEAN]
           /\ \A j \in Inputs : open'[j] => open[j]
           /\ \A j \in Inputs : \A k \in 1 .. MaxData : Data(j, k) \in live \cup N => k <= made'[j]
           /\ \A j \in Inputs : open'[j] => Close(j) \notin live \cup N /\ SessionGarbage(j) \notin live \cup N
           /\ TemplateGarbage(i) \notin N /\ ParserGarbage(i) \notin N
<1> USE DEF IInv
<1>1. open \in [Inputs -> BOOLEAN] /\ made \in [Inputs -> 0 .. MaxData] /\ MaxData \in Nat
  BY SizesAssumption DEF NumbersInv
<1>2. \A j, k, l : /\ Data(j, l) # Close(k) /\ Data(j, l) # SessionGarbage(k) /\ Close(j) # TemplateGarbage(k)
                   /\ Close(j) # ParserGarbage(k) /\ SessionGarbage(j) # TemplateGarbage(k)
                   /\ SessionGarbage(j) # ParserGarbage(k) /\ Data(j, l) # TemplateGarbage(k)
                   /\ Data(j, l) # ParserGarbage(k)
  BY DEF Data, Close, SessionGarbage, TemplateGarbage, ParserGarbage
<1>3. \A j, k : (Close(j) = Close(k) => j = k) /\ (SessionGarbage(j) = SessionGarbage(k) => j = k)
               /\ \A a, b : Data(j, a) = Data(k, b) => j = k /\ a = b
  BY DEF Data, Close, SessionGarbage
<1>4. /\ \A k : Type(Data(i, k)) = "ipfix" /\ Data(i, k)[2] = i
      /\ Type(Close(i)) = "close" /\ Close(i)[2] = i
      /\ Type(SessionGarbage(i)) = "garbage" /\ SessionGarbage(i)[2] = i
  BY DEF Data, Close, SessionGarbage, Type
<1>5. CASE N = {} /\ made' = made /\ open' \in {open, [open EXCEPT ![i] = FALSE]}
  <2>1. open' \in [Inputs -> BOOLEAN] /\ \A j \in Inputs : open'[j] => open[j]
    BY <1>1, <1>5
  <2>2. QED
    BY <1>1, <1>5, <2>1 DEF FreshInv
<1>6. CASE /\ N = {Close(i), SessionGarbage(i)} /\ open[i]
           /\ made' = made /\ open' = [open EXCEPT ![i] = FALSE]
  <2>1. open' \in [Inputs -> BOOLEAN] /\ ~open'[i] /\ \A j \in Inputs \ {i} : open'[j] = open[j]
    BY <1>1, <1>6
  <2>2. N \cap live = {} /\ TemplateGarbage(i) \notin live
    BY <1>6 DEF FreshInv
  <2>3. N \in SUBSET Msgs /\ \A m \in N : Type(m) \in {"ipfix", "close", "garbage"} /\ m[2] = i
    BY <1>4, <1>6, MsgFacts
  <2>4. \A j \in Inputs : \A k \in 1 .. MaxData : Data(j, k) \in live \cup N => k <= made'[j]
    BY <1>2, <1>6 DEF FreshInv
  <2>5. \A j \in Inputs : open'[j] => Close(j) \notin live \cup N /\ SessionGarbage(j) \notin live \cup N
    <3>1. ASSUME NEW j \in Inputs, open'[j] PROVE Close(j) \notin live \cup N /\ SessionGarbage(j) \notin live \cup N
      <4>1. j # i /\ open[j]
        BY <2>1, <3>1
      <4>2. Close(j) # Close(i) /\ Close(j) # SessionGarbage(i) /\ SessionGarbage(j) # SessionGarbage(i)
            /\ SessionGarbage(j) # Close(i)
        BY <1>3, <1>4, <4>1 DEF Close, SessionGarbage
      <4>3. QED
        BY <1>6, <4>1, <4>2 DEF FreshInv
    <3>2. QED
      BY <3>1
  <2>6. TemplateGarbage(i) \notin N /\ ParserGarbage(i) \notin N
    BY <1>2, <1>6
  <2>7. QED
    BY <1>1, <1>6, <2>1, <2>2, <2>3, <2>4, <2>5, <2>6
<1>7. CASE /\ N = {Data(i, made[i] + 1)} /\ made[i] < MaxData
           /\ made' = [made EXCEPT ![i] = @ + 1] /\ open' = open
  <2>1. made[i] + 1 \in 1 .. MaxData /\ made'[i] = made[i] + 1 /\ made' \in [Inputs -> 0 .. MaxData]
        /\ \A j \in Inputs \ {i} : made'[j] = made[j]
    BY <1>1, <1>7
  <2>2. N \in SUBSET Msgs /\ \A m \in N : Type(m) \in {"ipfix", "close", "garbage"} /\ m[2] = i
    BY <1>4, <1>7, <2>1, MsgFacts
  <2>3. N \cap live = {}
    <3>1. Data(i, made[i] + 1) \notin live
      <4>1. ~(made[i] + 1 <= made[i])
        BY <1>1
      <4>2. QED
        BY <2>1, <4>1 DEF FreshInv
    <3>2. QED
      BY <1>7, <3>1
  <2>4. ASSUME NEW j \in Inputs, NEW k \in 1 .. MaxData, Data(j, k) \in live \cup N PROVE k <= made'[j]
    <3>1. CASE Data(j, k) \in live
      <4>1. k <= made[j]
        BY <3>1 DEF FreshInv
      <4>2. QED
        BY <1>1, <2>1, <4>1
    <3>2. CASE Data(j, k) = Data(i, made[i] + 1)
      BY <1>3, <2>1, <3>2
    <3>3. QED
      BY <1>7, <2>4, <3>1, <3>2
  <2>5. \A j \in Inputs : open'[j] => Close(j) \notin live \cup N /\ SessionGarbage(j) \notin live \cup N
    BY <1>2, <1>7 DEF FreshInv
  <2>6. TemplateGarbage(i) \notin N /\ ParserGarbage(i) \notin N /\ Close(i) \notin N
    BY <1>2, <1>7
  <2>7. QED
    BY <1>1, <1>7, <2>1, <2>2, <2>3, <2>4, <2>5, <2>6
<1>8. QED
  BY <1>5, <1>6, <1>7 DEF Makes

LEMMA InputStep ==
    ASSUME IInv, NEW i \in Inputs, NEW n, n = In(i), pc[n] \in {"loop", "get"},
           NEW S \in SUBSET Msgs, NEW m \in Msgs \cup {NoMsg}, Takes(i, S), NEW N, Makes(i, N),
           NEW ms \in Seq(Msgs), IsInjective(ms), ToSet(ms) = S \cup N,
           NEW code \in RetCodes, Type(m) = "term" => code = "ok",
           Start(n, m, Push(n, ms), code), live' = live \cup N,
           UNCHANGED <<ring, cpipe, stops, refs>>,
           UNCHANGED <<processing, knows, termCnt, termSent, waiting, periods, signals, state, cpc>>
    PROVE  IInv' /\ Moves(<<"pipe", n>>, <<"out", n>>, S, N)
<1> USE DEF IInv
<1> DEFINE p == <<"pipe", n>>
           q == <<"out", n>>
<1>1. n \in Nodes /\ n \in InNodes /\ n[2] = i
  BY NodeFacts DEF Nodes
<1>2. /\ N \in SUBSET Msgs /\ N \cap live = {} /\ \A x \in N : Type(x) \in {"ipfix", "close", "garbage"} /\ x[2] = i
      /\ Close(i) \in N => TemplateGarbage(i) \notin live
      /\ made' \in [Inputs -> 0 .. MaxData] /\ open' \in [Inputs -> BOOLEAN]
      /\ \A j \in Inputs : open'[j] => open[j]
      /\ \A j \in Inputs : \A k \in 1 .. MaxData : Data(j, k) \in live \cup N => k <= made'[j]
      /\ \A j \in Inputs : open'[j] => Close(j) \notin live \cup N /\ SessionGarbage(j) \notin live \cup N
      /\ TemplateGarbage(i) \notin N /\ ParserGarbage(i) \notin N
  BY MakesFacts
<1>3. /\ CustodyInv' /\ Moves(p, q, S, N)
      /\ \A k \in Nodes \ {n} : pc'[k] = pc[k] /\ cur'[k] = cur[k]
  BY ZenonT(40), <1>2, InputStart
<1>4. p \in Places /\ q \in Places /\ p \notin {q}
  BY <1>1, PlaceFacts
<1>5. \A x \in S : x \in ToSet(fpipe[i]) /\ Type(x) \in {"periodic", "stray", "term"} /\ x[2] = i
  <2>1. S \subseteq ToSet(fpipe[i])
    <3>1. fpipe[i] # <<>> => Head(fpipe[i]) \in ToSet(fpipe[i])
      BY TailFacts DEF CustodyInv, PipesInv
    <3>2. QED
      BY <3>1 DEF Takes
  <2>2. At(p) = ToSet(fpipe[i]) /\ p[2] = In(i)
    BY <1>1 DEF At
  <2>3. QED
    BY <1>4, <2>1, <2>2 DEF OriginInv, CustodyInv, PipesInv
<1>6. OriginInv'
  <2>1. \A j \in Inputs : q[2] \in {In(j), Parser(j)} => j = i
    BY <1>1, NodeFacts DEF Readers, Movers
  <2>2. QED
    BY <1>2, <1>3, <1>4, <1>5, <2>1, OriginMoves
<1>7. \A j \in Inputs : \A r \in BehindParser(j) : At(r)' \subseteq At(r) \cup (IF j = i THEN S \cup N ELSE {})
  <2>1. \A j \in Inputs : q[2] \in {In(j), Parser(j)} => j = i
    BY <1>1, NodeFacts DEF Readers, Movers
  <2>2. \A j \in Inputs : \A r \in BehindParser(j) : r \in Places /\ (r = q => j = i)
    BY <2>1, BehindFacts
  <2>3. QED
    BY <1>3, <2>2 DEF Moves
<1>8. \A j \in Inputs : Terminating(Parser(j)) => Terminating(Parser(j))'
  <2>1. \A j \in Inputs : Parser(j) \in Nodes \ {n}
    BY <1>1, NodeFacts DEF Nodes, Readers, Movers
  <2>2. QED
    BY <1>3, <2>1 DEF Terminating
<1>9. \A j : Close(i) # TemplateGarbage(j) /\ Type(Close(j)) = "close" /\ Type(Periodic(j, 0)) = "periodic"
             /\ Type(TemplateGarbage(j)) = "garbage" /\ Type(Term(j, 2)) = "term"
             /\ TemplateGarbage(j)[2] = j /\ ParserGarbage(j)[2] = j
             /\ \A s : Type(Periodic(j, s)) = "periodic"
  BY DEF Close, TemplateGarbage, ParserGarbage, Periodic, Term, Type
<1>10. FreshInv'
  <2>1. ASSUME NEW j \in Inputs, TemplateGarbage(j) \in live'
        PROVE  ~open'[j] /\ \A r \in BehindParser(j) : Close(j) \notin At(r)'
    <3>1. TemplateGarbage(j) \in live
      BY <1>2, <1>9, <2>1
    <3>2. ~open'[j] /\ \A r \in BehindParser(j) : Close(j) \notin At(r)
      BY <1>2, <3>1 DEF FreshInv
    <3>3. Close(j) \notin S /\ (j = i => Close(j) \notin N)
      BY <1>2, <1>5, <1>9, <3>1
    <3>4. QED
      BY <1>7, <3>2, <3>3
  <2>2. ASSUME NEW j \in Inputs, ParserGarbage(j) \in live' PROVE Terminating(Parser(j))'
    <3>1. ParserGarbage(j) \in live
      BY <1>2, <1>9, <2>2
    <3>2. QED
      BY <1>8, <3>1 DEF FreshInv
  <2>3. \A j \in Inputs : \A s \in 0 .. MaxPeriodic - 1 : Periodic(j, s) \in live' => s < periods'
    BY <1>2, <1>9 DEF FreshInv
  <2>4. cpc' = "run" /\ termSent' = 0 => state' = "running" /\ \A x \in live' : Type(x) \notin {"term", "stray"}
    BY <1>2 DEF FreshInv
  <2>5. cpc' = "run" /\ state' = "running" => \A j \in Inputs : Term(j, 2) \notin live'
    BY <1>2, <1>9 DEF FreshInv
  <2>6. QED
    BY <1>2, <2>1, <2>2, <2>3, <2>4, <2>5 DEF FreshInv
<1>11. NumbersInv'
  BY <1>2 DEF NumbersInv
<1>12. QED
  BY <1>3, <1>6, <1>10, <1>11

\* A thread goes on, and no message moves.
LEMMA QuietStep ==
    ASSUME IInv, NEW n \in Nodes, pc[n] \notin {"push", "decide", "release", "exit"},
           NEW a \in States(n), a \notin {"push", "decide", "release"},
           pc' = [pc EXCEPT ![n] = a], cur' = cur, out' = out, rc' = [rc EXCEPT ![n] = "ok"],
           UNCHANGED <<ring, fpipe, stops, live, refs, made, open, periods, state, termSent, cpc>>,
           cpipe' \in Seq(Requests), NumbersInv'
    PROVE  IInv'
<1> USE DEF IInv
<1>1. cur[n] = NoMsg /\ cur' = [cur EXCEPT ![n] = NoMsg] /\ ThreadInv
  BY DEF CustodyInv, ThreadInv
<1>2. /\ ThreadInv'
      /\ \A k \in Nodes : Holding(k)' = IF k = n THEN {} ELSE Holding(k)
      /\ \A k \in Nodes \ {n} : pc'[k] = pc[k] /\ cur'[k] = cur[k]
  <2>1. /\ pc[n] \notin {"push"} /\ a # "push" /\ NoMsg \in Msgs \cup {NoMsg}
        /\ a \in {"decide", "release"} <=> NoMsg # NoMsg
    OBVIOUS
  <2>2. /\ ThreadInv'
        /\ \A k \in Nodes : Holding(k)' = IF k = n THEN IF NoMsg = NoMsg THEN {} ELSE {NoMsg} ELSE Holding(k)
        /\ \A k \in Nodes \ {n} : pc'[k] = pc[k] /\ cur'[k] = cur[k]
    BY ZenonT(40), <1>1, <2>1, StepThread
  <2>3. QED
    BY <2>2
<1>3. \A k \in Nodes : Holding(k)' = Holding(k)
  BY <1>2 DEF Holding
<1>4. PipesInv'
  BY DEF CustodyInv, PipesInv
<1>5. CustodyInv' /\ \A r \in Places : At(r)' = At(r)
  BY <1>2, <1>3, <1>4, Quiet
<1>6. OriginInv' /\ FreshInv'
  <2>1. PICK p \in Places : TRUE
    BY PlaceFacts
  <2>2. Shifts(p, p) /\ Forward(p, p)
    BY <1>5 DEF Shifts, Forward
  <2>3. \A i \in Inputs : Terminating(Parser(i)) => Terminating(Parser(i))'
    <3>1. ~Terminating(n)
      BY DEF Terminating
    <3>2. QED
      BY <1>2, <3>1, StillTerminating
  <2>4. QED
    BY <2>2, <2>3, Shifted
<1>7. QED
  BY <1>5, <1>6

LEMMA Asked ==
    ASSUME IInv, NEW n \in Nodes, NEW code \in RetCodes, HandleRc(n, code)
    PROVE  /\ cpipe' \in Seq(Requests)
           /\ processing' \in [Nodes -> BOOLEAN]
<1> USE DEF IInv
<1>1. cpipe \in Seq(Requests)
  BY DEF CustodyInv, PipesInv
<1>2. processing \in [Nodes -> BOOLEAN]
  BY DEF NumbersInv
<1>3. CASE code = "ok"
  BY <1>1, <1>2, <1>3 DEF HandleRc
<1>4. CASE code # "ok"
  <2>1. <<code, n>> \in Requests
    BY <1>4 DEF RetCodes, Requests
  <2>2. processing' = [processing EXCEPT ![n] = FALSE] /\ cpipe' = Append(cpipe, <<code, n>>)
    BY <1>4 DEF HandleRc
  <2>3. QED
    BY <1>1, <1>2, <2>1, <2>2, AppendFacts
<1>5. QED
  BY <1>3, <1>4

LEMMA HandleStep ==
    ASSUME IInv, NEW n \in InNodes \cup Movers, HandleCode(n)
    PROVE  IInv'
<1>1. n \in Nodes /\ "loop" \in States(n) /\ rc[n] \in RetCodes
  BY NodeFacts DEF IInv, CustodyInv, ThreadInv, Nodes, Readers, States, InputStates, MoverStates, OutStates
<1>2. /\ cpipe' \in Seq(Requests)
      /\ processing' \in [Nodes -> BOOLEAN]
  BY <1>1, Asked DEF HandleCode
<1>3. /\ pc[n] = "handle" /\ pc' = [pc EXCEPT ![n] = "loop"] /\ rc' = [rc EXCEPT ![n] = "ok"]
      /\ UNCHANGED <<ring, cur, out, termCnt, waiting, made, open, knows, refs, state, termSent, stops, periods, cpc,
                     fpipe, signals, live>>
  BY DEF HandleCode, config
<1>4. NumbersInv'
  BY <1>2, <1>3 DEF IInv, NumbersInv
<1>5. QED
  BY <1>1, <1>2, <1>3, <1>4, QuietStep

LEMMA SkipStep ==
    ASSUME IInv, NEW i \in Inputs, InputSkip(i)
    PROVE  IInv'
<1>1. In(i) \in Nodes /\ "loop" \in States(In(i))
  BY NodeFacts DEF Nodes, States, InputStates
<1>2. /\ pc[In(i)] = "get" /\ pc' = [pc EXCEPT ![In(i)] = "loop"]
      /\ UNCHANGED <<ring, processing, cur, out, rc, termCnt, waiting, made, open, knows, refs, state, termSent, stops,
                     periods, cpc, fpipe, cpipe, signals, live>>
  BY DEF InputSkip, config
<1>3. rc' = [rc EXCEPT ![In(i)] = "ok"]
  BY <1>1, <1>2 DEF IInv, CustodyInv, ThreadInv
<1>4. NumbersInv'
  BY <1>2 DEF IInv, NumbersInv
<1>5. cpipe' \in Seq(Requests)
  BY <1>2 DEF IInv, CustodyInv, PipesInv
<1>6. QED
  BY <1>1, <1>2, <1>3, <1>4, <1>5, QuietStep

LEMMA OutDestroyStep ==
    ASSUME IInv, NEW n \in OutNodes, OutDestroy(n)
    PROVE  IInv'
<1>1. n \in Nodes /\ "exit" \in States(n)
  BY NodeFacts DEF Nodes, Readers, Movers, States, OutStates
<1>2. /\ pc[n] = "destroy" /\ pc' = [pc EXCEPT ![n] = "exit"]
      /\ UNCHANGED <<ring, processing, cur, out, rc, termCnt, waiting, made, open, knows, refs, state, termSent, stops,
                     periods, cpc, fpipe, cpipe, signals, live>>
  BY DEF OutDestroy, config
<1>3. rc' = [rc EXCEPT ![n] = "ok"]
  BY <1>1, <1>2 DEF IInv, CustodyInv, ThreadInv
<1>4. NumbersInv'
  BY <1>2 DEF IInv, NumbersInv
<1>5. cpipe' \in Seq(Requests)
  BY <1>2 DEF IInv, CustodyInv, PipesInv
<1>6. QED
  BY <1>1, <1>2, <1>3, <1>4, <1>5, QuietStep

-----------------------------------------------------------------------------
(* The outputs and the output manager.                                       *)

LEMMA OutPopStep ==
    ASSUME IInv, NEW n \in OutNodes, OutPop(n)
    PROVE  IInv' /\ Passes(<<"ring", n>>, <<"hand", n>>, Head(ring[n]))
<1>1. n \in Nodes /\ n \in Readers /\ "release" \in States(n)
  BY NodeFacts DEF Nodes, Readers, Movers, States, OutStates
<1>2. /\ pc[n] = "loop" /\ ring[n] # <<>> /\ ring' = [ring EXCEPT ![n] = Tail(@)]
      /\ pc' = [pc EXCEPT ![n] = "release"] /\ cur' = [cur EXCEPT ![n] = Head(ring[n])]
      /\ UNCHANGED <<out, rc, termCnt, waiting, made, open, knows, refs, state, termSent, stops, periods, cpc,
                     fpipe, signals, live>>
  BY DEF OutPop, config
<1>3. PICK code \in Codes(n) :
          HandleRc(n, IF processing[n] /\ IsData(Head(ring[n])) THEN code ELSE "ok")
  BY DEF OutPop
<1>4. \E c \in RetCodes : HandleRc(n, c)
  BY <1>3 DEF Codes, RetCodes
<1>5. /\ cpipe' \in Seq(Requests)
      /\ processing' \in [Nodes -> BOOLEAN]
  BY <1>1, <1>4, Asked
<1>6. NumbersInv'
  BY <1>2, <1>5 DEF IInv, NumbersInv
<1>7. QED
  BY <1>1, <1>2, <1>5, <1>6, Taken

LEMMA OutReleaseStep ==
    ASSUME IInv, NEW n \in OutNodes, OutRelease(n)
    PROVE  /\ IInv' /\ Leaves(<<"hand", n>>, cur[n])
           /\ live' = IF refs[cur[n]] = 1 THEN live \ {cur[n]} ELSE live
<1> DEFINE m == cur[n]
           p == <<"hand", n>>
           a == IF Type(m) = "term" THEN "destroy" ELSE "loop"
<1> USE DEF IInv, CustodyInv
<1>1. n \in Nodes /\ n \in Readers /\ p \in Places /\ p[2] = n /\ n[2] \in Outputs /\ n = Out(n[2])
  BY NodeFacts, PlaceFacts DEF Nodes, Readers
<1>2. /\ pc[n] = "release" /\ pc' = [pc EXCEPT ![n] = a] /\ cur' = [cur EXCEPT ![n] = NoMsg]
      /\ refs' = [refs EXCEPT ![m] = @ - 1]
      /\ UNCHANGED <<ring, processing, out, rc, termCnt, waiting, made, open, knows, state, termSent, stops, periods, cpc,
                     fpipe, signals>>
  BY DEF OutRelease, config
<1>3. m \in Msgs /\ At(p) = {m}
  BY <1>1, <1>2 DEF ThreadInv, At, Holding
<1>4. /\ live' = IF refs[m] = 1 THEN live \ {m} ELSE live
      /\ cpipe' \in Seq(Requests)
  <2>1. CASE LastUser(m)
    <3>1. Destroy(m) /\ refs[m] = 1
      BY <2>1 DEF OutRelease, LastUser
    <3>2. QED
      BY <3>1, Notified DEF Destroy
  <2>2. CASE ~LastUser(m)
    BY <2>2 DEF OutRelease, LastUser, PipesInv
  <2>3. QED
    BY <2>1, <2>2
<1>5. /\ ThreadInv'
      /\ \A k \in Nodes : Holding(k)' = IF k = n THEN {} ELSE Holding(k)
      /\ \A k \in Nodes \ {n} : pc'[k] = pc[k] /\ cur'[k] = cur[k]
  <2>1. a \in States(n) /\ a \in {"destroy", "loop"} /\ rc' = [rc EXCEPT ![n] = "ok"]
    BY <1>1, <1>2, NodeFacts DEF States, OutStates, ThreadInv, Readers, Movers
  <2>2. /\ ThreadInv /\ pc[n] \notin {"push"} /\ a # "push" /\ out' = out /\ NoMsg \in Msgs \cup {NoMsg}
        /\ a \in {"decide", "release"} <=> NoMsg # NoMsg
    BY <1>2, <2>1
  <2>3. /\ ThreadInv'
        /\ \A k \in Nodes : Holding(k)' = IF k = n THEN IF NoMsg = NoMsg THEN {} ELSE {NoMsg} ELSE Holding(k)
        /\ \A k \in Nodes \ {n} : pc'[k] = pc[k] /\ cur'[k] = cur[k]
    BY <1>1, <1>2, <2>1, <2>2, StepThread
  <2>4. QED
    BY <2>3
<1> HIDE DEF a, m, p
<1>6. \A r \in Places : At(r)' = IF r = p THEN At(r) \ {m} ELSE At(r)
  <2>1. ASSUME NEW w \in Nodes
        PROVE  /\ At(<<"pipe", w>>)' = At(<<"pipe", w>>) /\ At(<<"ring", w>>)' = At(<<"ring", w>>)
               /\ At(<<"out", w>>)' = At(<<"out", w>>)
               /\ At(<<"hand", w>>)' = IF w = n THEN {} ELSE At(<<"hand", w>>)
    <3>1. InRing(w)' = InRing(w) /\ ToPush(w)' = ToPush(w)
      BY <1>2 DEF InRing, ToPush
    <3>2. QED
      BY <1>2, <1>5, <3>1 DEF At
  <2>2. ASSUME NEW r \in Places PROVE At(r)' = IF r = p THEN At(r) \ {m} ELSE At(r)
    <3>1. r[1] \in {"pipe", "ring", "hand", "out"} /\ r[2] \in Nodes /\ r = <<r[1], r[2]>>
      BY PlaceFacts
    <3>2. \A k \in {"pipe", "ring", "hand", "out"} : \A w \in Nodes :
             At(<<k, w>>)' = IF <<k, w>> = p THEN At(<<k, w>>) \ {m} ELSE At(<<k, w>>)
      BY <1>3, <2>1 DEF p
    <3>3. QED
      BY <3>1, <3>2
  <2>3. QED
    BY <2>2
<1>7. UniqueInv' /\ LiveInv' /\ RefsInv'
  <2>1. m \in At(p)
    BY <1>3
  <2>2. QED
    BY <1>1, <1>2, <1>3, <1>4, <1>6, <2>1, Released
<1>8. PipesInv'
  BY <1>2, <1>4 DEF PipesInv
<1>9. OnceInv'
  BY <1>2 DEF OnceInv
<1>10. Shifts(p, p) /\ Forward(p, p)
  BY <1>6 DEF Shifts, Forward
<1>11. \A i \in Inputs : Terminating(Parser(i)) => Terminating(Parser(i))'
  <2>1. ~Terminating(n)
    BY <1>2 DEF Terminating
  <2>2. QED
    BY <1>1, <1>5, <2>1, StillTerminating
<1>12. OriginInv' /\ FreshInv'
  BY <1>1, <1>2, <1>4, <1>10, <1>11, Shifted
<1>13. NumbersInv'
  BY <1>2 DEF NumbersInv
<1>14. QED
  BY <1>4, <1>5, <1>6, <1>7, <1>8, <1>9, <1>12, <1>13 DEF m, p, Leaves

\* What the output manager has to push.
Deal(dest, m) == [k \in 1 .. Len(dest) |-> <<Out(dest[k]), m>>]
LEMMA DestFacts ==
    ASSUME NEW D \in SUBSET Outputs, NEW dest \in InOrder(D), NEW m \in Msgs, NEW ps, ps = Deal(dest, m)
    PROVE  /\ ps \in Seq(Readers \X Msgs) /\ IsInjective(ps) /\ Targets(Mgr, m, ps)
           /\ ps = <<>> <=> D = {}
           /\ \A w \in OutNodes : Toward(w, ps) = IF \E o \in D : w = Out(o) THEN {m} ELSE {}
<1>1. IsFiniteSet(D) /\ Cardinality(D) \in Nat
  BY OutputsFinite, FS_Subset, FS_CardinalityType
<1>2. /\ dest \in [1 .. Cardinality(D) -> D] /\ Range(dest) = D
      /\ \A j, k \in DOMAIN dest : j < k => dest[j] < dest[k]
  BY DEF InOrder
<1>3. DOMAIN dest = 1 .. Cardinality(D) /\ Len(dest) = Cardinality(D) /\ \A k \in DOMAIN dest : dest[k] \in D
  BY <1>1, <1>2
<1>4. DOMAIN ps = DOMAIN dest /\ \A k \in DOMAIN ps : ps[k] = <<Out(dest[k]), m>>
  BY <1>3 DEF Deal
<1>5. \A o \in Outputs : Out(o) \in OutNodes /\ Out(o) \in Readers /\ Out(o)[2] = o
  BY NodeFacts DEF Readers
<1>6. ps \in Seq(Readers \X Msgs) /\ Len(ps) = Cardinality(D)
  <2>1. PICK c \in Nat : c = Cardinality(D)
    BY <1>1
  <2>2. \A k \in 1 .. c : <<Out(dest[k]), m>> \in Readers \X Msgs
    BY <1>3, <1>5, <2>1
  <2>3. ps = [k \in 1 .. c |-> <<Out(dest[k]), m>>]
    BY <1>3, <2>1 DEF Deal
  <2>4. ps \in Seq(Readers \X Msgs) /\ Len(ps) = c
    BY <2>2, <2>3
  <2>5. QED
    BY <2>1, <2>4
<1>7. IsInjective(ps)
  <2>1. SUFFICES ASSUME NEW j \in DOMAIN ps, NEW k \in DOMAIN ps, ps[j] = ps[k] PROVE j = k
    BY DEF IsInjective
  <2>2. dest[j] = dest[k] /\ dest[j] \in Nat /\ j \in Nat /\ k \in Nat
    <3>1. j \in DOMAIN dest /\ k \in DOMAIN dest /\ Out(dest[j]) = Out(dest[k])
      BY <1>4, <2>1
    <3>2. dest[j] \in Outputs /\ dest[k] \in Outputs
      BY <1>3, <3>1
    <3>3. dest[j] = dest[k]
      BY <1>5, <3>1, <3>2
    <3>4. dest[j] \in Nat
      BY <3>2, SizesAssumption DEF Outputs
    <3>5. j \in Nat /\ k \in Nat
      BY <1>1, <1>3, <3>1
    <3>6. QED
      BY <3>3, <3>4, <3>5
  <2>3. ~(j < k) /\ ~(k < j)
    <3>1. j \in DOMAIN dest /\ k \in DOMAIN dest /\ ~(dest[j] < dest[k]) /\ ~(dest[k] < dest[j])
      BY <1>4, <2>1, <2>2
    <3>2. QED
      BY <1>2, <3>1
  <2>4. QED
    BY <2>2, <2>3
<1>8. Targets(Mgr, m, ps)
  BY <1>3, <1>4, <1>5 DEF Targets
<1>9. ps = <<>> <=> D = {}
  <2>1. ps = <<>> <=> Cardinality(D) = 0
    BY <1>1, <1>6
  <2>2. QED
    BY <1>1, <2>1, FS_EmptySet
<1>10. ASSUME NEW w \in OutNodes PROVE Toward(w, ps) = IF \E o \in D : w = Out(o) THEN {m} ELSE {}
  <2>1. \A x : (\E k \in DOMAIN ps : ps[k] = <<w, x>>) <=> x = m /\ \E k \in DOMAIN dest : Out(dest[k]) = w
    BY <1>4
  <2>2. (\E k \in DOMAIN dest : Out(dest[k]) = w) <=> \E o \in D : w = Out(o)
    BY <1>2, <1>3 DEF Range
  <2>3. QED
    BY <2>1, <2>2 DEF Toward
<1>11. QED
  BY <1>6, <1>7, <1>8, <1>9, <1>10

LEMMA ManagerStep ==
    ASSUME IInv, ManagerProcess
    PROVE  /\ IInv' /\ Spreads(<<"hand", Mgr>>, cur[Mgr], Destinations(cur[Mgr]))
           /\ live' = IF Destinations(cur[Mgr]) = {} THEN live \ {cur[Mgr]} ELSE live
<1> DEFINE m == cur[Mgr]
           D == Destinations(m)
           p == <<"hand", Mgr>>
<1> USE DEF IInv, CustodyInv
<1>1. /\ Mgr \in Nodes /\ Mgr \notin OutNodes /\ Mgr \notin InNodes \cup Parsers /\ Mgr \in InNodes \cup Movers
      /\ p \in Places /\ p[2] = Mgr
  BY NodeFacts, SuccFacts, PlaceFacts DEF Nodes, Readers, Movers
<1>2. /\ pc[Mgr] = "decide" /\ refs' = [refs EXCEPT ![m] = Cardinality(D)]
      /\ UNCHANGED <<ring, processing, termCnt, waiting, made, open, knows, state, termSent, stops, periods, cpc,
                     fpipe, signals>>
  BY DEF ManagerProcess, config, DestCount
<1>3. m \in Msgs /\ At(p) = {m} /\ D \in SUBSET Outputs /\ out[Mgr] = <<>>
  BY <1>1, <1>2 DEF ThreadInv, At, Holding, Destinations
<1>4. PICK dest \in InOrder(D) : Start(Mgr, m, Deal(dest, m), "ok")
  BY DEF ManagerProcess, Deal
<1>5. /\ live' = IF D = {} THEN live \ {m} ELSE live
      /\ cpipe' \in Seq(Requests)
  <2>1. CASE D = {}
    <3>1. Destroy(m)
      BY <2>1 DEF ManagerProcess
    <3>2. QED
      BY <2>1, <3>1, Notified DEF Destroy
  <2>2. CASE D # {}
    BY <2>2 DEF ManagerProcess, PipesInv
  <2>3. QED
    BY <2>1, <2>2
<1> HIDE DEF m, D, p
<1>6. PICK ps : ps = Deal(dest, m)
  OBVIOUS
<1>7. /\ ps \in Seq(Readers \X Msgs) /\ IsInjective(ps) /\ Targets(Mgr, m, ps)
      /\ \A w \in OutNodes : Toward(w, ps) = IF \E o \in D : w = Out(o) THEN {m} ELSE {}
  BY <1>3, <1>4, <1>6, DestFacts
<1>8. /\ ThreadInv' /\ out'[Mgr] = ps
      /\ \A k \in Nodes \ {Mgr} : pc'[k] = pc[k] /\ cur'[k] = cur[k] /\ out'[k] = out[k]
  <2>1. "ok" \in RetCodes /\ m \in Msgs \cup {NoMsg} /\ Start(Mgr, m, ps, "ok") /\ ThreadInv
    BY <1>3, <1>4, <1>6 DEF RetCodes
  <2>2. ps \in Seq(Readers \X Msgs) /\ Targets(Mgr, m, ps)
    BY <1>7
  <2>3. QED
    BY <1>1, <2>1, <2>2, StartThread
<1>9. /\ \A k \in Nodes : Holding(k)' = IF k = Mgr THEN {} ELSE Holding(k)
      /\ \A k \in Nodes : ToPush(k)' = IF k \in OutNodes THEN Toward(k, ps) ELSE ToPush(k)
  <2>1. ThreadInv /\ Start(Mgr, m, ps, "ok")
    BY <1>4, <1>6
  <2>2. QED
    BY <1>1, <2>1, StartHands, StartMgrPushes
<1>10. \A k \in OutNodes : ToPush(k) = {}
  BY <1>3 DEF ToPush, Toward
<1>11. Spreads(p, m, D)
  <2>1. ASSUME NEW w \in Nodes
        PROVE  /\ At(<<"pipe", w>>)' = At(<<"pipe", w>>) /\ At(<<"ring", w>>)' = At(<<"ring", w>>)
               /\ At(<<"hand", w>>)' = IF w = Mgr THEN {} ELSE At(<<"hand", w>>)
               /\ At(<<"out", w>>)' = At(<<"out", w>>) \cup (IF \E o \in D : w = Out(o) THEN {m} ELSE {})
    <3>1. InRing(w)' = InRing(w)
      BY <1>2 DEF InRing
    <3>2. ToPush(w)' = ToPush(w) \cup (IF \E o \in D : w = Out(o) THEN {m} ELSE {})
      <4>1. CASE w \in OutNodes
        BY <1>7, <1>9, <1>10, <4>1
      <4>2. CASE w \notin OutNodes
        <5>1. \A o \in D : w # Out(o)
          BY <1>3, <4>2, NodeFacts
        <5>2. QED
          BY <1>9, <4>2, <5>1
      <4>3. QED
        BY <4>1, <4>2
    <3>3. QED
      BY <1>2, <1>9, <3>1, <3>2 DEF At
  <2>2. \A k \in {"pipe", "ring", "hand", "out"} : \A w \in Nodes :
           At(<<k, w>>)' = (IF <<k, w>> = p THEN At(<<k, w>>) \ {m} ELSE At(<<k, w>>))
                              \cup (IF \E o \in D : <<k, w>> = <<"out", Out(o)>> THEN {m} ELSE {})
    <3>1. ASSUME NEW k \in {"pipe", "ring", "hand", "out"}, NEW w \in Nodes
          PROVE  At(<<k, w>>)' = (IF <<k, w>> = p THEN At(<<k, w>>) \ {m} ELSE At(<<k, w>>))
                              \cup (IF \E o \in D : <<k, w>> = <<"out", Out(o)>> THEN {m} ELSE {})
      <4>1. (\E o \in D : <<k, w>> = <<"out", Out(o)>>) <=> k = "out" /\ \E o \in D : w = Out(o)
        OBVIOUS
      <4>2. <<k, w>> = p <=> k = "hand" /\ w = Mgr
        BY DEF p
      <4>3. QED
        BY <1>3, <2>1, <4>1, <4>2
    <3>2. QED
      BY <3>1
  <2>3. ASSUME NEW r \in Places
        PROVE  At(r)' = (IF r = p THEN At(r) \ {m} ELSE At(r))
                   \cup (IF \E o \in D : r = <<"out", Out(o)>> THEN {m} ELSE {})
    <3>1. PICK k \in {"pipe", "ring", "hand", "out"}, w \in Nodes : r = <<k, w>>
      BY PlaceFacts
    <3>2. QED
      BY <2>2, <3>1, Zenon
  <2>4. QED
    BY <2>3 DEF Spreads
<1>12. UniqueInv' /\ LiveInv' /\ RefsInv'
  <2>1. m \in At(p) /\ p[2] \notin OutNodes
    BY <1>1, <1>3
  <2>2. QED
    BY <1>1, <1>2, <1>3, <1>5, <1>11, <2>1, Broadcast
<1>13. PipesInv'
  BY <1>2, <1>5 DEF PipesInv
<1>14. OnceInv'
  BY <1>2, <1>7, <1>8 DEF OnceInv
<1>15. Shifts(p, p) /\ Forward(p, p)
  <2>1. ASSUME NEW r \in Places, r[2] \in InNodes \cup Parsers PROVE At(r)' \subseteq At(r)
    <3>1. \A o \in D : r # <<"out", Out(o)>>
      BY <1>3, <2>1, NodeFacts DEF Readers, Movers
    <3>2. QED
      BY <1>11, <3>1 DEF Spreads
  <2>2. QED
    BY <2>1 DEF Shifts, Forward
<1>16. \A i \in Inputs : Terminating(Parser(i)) => Terminating(Parser(i))'
  <2>1. ~Terminating(Mgr)
    BY <1>2 DEF Terminating
  <2>2. QED
    BY <1>1, <1>8, <2>1, StillTerminating
<1>17. OriginInv' /\ FreshInv'
  <2>1. live' \subseteq live
    BY <1>5
  <2>2. QED
    BY <1>1, <1>2, <1>15, <1>16, <2>1, Shifted
<1>18. NumbersInv'
  BY <1>2 DEF NumbersInv
<1>19. QED
  BY <1>5, <1>8, <1>11, <1>12, <1>13, <1>14, <1>17, <1>18 DEF m, D, p

-----------------------------------------------------------------------------
(* The steps of the inputs and the movers.                                   *)

LEMMA JoinFacts ==
    ASSUME NEW S, NEW a \in S, NEW b \in S
    PROVE  <<a>> \o <<b>> = <<a, b>> /\ ToSet(<<a>>) = {a}
<1>1. PICK s, t, v \in Seq(S) : s = <<a>> /\ t = <<b>> /\ v = <<a, b>>
  <2>1. <<a>> \in Seq(S) /\ <<b>> \in Seq(S) /\ <<a, b>> \in Seq(S)
    OBVIOUS
  <2>2. QED
    BY <2>1
<1>2. /\ Len(s) = 1 /\ s[1] = a /\ Len(t) = 1 /\ t[1] = b
      /\ Len(v) = 2 /\ v[1] = a /\ v[2] = b
  BY <1>1
<1>3. s \o t = v
  <2>1. s \o t \in Seq(S) /\ Len(s \o t) = 2 /\ (s \o t)[1] = a /\ (s \o t)[2] = b
    BY <1>2, ConcatProperties
  <2>2. \A i \in 1 .. 2 : (s \o t)[i] = v[i]
    BY <1>2, <2>1
  <2>3. QED
    BY <1>2, <2>1, <2>2, SeqEqual
<1>4. ToSet(<<a>>) = {a}
  BY DEF ToSet
<1>5. QED
  BY <1>1, <1>3, <1>4

LEMMA JoinThree ==
    ASSUME NEW S, NEW a \in S, NEW b \in S, NEW c \in S
    PROVE  <<a, b>> \o <<c>> = <<a, b, c>>
<1>1. PICK u, v, w \in Seq(S) : u = <<c>> /\ v = <<a, b>> /\ w = <<a, b, c>>
  <2>1. <<c>> \in Seq(S) /\ <<a, b>> \in Seq(S) /\ <<a, b, c>> \in Seq(S)
    OBVIOUS
  <2>2. QED
    BY <2>1
<1>2. /\ Len(u) = 1 /\ u[1] = c
      /\ Len(v) = 2 /\ v[1] = a /\ v[2] = b /\ Len(w) = 3 /\ w[1] = a /\ w[2] = b /\ w[3] = c
  BY <1>1
<1>3. v \o u \in Seq(S) /\ Len(v \o u) = 3 /\ (v \o u)[1] = a /\ (v \o u)[2] = b /\ (v \o u)[3] = c
  <2>1. /\ v \o u \in Seq(S) /\ Len(v \o u) = Len(v) + Len(u)
        /\ \A i \in 1 .. Len(v) + Len(u) : (v \o u)[i] = IF i <= Len(v) THEN v[i] ELSE u[i - Len(v)]
    BY ConcatProperties
  <2>2. Len(v) + Len(u) = 3 /\ 1 \in 1 .. 3 /\ 2 \in 1 .. 3 /\ 3 \in 1 .. 3
    BY <1>2
  <2>3. (v \o u)[1] = v[1] /\ (v \o u)[2] = v[2] /\ (v \o u)[3] = u[3 - 2]
    BY <1>2, <2>1, <2>2
  <2>4. QED
    BY <1>2, <2>1, <2>3
<1>4. \A i \in 1 .. 3 : (v \o u)[i] = w[i]
  BY <1>2, <1>3
<1>5. v \o u = w
  BY <1>2, <1>3, <1>4, SeqEqual
<1>6. QED
  BY <1>1, <1>5

LEMMA CloseFacts ==
    ASSUME NEW i \in Inputs, NEW m \in Msgs, Type(m) \in {"periodic", "stray", "term"}
    PROVE  /\ <<Close(i), SessionGarbage(i)>> \in Seq(Msgs) /\ IsInjective(<<Close(i), SessionGarbage(i)>>)
           /\ ToSet(<<Close(i), SessionGarbage(i)>>) = {Close(i), SessionGarbage(i)}
           /\ <<Close(i), SessionGarbage(i)>> \o <<m>> \in Seq(Msgs)
           /\ IsInjective(<<Close(i), SessionGarbage(i)>> \o <<m>>)
           /\ ToSet(<<Close(i), SessionGarbage(i)>> \o <<m>>) = {m} \cup {Close(i), SessionGarbage(i)}
           /\ <<m>> \in Seq(Msgs) /\ IsInjective(<<m>>) /\ ToSet(<<m>>) = {m}
           /\ <<>> \o <<m>> = <<m>>
<1>1. Close(i) \in Msgs /\ SessionGarbage(i) \in Msgs
  BY MsgFacts
<1>2. Close(i) # SessionGarbage(i) /\ m # Close(i) /\ m # SessionGarbage(i)
  BY DEF Close, SessionGarbage, Type
<1>3. <<Close(i), SessionGarbage(i)>> \o <<m>> = <<Close(i), SessionGarbage(i), m>>
  BY <1>1, JoinThree
<1>4. /\ <<Close(i), SessionGarbage(i)>> \in Seq(Msgs) /\ IsInjective(<<Close(i), SessionGarbage(i)>>)
      /\ ToSet(<<Close(i), SessionGarbage(i)>>) = {Close(i), SessionGarbage(i)}
  BY <1>1, <1>2 DEF IsInjective, ToSet
<1>5. /\ <<Close(i), SessionGarbage(i), m>> \in Seq(Msgs)
      /\ IsInjective(<<Close(i), SessionGarbage(i), m>>)
  BY <1>1, <1>2 DEF IsInjective
<1>6. ToSet(<<Close(i), SessionGarbage(i), m>>) = {m} \cup {Close(i), SessionGarbage(i)}
  BY <1>1 DEF ToSet
<1>7. <<m>> \in Seq(Msgs) /\ IsInjective(<<m>>) /\ ToSet(<<m>>) = {m} /\ <<>> \o <<m>> = <<m>>
  BY DEF IsInjective, ToSet
<1>8. QED
  BY <1>3, <1>4, <1>5, <1>6, <1>7

LEMMA InputPipeStep ==
    ASSUME IInv, NEW i \in Inputs, InputPipe(i)
    PROVE  /\ IInv'
           /\ \E N \in SUBSET Msgs : /\ Makes(i, N) /\ live' = live \cup N
                                     /\ Moves(<<"pipe", In(i)>>, <<"out", In(i)>>, {Head(fpipe[i])}, N)
<1> DEFINE m == Head(fpipe[i])
           n == In(i)
<1> USE DEF IInv
<1>1. /\ pc[n] \in {"loop", "get"} /\ fpipe[i] # <<>> /\ fpipe' = [fpipe EXCEPT ![i] = Tail(@)]
      /\ UNCHANGED <<ring, processing, termCnt, waiting, made, knows, cpipe, state, termSent, stops, periods, cpc,
                     signals, refs>>
  BY DEF InputPipe, config
<1>2. m \in Msgs /\ Type(m) \in {"periodic", "stray", "term"}
  <2>1. m \in ToSet(fpipe[i]) /\ m \in Msgs
    BY <1>1, TailFacts DEF CustodyInv, PipesInv
  <2>2. QED
    BY <2>1 DEF CustodyInv, PipesInv
<1>3. Takes(i, {m})
  BY <1>1 DEF Takes
<1>4. IF Type(m) = "term"
      THEN /\ Start(n, m, Push(n, CloseAll(i) \o <<m>>), "ok")
           /\ live' = live \cup ToSet(CloseAll(i))
           /\ open' = [open EXCEPT ![i] = FALSE]
      ELSE /\ Start(n, m, Push(n, <<m>>), "ok")
           /\ UNCHANGED <<live, open>>
  BY DEF InputPipe
<1> HIDE DEF m
<1> DEFINE C == <<Close(i), SessionGarbage(i)>>
           N == {Close(i), SessionGarbage(i)}
<1>5. /\ C \in Seq(Msgs) /\ ToSet(C) = N
      /\ C \o <<m>> \in Seq(Msgs) /\ IsInjective(C \o <<m>>) /\ ToSet(C \o <<m>>) = {m} \cup N
      /\ <<m>> \in Seq(Msgs) /\ IsInjective(<<m>>) /\ ToSet(<<m>>) = {m} \cup {}
      /\ <<>> \o <<m>> = <<m>>
  BY <1>2, CloseFacts
<1>6. "ok" \in RetCodes /\ (Type(m) = "term" => "ok" = "ok") /\ {m} \in SUBSET Msgs /\ m \in Msgs \cup {NoMsg}
  BY <1>2 DEF RetCodes
<1>7. CASE Type(m) = "term" /\ open[i]
  <2>1. CloseAll(i) = C
    BY <1>7 DEF CloseAll
  <2>2. Start(n, m, Push(n, C \o <<m>>), "ok") /\ live' = live \cup N
    BY <1>4, <1>5, <1>7, <2>1
  <2>3. Makes(i, N)
    BY <1>1, <1>4, <1>7 DEF Makes
  <2>4. N \in SUBSET Msgs
    BY MsgFacts
  <2> HIDE DEF C, N
  <2>5. IInv' /\ Moves(<<"pipe", n>>, <<"out", n>>, {m}, N)
    BY <1>1, <1>3, <1>5, <1>6, <2>2, <2>3, InputStep
  <2>6. QED
    BY <2>2, <2>3, <2>4, <2>5 DEF m
<1>8. CASE ~(Type(m) = "term" /\ open[i])
  <2>1. Start(n, m, Push(n, <<m>>), "ok") /\ live' = live \cup {} /\ Makes(i, {})
    <3>1. CASE Type(m) = "term"
      <4>1. CloseAll(i) = <<>> /\ ToSet(<<>>) = {}
        BY <1>8, <3>1, EmptyFacts DEF CloseAll
      <4>2. QED
        BY <1>1, <1>4, <1>5, <3>1, <4>1 DEF Makes
    <3>2. CASE Type(m) # "term"
      BY <1>1, <1>4, <3>2 DEF Makes
    <3>3. QED
      BY <3>1, <3>2
  <2>2. IInv' /\ Moves(<<"pipe", n>>, <<"out", n>>, {m}, {})
    BY <1>1, <1>3, <1>5, <1>6, <2>1, InputStep
  <2>3. QED
    BY <2>1, <2>2 DEF m
<1>9. QED
  BY <1>7, <1>8

LEMMA InputGetStep ==
    ASSUME IInv, NEW i \in Inputs, InputGet(i)
    PROVE  /\ IInv'
           /\ \E N \in SUBSET Msgs : /\ Makes(i, N) /\ live' = live \cup N
                                     /\ Moves(<<"pipe", In(i)>>, <<"out", In(i)>>, {}, N)
<1> DEFINE n == In(i)
<1>1. /\ pc[n] \in {"loop", "get"}
      /\ UNCHANGED <<ring, processing, termCnt, waiting, knows, fpipe, cpipe, state, termSent, stops, periods, cpc,
                     signals, refs>>
  BY DEF InputGet, config
<1>2. Takes(i, {}) /\ {} \in SUBSET Msgs /\ NoMsg \in Msgs \cup {NoMsg} /\ Type(NoMsg) # "term"
  BY <1>1, MsgFacts DEF Takes
<1>3. \/ /\ open[i] /\ made[i] < MaxData
         /\ Start(n, NoMsg, Push(n, <<Data(i, made[i] + 1)>>), "ok")
         /\ made' = [made EXCEPT ![i] = @ + 1]
         /\ live' = live \cup {Data(i, made[i] + 1)}
         /\ UNCHANGED open
      \/ /\ open[i]
         /\ Start(n, NoMsg, Push(n, CloseAll(i)), "ok")
         /\ open' = [open EXCEPT ![i] = FALSE]
         /\ live' = live \cup ToSet(CloseAll(i))
         /\ UNCHANGED made
      \/ /\ \E code \in Codes(n) : Start(n, NoMsg, <<>>, code)
         /\ UNCHANGED <<made, live, open>>
  BY DEF InputGet
<1>4. "ok" \in RetCodes /\ \A code \in Codes(n) : code \in RetCodes
  BY DEF Codes, RetCodes
<1>5. CASE /\ open[i] /\ made[i] < MaxData
           /\ Start(n, NoMsg, Push(n, <<Data(i, made[i] + 1)>>), "ok")
           /\ made' = [made EXCEPT ![i] = @ + 1]
           /\ live' = live \cup {Data(i, made[i] + 1)}
           /\ UNCHANGED open
  <2> DEFINE d == Data(i, made[i] + 1)
  <2>1. Makes(i, {d})
    BY <1>5 DEF Makes
  <2> HIDE DEF d
  <2>2. d \in Msgs
    BY <2>1, MakesFacts
  <2>3. <<d>> \in Seq(Msgs) /\ IsInjective(<<d>>) /\ ToSet(<<d>>) = {} \cup {d}
    BY <2>2 DEF IsInjective, ToSet
  <2>4. QED
    BY <1>1, <1>2, <1>4, <1>5, <2>1, <2>3, InputStep DEF d
<1>6. CASE /\ open[i]
           /\ Start(n, NoMsg, Push(n, CloseAll(i)), "ok")
           /\ open' = [open EXCEPT ![i] = FALSE]
           /\ live' = live \cup ToSet(CloseAll(i))
           /\ UNCHANGED made
  <2> DEFINE C == <<Close(i), SessionGarbage(i)>>
             N == {Close(i), SessionGarbage(i)}
  <2>1. Term(i, 1) \in Msgs /\ Type(Term(i, 1)) = "term"
    <3>1. Type(Term(i, 1)) = "term"
      BY DEF Term, Type
    <3>2. QED
      BY <3>1, MsgFacts
  <2>2. C \in Seq(Msgs) /\ IsInjective(C) /\ ToSet(C) = {} \cup N
    BY <2>1, CloseFacts
  <2>3. CloseAll(i) = C
    BY <1>6 DEF CloseAll
  <2>4. Makes(i, N)
    BY <1>6 DEF Makes
  <2> HIDE DEF C, N
  <2>5. live' = live \cup N /\ Start(n, NoMsg, Push(n, C), "ok")
    BY <1>6, <2>2, <2>3
  <2>6. IInv' /\ Moves(<<"pipe", n>>, <<"out", n>>, {}, N)
    BY <1>1, <1>2, <1>4, <2>2, <2>4, <2>5, InputStep
  <2>7. N \in SUBSET Msgs
    BY <2>4, MakesFacts
  <2>8. QED
    BY <2>4, <2>5, <2>6, <2>7
<1>7. CASE /\ \E code \in Codes(n) : Start(n, NoMsg, <<>>, code)
           /\ UNCHANGED <<made, live, open>>
  <2>1. PICK code \in Codes(n) : Start(n, NoMsg, <<>>, code)
    BY <1>7
  <2>2. <<>> \in Seq(Msgs) /\ IsInjective(<<>>) /\ ToSet(<<>>) = {} \cup {}
    BY EmptyFacts
  <2>3. Push(n, <<>>) = <<>>
    <3>1. n \in InNodes \cup Movers /\ n # Mgr
      BY NodeFacts, SuccFacts DEF Readers, Movers
    <3>2. QED
      BY <2>2, <3>1, PushFacts
  <2>4. Makes(i, {}) /\ live' = live \cup {} /\ Start(n, NoMsg, Push(n, <<>>), code)
    BY <1>7, <2>1, <2>3 DEF Makes
  <2>5. QED
    BY <1>1, <1>2, <1>4, <2>1, <2>2, <2>4, InputStep
<1>8. QED
  BY <1>3, <1>5, <1>6, <1>7

LEMMA ParserStep ==
    ASSUME IInv, NEW i \in Inputs, ParserProcess(i)
    PROVE  /\ IInv'
           /\ \/ Passes(<<"hand", Parser(i)>>, <<"out", Parser(i)>>, cur[Parser(i)])
              \/ /\ Moves(<<"hand", Parser(i)>>, <<"out", Parser(i)>>, {cur[Parser(i)]}, {TemplateGarbage(i)})
                 /\ cur[Parser(i)] = Close(i) /\ live' = live \cup {TemplateGarbage(i)}
<1> DEFINE n == Parser(i)
           m == cur[n]
<1>1. /\ pc[n] = "decide" /\ IsData(m) /\ knows' = [knows EXCEPT ![i] = Type(m) = "ipfix"]
      /\ UNCHANGED <<ring, processing, termCnt, waiting, made, open, refs, state, termSent, stops, periods, cpc,
                     fpipe, cpipe, signals>>
  BY DEF ParserProcess, config
<1>2. n \in Movers /\ n \in Nodes /\ n # Mgr /\ m \in Msgs /\ Type(m) # "term" /\ "ok" \in RetCodes
  <2>1. n \in Movers /\ n \in Nodes /\ n # Mgr
    BY NodeFacts, SuccFacts DEF Nodes, Readers, Movers
  <2>2. QED
    BY <1>1, <2>1 DEF IInv, CustodyInv, ThreadInv, IsData, RetCodes
<1>3. knows' \in [Inputs -> BOOLEAN]
  BY <1>1 DEF IInv, NumbersInv
<1>4. CASE Type(m) = "close" /\ knows[i]
  <2>1. m = Close(i)
    <3>1. <<"hand", n>> \in Places /\ m \in At(<<"hand", n>>)
      BY <1>1, <1>2, PlaceFacts DEF At, Holding
    <3>2. m[2] = i
      BY <3>1 DEF IInv, OriginInv
    <3>3. QED
      BY <1>2, <1>4, <3>2, MsgFacts
  <2>2. ParserOutput(m, <<TemplateGarbage(i)>>) = <<m, TemplateGarbage(i)>> /\ ToSet(<<TemplateGarbage(i)>>) = {TemplateGarbage(i)}
    <3>1. TemplateGarbage(i) \in Msgs
      BY MsgFacts
    <3>2. <<m>> \o <<TemplateGarbage(i)>> = <<m, TemplateGarbage(i)>> /\ ToSet(<<TemplateGarbage(i)>>) = {TemplateGarbage(i)}
      BY <1>2, <3>1, JoinFacts
    <3>3. QED
      BY <3>2 DEF ParserOutput
  <2>3. Start(n, m, Push(n, <<m, TemplateGarbage(i)>>), "ok") /\ live' = live \cup {TemplateGarbage(i)}
    BY <1>4, <2>2 DEF ParserProcess
  <2>4. QED
    BY <1>1, <1>3, <2>1, <2>3, GarbageStep
<1>5. CASE ~(Type(m) = "close" /\ knows[i])
  <2>1. ParserOutput(m, <<>>) = <<m>> /\ ToSet(<<>>) = {}
    BY <1>2, EmptyFacts DEF ParserOutput
  <2>2. Start(n, m, Push(n, <<m>>), "ok") /\ live' = live
    BY <1>5, <2>1 DEF ParserProcess
  <2>3. QED
    BY <1>1, <1>2, <1>3, <2>2, PassStep
<1>6. QED
  BY <1>4, <1>5

LEMMA TermStep ==
    ASSUME IInv, NEW n \in Movers, MoverTerm(n)
    PROVE  /\ IInv'
           /\ \/ Passes(<<"hand", n>>, <<"out", n>>, cur[n])
              \/ \E i \in Inputs : /\ n = Parser(i)
                                  /\ Moves(<<"hand", n>>, <<"out", n>>, {cur[n]}, {ParserGarbage(i)})
                                  /\ live' = live \cup {ParserGarbage(i)}
<1> DEFINE m == cur[n]
<1>1. /\ pc[n] = "decide" /\ n # Mgr /\ Type(m) = "term"
      /\ UNCHANGED <<ring, processing, termCnt, waiting, made, open, knows, refs, state, termSent, stops, periods, cpc,
                     fpipe, cpipe, signals>>
  BY DEF MoverTerm, config
<1>2. n \in Nodes /\ m \in Msgs /\ "ok" \in RetCodes /\ knows' \in [Inputs -> BOOLEAN]
  <2>1. n \in Nodes
    BY DEF Nodes, Readers
  <2>2. QED
    BY <1>1, <2>1 DEF IInv, CustodyInv, ThreadInv, RetCodes, NumbersInv
<1>3. CASE n \in Parsers
  <2>1. PICK i \in Inputs : n = Parser(i) /\ n[2] = i
    BY <1>3, NodeFacts
  <2> DEFINE g == ParserGarbage(i)
  <2>2. g \in Msgs
    BY MsgFacts
  <2>3. <<g>> \o <<m>> = <<g, m>> /\ ToSet(<<g>>) = {g}
    BY <1>2, <2>2, JoinFacts
  <2>4. Start(n, m, Push(n, <<g, m>>), "ok") /\ live' = live \cup {g}
    BY <1>3, <2>1, <2>3 DEF MoverTerm
  <2>5. g # TemplateGarbage(i)
    BY DEF ParserGarbage, TemplateGarbage
  <2>6. QED
    BY <1>1, <1>2, <2>1, <2>4, <2>5, GarbageStep
<1>4. CASE n \notin Parsers
  <2>1. <<>> \o <<m>> = <<m>> /\ ToSet(<<>>) = {}
    BY <1>2, EmptyFacts
  <2>2. Start(n, m, Push(n, <<m>>), "ok") /\ live' = live
    BY <1>4, <2>1 DEF MoverTerm
  <2>3. QED
    BY <1>1, <1>2, <2>2, PassStep
<1>5. QED
  BY <1>3, <1>4

LEMMA MoverPassStep ==
    ASSUME IInv, NEW n \in Movers, MoverPass(n)
    PROVE  IInv' /\ Passes(<<"hand", n>>, <<"out", n>>, cur[n])
<1>1. /\ pc[n] = "decide" /\ n # Mgr /\ Type(cur[n]) # "term" /\ Start(n, cur[n], Push(n, <<cur[n]>>), "ok")
      /\ UNCHANGED <<ring, processing, termCnt, waiting, made, open, knows, refs, state, termSent, stops, periods, cpc,
                     fpipe, cpipe, signals, live>>
  BY DEF MoverPass, config
<1>2. "ok" \in RetCodes /\ knows' \in [Inputs -> BOOLEAN]
  BY <1>1 DEF RetCodes, IInv, NumbersInv
<1>3. QED
  BY <1>1, <1>2, PassStep

LEMMA InterStep ==
    ASSUME IInv, NEW n \in Movers, InterProcess(n)
    PROVE  IInv' /\ Passes(<<"hand", n>>, <<"out", n>>, cur[n])
<1>1. /\ pc[n] = "decide" /\ n # Mgr /\ IsData(cur[n])
      /\ UNCHANGED <<ring, processing, termCnt, waiting, made, open, knows, refs, state, termSent, stops, periods, cpc,
                     fpipe, cpipe, signals, live>>
  BY DEF InterProcess, config
<1>2. PICK code \in Codes(n) : Start(n, cur[n], Push(n, <<cur[n]>>), code)
  BY DEF InterProcess
<1>3. code \in RetCodes /\ knows' \in [Inputs -> BOOLEAN] /\ Type(cur[n]) # "term"
  BY <1>1 DEF Codes, RetCodes, IInv, NumbersInv, IsData
<1>4. QED
  BY <1>1, <1>2, <1>3, PassStep

-----------------------------------------------------------------------------
(* The configurator and signals.                                             *)

\* New messages are put into the feedback pipes (or none).
Adds(G) ==
    /\ fpipe' \in [Inputs -> Seq(Msgs)]
    /\ \A i \in Inputs : ToSet(fpipe'[i]) = ToSet(fpipe[i]) \cup G[i] /\ IsInjective(fpipe'[i])
    /\ live' = live \cup UNION {G[i] : i \in Inputs}

\* What may be put there.
MayAdd(G) ==
    /\ G \in [Inputs -> SUBSET Msgs]
    /\ \A i \in Inputs : \A m \in G[i] : Type(m) \in {"periodic", "stray", "term"} /\ m[2] = i /\ m \notin live
    /\ \A i \in Inputs : \A s \in 0 .. MaxPeriodic - 1 : Periodic(i, s) \in G[i] => s < periods'
    /\ periods' >= periods
    /\ cpc' = "run" /\ termSent' = 0 =>
           state' = "running" /\ \A m \in live' : Type(m) \notin {"term", "stray"}
    /\ cpc' = "run" /\ state' = "running" => \A i \in Inputs : Term(i, 2) \notin live'

LEMMA Sent ==
    ASSUME IInv, NEW G, Adds(G), MayAdd(G),
           UNCHANGED <<ring, pc, cur, out, rc, refs, made, open>>,
           cpipe' \in Seq(Requests), stops' \in Seq(Nodes), NumbersInv'
    PROVE  IInv'
<1> USE DEF IInv, CustodyInv
<1>1. ThreadInv' /\ \A k \in Nodes : Holding(k)' = Holding(k) /\ ToPush(k)' = ToPush(k) /\ InRing(k)' = InRing(k)
  BY DEF ThreadInv, Holding, ToPush, InRing
<1>2. PipesInv'
  <2>1. \A i \in Inputs : \A m \in ToSet(fpipe'[i]) : Type(m) \in {"periodic", "stray", "term"}
    BY DEF Adds, MayAdd, PipesInv
  <2>2. QED
    BY <2>1 DEF PipesInv, Adds, Requests
<1>3. OnceInv'
  BY DEF OnceInv, Adds
<1>4. \A r \in Places : At(r)' = At(r) \cup (IF r[1] = "pipe" /\ r[2] \in InNodes THEN G[r[2][2]] ELSE {})
  <2>1. ASSUME NEW k \in {"pipe", "ring", "hand", "out"}, NEW w \in Nodes
        PROVE  At(<<k, w>>)' = At(<<k, w>>) \cup (IF k = "pipe" /\ w \in InNodes THEN G[w[2]] ELSE {})
    <3>1. w \in InNodes => w[2] \in Inputs
      BY NodeFacts
    <3>2. w \in InNodes => ToSet(fpipe'[w[2]]) = ToSet(fpipe[w[2]]) \cup G[w[2]]
      BY <3>1 DEF Adds
    <3>3. At(<<"pipe", w>>)' = At(<<"pipe", w>>) \cup (IF w \in InNodes THEN G[w[2]] ELSE {})
      BY <3>2 DEF At
    <3>4. At(<<"ring", w>>)' = At(<<"ring", w>>) /\ At(<<"hand", w>>)' = At(<<"hand", w>>)
          /\ At(<<"out", w>>)' = At(<<"out", w>>)
      BY <1>1 DEF At
    <3>5. QED
      BY <3>3, <3>4
  <2>2. ASSUME NEW r \in Places
        PROVE  At(r)' = At(r) \cup (IF r[1] = "pipe" /\ r[2] \in InNodes THEN G[r[2][2]] ELSE {})
    <3>1. r[1] \in {"pipe", "ring", "hand", "out"} /\ r[2] \in Nodes /\ r = <<r[1], r[2]>>
      BY PlaceFacts
    <3>2. QED
      BY <2>1, <3>1
  <2>3. QED
    BY <2>2
<1>5. UniqueInv' /\ LiveInv' /\ RefsInv'
  <2>1. /\ G \in [Inputs -> SUBSET Msgs]
        /\ \A i \in Inputs : G[i] \cap live = {}
        /\ \A i, j \in Inputs : i # j => G[i] \cap G[j] = {}
    BY DEF MayAdd
  <2>2. live' = live \cup UNION {G[i] : i \in Inputs} /\ refs' = refs
    BY DEF Adds
  <2>3. QED
    BY <1>4, <2>1, <2>2, Gained
<1>6. \A i \in Inputs : \A m \in G[i] : Type(m) \in {"periodic", "stray", "term"} /\ m[2] = i
  BY DEF MayAdd
<1>7. OriginInv'
  <2>1. SUFFICES ASSUME NEW i \in Inputs, NEW r \in Places, r[2] \in {In(i), Parser(i)}, NEW m \in At(r)'
                 PROVE  m[2] = i
    BY DEF OriginInv
  <2>2. m \in At(r) \/ (r[2] \in InNodes /\ m \in G[r[2][2]])
    BY <1>4
  <2>3. r[2] \in InNodes => r[2][2] = i
    BY <2>1, NodeFacts DEF Readers, Movers
  <2>4. QED
    BY <1>6, <2>1, <2>2, <2>3 DEF OriginInv
<1>8. \A m \in live' : m \in live \/ (Type(m) \in {"periodic", "stray", "term"} /\ m[2] \in Inputs /\ m \in G[m[2]])
  BY <1>6 DEF Adds
<1>9. \A i \in Inputs : \A r \in BehindParser(i) : At(r)' = At(r)
  <2>1. \A i \in Inputs : \A r \in BehindParser(i) : r \in Places /\ r[1] # "pipe"
    BY BehindFacts
  <2>2. QED
    BY <1>4, <2>1
<1>10. FreshInv'
  <2>1. \A i \in Inputs : \A k \in 1 .. MaxData : Data(i, k) \in live' => k <= made'[i]
    <3>1. \A i, k : Type(Data(i, k)) = "ipfix"
      BY DEF Data, Type
    <3>2. QED
      BY <1>8, <3>1 DEF FreshInv
  <2>2. \A i : Type(Close(i)) = "close" /\ Type(SessionGarbage(i)) = "garbage" /\ Type(TemplateGarbage(i)) = "garbage"
               /\ Type(ParserGarbage(i)) = "garbage"
    BY DEF Close, SessionGarbage, TemplateGarbage, ParserGarbage, Type
  <2>3. \A i \in Inputs : open'[i] => Close(i) \notin live' /\ SessionGarbage(i) \notin live'
    BY <1>8, <2>2 DEF FreshInv
  <2>4. \A i \in Inputs : TemplateGarbage(i) \in live' =>
           ~open'[i] /\ \A p \in BehindParser(i) : Close(i) \notin At(p)'
    BY <1>8, <1>9, <2>2 DEF FreshInv
  <2>5. \A i \in Inputs : ParserGarbage(i) \in live' => Terminating(Parser(i))'
    BY <1>8, <2>2 DEF FreshInv, Terminating
  <2>6. \A i \in Inputs : \A s \in 0 .. MaxPeriodic - 1 : Periodic(i, s) \in live' => s < periods'
    <3>1. ASSUME NEW i \in Inputs, NEW s \in 0 .. MaxPeriodic - 1, Periodic(i, s) \in live' PROVE s < periods'
      <4>1. Periodic(i, s)[2] = i
        BY DEF Periodic
      <4>2. CASE Periodic(i, s) \in live
        <5>1. s < periods /\ s \in Nat /\ periods \in Nat /\ periods' \in Nat
          BY <4>2, SizesAssumption DEF FreshInv, NumbersInv
        <5>2. QED
          BY <5>1 DEF MayAdd
      <4>3. CASE Periodic(i, s) \in G[i]
        BY <4>3 DEF MayAdd
      <4>4. QED
        BY <1>8, <3>1, <4>1, <4>2, <4>3
    <3>2. QED
      BY <3>1
  <2>7. QED
    BY <2>1, <2>3, <2>4, <2>5, <2>6 DEF FreshInv, MayAdd
<1>11. QED
  BY <1>1, <1>2, <1>3, <1>5, <1>7, <1>10

\* Nothing is put there.
Nothing == [i \in Inputs |-> {}]
LEMMA NotSent ==
    ASSUME IInv, UNCHANGED <<ring, pc, cur, out, rc, refs, made, open, fpipe, live, periods>>,
           cpipe' \in Seq(Requests), stops' \in Seq(Nodes), NumbersInv',
           cpc' = "run" => cpc = "run",
           cpc' = "run" /\ termSent' = 0 => termSent = 0 /\ state' = state,
           cpc' = "run" /\ state' = "running" => state = "running"
    PROVE  IInv'
<1>1. Nothing \in [Inputs -> SUBSET Msgs] /\ \A i \in Inputs : Nothing[i] = {}
  BY DEF Nothing
<1>2. Adds(Nothing)
  BY <1>1 DEF Adds, IInv, CustodyInv, PipesInv, OnceInv
<1>3. MayAdd(Nothing)
  <2>1. periods' >= periods
    BY SizesAssumption DEF IInv, NumbersInv
  <2>2. QED
    BY <1>1, <2>1 DEF MayAdd, IInv, FreshInv
<1>4. QED
  BY <1>2, <1>3, Sent

\* A terminate message to each input, behind what pipes adds to the feedback pipes (E).
LEMMA TermSent ==
    ASSUME IInv, cpc = "run", state = "running", NEW pipes, TerminationSend(pipes),
           NEW E \in [Inputs -> SUBSET Msgs], pipes \in [Inputs -> Seq(Msgs)],
           \A i \in Inputs : ToSet(pipes[i]) = ToSet(fpipe[i]) \cup E[i] /\ IsInjective(pipes[i]),
           \A i \in Inputs : \A m \in E[i] : Type(m) = "stray" /\ m[2] = i /\ m \notin live,
           \A i \in Inputs : E[i] # {} => termSent = 0,
           UNCHANGED <<ring, pc, cur, out, rc, refs, made, open, periods,
                       processing, knows, termCnt, waiting, signals>>,
           cpipe' \in Seq(Requests), stops' \in Seq(Nodes),
           state' \in {"running", "stop_slow", "stop_fast"}, state' = "running" => termSent = 0
    PROVE  IInv'
<1> USE DEF IInv, CustodyInv
<1>1. /\ cpc \in {"run", "join", "done", "abort"} /\ termSent \in 0 .. NIn /\ NIn \in Nat \ {0}
      /\ periods \in 0 .. MaxPeriodic /\ MaxPeriodic \in Nat
  BY SizesAssumption DEF NumbersInv
<1>2. CASE termSent = 0 \/ ~Asserts
  <2>1. /\ fpipe' = [i \in Inputs |-> Append(pipes[i], TermTo(i))]
        /\ live' = live \cup UNION {ToSet(fpipe'[i]) : i \in Inputs}
        /\ termSent' = NIn /\ cpc' = cpc
    BY <1>2 DEF TerminationSend
  <2>2. ASSUME NEW i \in Inputs
        PROVE  /\ TermTo(i) \in Msgs /\ Type(TermTo(i)) = "term" /\ TermTo(i)[2] = i /\ TermTo(i) \notin live
               /\ termSent = 0 => TermTo(i) = Term(i, 1)
    <3>1. Term(i, 2) \notin live
      BY DEF FreshInv
    <3>2. /\ Type(Term(i, 1)) = "term" /\ Term(i, 1)[2] = i /\ Type(Term(i, 2)) = "term" /\ Term(i, 2)[2] = i
      BY DEF Term, Type
    <3>3. Term(i, 1) \in Msgs /\ Term(i, 2) \in Msgs
      BY MsgFacts
    <3>4. termSent = 0 => Term(i, 1) \notin live
      BY <3>2 DEF FreshInv
    <3>5. CASE Term(i, 1) \in live
      BY <3>1, <3>2, <3>3, <3>4, <3>5 DEF TermTo
    <3>6. CASE Term(i, 1) \notin live
      BY <3>2, <3>3, <3>6 DEF TermTo
    <3>7. QED
      BY <3>5, <3>6
  <2> DEFINE G == [i \in Inputs |-> E[i] \cup {TermTo(i)}]
  <2>3. G \in [Inputs -> SUBSET Msgs] /\ \A i \in Inputs : G[i] = E[i] \cup {TermTo(i)}
    BY <2>2
  <2> HIDE DEF G
  <2>4. \A i \in Inputs : \A m \in G[i] : Type(m) \in {"stray", "term"} /\ m[2] = i /\ m \notin live
    BY <2>2, <2>3
  <2>5. ASSUME NEW i \in Inputs
        PROVE  /\ fpipe'[i] = Append(pipes[i], TermTo(i)) /\ fpipe'[i] \in Seq(Msgs)
               /\ ToSet(fpipe'[i]) = ToSet(fpipe[i]) \cup G[i] /\ IsInjective(fpipe'[i])
               /\ ToSet(fpipe[i]) \subseteq live
    <3>1. fpipe'[i] = Append(pipes[i], TermTo(i)) /\ pipes[i] \in Seq(Msgs)
      BY <2>1
    <3>2. ToSet(fpipe[i]) \subseteq live
      <4>1. <<"pipe", In(i)>> \in Places /\ In(i) \in InNodes /\ In(i)[2] = i
        BY NodeFacts, PlaceFacts DEF Nodes
      <4>2. At(<<"pipe", In(i)>>) = ToSet(fpipe[i])
        BY <4>1 DEF At
      <4>3. QED
        BY <4>1, <4>2 DEF LiveInv
    <3>3. TermTo(i) \notin ToSet(pipes[i])
      <4>1. TermTo(i) \notin E[i]
        BY <2>2
      <4>2. QED
        BY <2>2, <3>2, <4>1
    <3>4. /\ Append(pipes[i], TermTo(i)) \in Seq(Msgs)
          /\ ToSet(Append(pipes[i], TermTo(i))) = ToSet(pipes[i]) \cup {TermTo(i)}
          /\ IsInjective(Append(pipes[i], TermTo(i)))
      BY <2>2, <3>1, <3>3, AppendFacts
    <3>5. QED
      BY <2>3, <3>1, <3>2, <3>4
  <2>6. Adds(G)
    <3>1. fpipe' \in [Inputs -> Seq(Msgs)]
      BY <2>1, <2>5
    <3>2. live' = live \cup UNION {G[i] : i \in Inputs}
      BY <2>1, <2>5
    <3>3. QED
      BY <2>5, <3>1, <3>2 DEF Adds
  <2>7. MayAdd(G)
    <3>1. \A i \in Inputs : \A s : Type(Periodic(i, s)) = "periodic"
      BY DEF Periodic, Type
    <3>2. \A i \in Inputs : \A s \in 0 .. MaxPeriodic - 1 : Periodic(i, s) \in G[i] => s < periods'
      BY <2>4, <3>1
    <3>3. termSent' # 0 /\ periods' >= periods
      BY <1>1, <2>1
    <3>4. cpc' = "run" /\ state' = "running" => \A i \in Inputs : Term(i, 2) \notin live'
      <4>1. SUFFICES ASSUME termSent = 0, NEW i \in Inputs, Term(i, 2) \in live' PROVE FALSE
        OBVIOUS
      <4>2. Term(i, 2) \notin live /\ Term(i, 2)[2] = i /\ Type(Term(i, 2)) = "term"
        BY DEF FreshInv, Term, Type
      <4>3. PICK j \in Inputs : Term(i, 2) \in G[j]
        BY <2>6, <4>1, <4>2 DEF Adds
      <4>4. j = i /\ Term(i, 2) = Term(i, 1)
        BY <2>2, <2>3, <2>4, <4>1, <4>2, <4>3
      <4>5. QED
        BY <4>4 DEF Term
    <3>5. QED
      BY <2>3, <2>4, <3>2, <3>3, <3>4 DEF MayAdd
  <2>8. NumbersInv'
    BY <1>1, <2>1 DEF NumbersInv
  <2>9. QED
    BY <2>6, <2>7, <2>8, Sent
<1>3. CASE ~(termSent = 0 \/ ~Asserts)
  <2>1. cpc' = "abort" /\ UNCHANGED <<fpipe, live, termSent>>
    BY <1>3 DEF TerminationSend
  <2>2. NumbersInv'
    BY <2>1 DEF NumbersInv
  <2>3. QED
    BY <2>1, <2>2, NotSent
<1>4. QED
  BY <1>2, <1>3

LEMMA PeriodicStep ==
    ASSUME IInv, cpc = "run", periods < MaxPeriodic, PeriodicSend,
           UNCHANGED <<ring, pc, cur, out, rc, refs, made, open, processing, knows, termCnt, waiting, signals, state, stops>>,
           cpipe' \in Seq(Requests), stops' \in Seq(Nodes)
    PROVE  IInv'
<1> USE DEF IInv, CustodyInv
<1>1. periods \in 0 .. MaxPeriodic - 1 /\ MaxPeriodic \in Nat /\ fpipe \in [Inputs -> Seq(Msgs)]
      /\ \A i \in Inputs : IsInjective(fpipe[i])
  BY SizesAssumption DEF NumbersInv, PipesInv, OnceInv
<1>2. ASSUME NEW i \in Inputs PROVE ToSet(fpipe[i]) \subseteq live
  <2>1. <<"pipe", In(i)>> \in Places /\ In(i) \in InNodes /\ In(i)[2] = i
    BY NodeFacts, PlaceFacts DEF Nodes
  <2>2. At(<<"pipe", In(i)>>) = ToSet(fpipe[i])
    BY <2>1 DEF At
  <2>3. QED
    BY <2>1, <2>2 DEF LiveInv
<1>3. CASE /\ fpipe' = [i \in Inputs |-> Append(fpipe[i], Periodic(i, periods))]
           /\ live' = live \cup {Periodic(i, periods) : i \in Inputs}
           /\ periods' = periods + 1
           /\ UNCHANGED <<termSent, cpc>>
  <2> DEFINE G == [i \in Inputs |-> {Periodic(i, periods)}]
  <2>1. ASSUME NEW i \in Inputs
        PROVE  /\ Periodic(i, periods) \in Msgs /\ Type(Periodic(i, periods)) = "periodic" /\ Periodic(i, periods)[2] = i
               /\ Periodic(i, periods) \notin live
    <3>1. Periodic(i, periods) \notin live
      BY <1>1 DEF FreshInv
    <3>2. Type(Periodic(i, periods)) = "periodic" /\ Periodic(i, periods)[2] = i
      BY DEF Periodic, Type
    <3>3. QED
      BY <1>1, <3>1, <3>2, MsgFacts
  <2>2. G \in [Inputs -> SUBSET Msgs] /\ \A i \in Inputs : G[i] = {Periodic(i, periods)}
    BY <2>1
  <2> HIDE DEF G
  <2>3. ASSUME NEW i \in Inputs
        PROVE  fpipe'[i] \in Seq(Msgs) /\ ToSet(fpipe'[i]) = ToSet(fpipe[i]) \cup G[i] /\ IsInjective(fpipe'[i])
    <3>1. fpipe'[i] = Append(fpipe[i], Periodic(i, periods)) /\ fpipe[i] \in Seq(Msgs)
      BY <1>1, <1>3
    <3>2. Periodic(i, periods) \notin ToSet(fpipe[i])
      BY <1>2, <2>1
    <3>3. QED
      BY <1>1, <2>1, <2>2, <3>1, <3>2, AppendFacts
  <2>4. Adds(G)
    <3>1. fpipe' \in [Inputs -> Seq(Msgs)]
      BY <1>3, <2>3
    <3>2. live' = live \cup UNION {G[i] : i \in Inputs}
      BY <1>3, <2>2
    <3>3. QED
      BY <2>3, <3>1, <3>2 DEF Adds
  <2>5. MayAdd(G)
    <3>1. \A i \in Inputs : \A s \in 0 .. MaxPeriodic - 1 : Periodic(i, s) \in G[i] => s < periods'
      <4>1. \A i, s : Periodic(i, s) = Periodic(i, periods) => s = periods
        BY DEF Periodic
      <4>2. QED
        BY <1>1, <1>3, <2>2, <4>1
    <3>2. \A m \in live' : m \in live \/ Type(m) = "periodic"
      BY <1>3, <2>1
    <3>3. \A i \in Inputs : Type(Term(i, 2)) = "term"
      BY DEF Term, Type
    <3>4. periods' >= periods
      BY <1>1, <1>3
    <3>5. cpc' = "run" /\ termSent' = 0 => state' = "running" /\ \A m \in live' : Type(m) \notin {"term", "stray"}
      BY <1>3, <3>2 DEF FreshInv
    <3>6. cpc' = "run" /\ state' = "running" => \A i \in Inputs : Term(i, 2) \notin live'
      BY <1>3, <3>2, <3>3 DEF FreshInv
    <3>7. QED
      BY <2>1, <2>2, <3>1, <3>4, <3>5, <3>6 DEF MayAdd
  <2>6. NumbersInv'
    BY <1>1, <1>3 DEF NumbersInv
  <2>7. QED
    BY <2>4, <2>5, <2>6, Sent
<1>4. ASSUME termSent = 0, NEW k \in 0 .. NIn - 1, periods' = periods,
             TerminationSend([i \in Inputs |-> IF i <= k THEN Append(fpipe[i], Stray(i, periods)) ELSE fpipe[i]])
      PROVE  IInv'
  <2> DEFINE pipes == [i \in Inputs |-> IF i <= k THEN Append(fpipe[i], Stray(i, periods)) ELSE fpipe[i]]
             E == [i \in Inputs |-> IF i <= k THEN {Stray(i, periods)} ELSE {}]
  <2>1. state = "running" /\ \A m \in live : Type(m) # "stray"
    BY <1>4 DEF FreshInv
  <2>2. \A i \in Inputs : Stray(i, periods) \in Msgs /\ Type(Stray(i, periods)) = "stray" /\ Stray(i, periods)[2] = i
    <3>1. \A i \in Inputs : Type(Stray(i, periods)) = "stray" /\ Stray(i, periods)[2] = i
      BY DEF Stray, Type
    <3>2. QED
      BY <1>1, <3>1, MsgFacts
  <2>3. ASSUME NEW i \in Inputs
        PROVE  /\ pipes[i] \in Seq(Msgs) /\ ToSet(pipes[i]) = ToSet(fpipe[i]) \cup E[i] /\ IsInjective(pipes[i])
               /\ \A m \in E[i] : Type(m) = "stray" /\ m[2] = i /\ m \notin live
               /\ E[i] \in SUBSET Msgs
    <3>1. CASE i <= k
      <4>1. pipes[i] = Append(fpipe[i], Stray(i, periods)) /\ E[i] = {Stray(i, periods)} /\ fpipe[i] \in Seq(Msgs)
        BY <1>1, <3>1
      <4>2. Stray(i, periods) \notin ToSet(fpipe[i]) /\ Stray(i, periods) \notin live
        BY <1>2, <2>1, <2>2
      <4> HIDE DEF pipes, E
      <4>3. QED
        BY <1>1, <2>2, <4>1, <4>2, AppendFacts
    <3>2. CASE ~(i <= k)
      BY <1>1, <3>2
    <3>3. QED
      BY <3>1, <3>2
  <2>4. pipes \in [Inputs -> Seq(Msgs)] /\ E \in [Inputs -> SUBSET Msgs] /\ TerminationSend(pipes)
    BY <1>4, <2>3
  <2> HIDE DEF pipes, E
  <2>5. state' \in {"running", "stop_slow", "stop_fast"}
    BY <2>1
  <2>6. QED
    BY <1>4, <2>1, <2>3, <2>4, <2>5, TermSent
<1>5. ASSUME termSent # 0, Asserts, UNCHANGED periods,
             NEW k \in 0 .. NIn - 1,
             TerminationSend([i \in Inputs |-> IF i <= k THEN Append(fpipe[i], Stray(i, periods)) ELSE fpipe[i]])
      PROVE  IInv'
  <2>1. cpc' = "abort" /\ UNCHANGED <<fpipe, live, termSent>>
    BY <1>5 DEF TerminationSend
  <2>2. NumbersInv'
    BY <1>5, <2>1 DEF NumbersInv
  <2>3. QED
    BY <1>5, <2>1, <2>2, NotSent
<1>6. CASE /\ AllocFails /\ (termSent = 0 \/ Asserts)
           /\ \E k \in 0 .. NIn - 1 :
                 TerminationSend([i \in Inputs |-> IF i <= k THEN Append(fpipe[i], Stray(i, periods)) ELSE fpipe[i]])
           /\ UNCHANGED periods
  BY <1>4, <1>5, <1>6
<1>7. QED
  BY <1>3, <1>6 DEF PeriodicSend

\* What the configurator disables are instances.
LEMMA InitialFacts ==
    /\ [i \in Inputs |-> In(i)] \in Seq(Nodes) /\ [i \in Inputs |-> Parser(i)] \in Seq(Nodes)
    /\ [o \in Outputs |-> Out(o)] \in Seq(Nodes)
    /\ \A to \in 0 .. NInter + 1 : [k \in 1 .. to |-> Inter(k)] \in Seq(Nodes)
<1>1. /\ \A i \in Inputs : In(i) \in Nodes /\ Parser(i) \in Nodes
      /\ \A o \in Outputs : Out(o) \in Nodes
      /\ \A k \in 1 .. NInter + 1 : Inter(k) \in Nodes
  BY NodeFacts DEF Nodes, Readers, Movers
<1>2. NIn \in Nat /\ NOut \in Nat /\ NInter \in Nat
  BY SizesAssumption
<1>3. [i \in Inputs |-> In(i)] \in Seq(Nodes) /\ [i \in Inputs |-> Parser(i)] \in Seq(Nodes)
  BY <1>1, <1>2, IsASeq DEF Inputs
<1>4. [o \in Outputs |-> Out(o)] \in Seq(Nodes)
  BY <1>1, <1>2, IsASeq DEF Outputs
<1>5. ASSUME NEW to \in 0 .. NInter + 1 PROVE [k \in 1 .. to |-> Inter(k)] \in Seq(Nodes)
  <2>1. to \in Nat /\ \A k \in 1 .. to : Inter(k) \in Nodes
    BY <1>1, <1>2
  <2>2. QED
    BY <2>1, IsASeq
<1>6. QED
  BY <1>3, <1>4, <1>5

LEMMA StopAllFacts == StopAll \in Seq(Nodes)
<1>1. NIn \in Nat /\ NInter + 1 \in 0 .. NInter + 1 /\ 2 * NIn \in Nat
  BY SizesAssumption
<1>2. \A k \in 1 .. 2 * NIn : (IF k % 2 = 1 THEN In((k + 1) \div 2) ELSE Parser(k \div 2)) \in Nodes
  <2>1. ASSUME NEW k \in 1 .. 2 * NIn
        PROVE  (IF k % 2 = 1 THEN In((k + 1) \div 2) ELSE Parser(k \div 2)) \in Nodes
    <3>1. k % 2 = 1 => (k + 1) \div 2 \in Inputs
      BY <1>1, <2>1 DEF Inputs
    <3>2. k % 2 # 1 => k \div 2 \in Inputs
      BY <1>1, <2>1 DEF Inputs
    <3>3. \A i \in Inputs : In(i) \in Nodes /\ Parser(i) \in Nodes
      BY NodeFacts DEF Nodes, Readers, Movers
    <3>4. QED
      BY <3>1, <3>2, <3>3
  <2>2. QED
    BY <2>1
<1>3. [k \in 1 .. 2 * NIn |-> IF k % 2 = 1 THEN In((k + 1) \div 2) ELSE Parser(k \div 2)] \in Seq(Nodes)
  BY <1>1, <1>2, IsASeq
<1>4. PICK s \in Seq(Nodes) : s = [k \in 1 .. 2 * NIn |-> IF k % 2 = 1 THEN In((k + 1) \div 2) ELSE Parser(k \div 2)]
  BY <1>3
<1>5. PICK t \in Seq(Nodes) : t = [k \in 1 .. NInter + 1 |-> Inter(k)]
  BY <1>1, InitialFacts
<1>6. PICK u \in Seq(Nodes) : u = [o \in Outputs |-> Out(o)]
  BY InitialFacts
<1>7. s \o t \o u \in Seq(Nodes)
  OBVIOUS
<1>8. QED
  BY <1>4, <1>5, <1>6, <1>7 DEF StopAll

LEMMA StopPartlyFacts == ASSUME NEW n \in Nodes \cup {NoMsg} PROVE StopPartly(n) \in Seq(Nodes)
<1>1. PICK s \in Seq(Nodes) : s = [i \in Inputs |-> In(i)]
  BY InitialFacts
<1>2. PICK t \in Seq(Nodes) : t = [i \in Inputs |-> Parser(i)]
  BY InitialFacts
<1>3. PICK u \in Seq(Nodes) : u = [o \in Outputs |-> Out(o)]
  BY InitialFacts
<1>4. NInter + 1 \in 0 .. NInter + 1
  BY SizesAssumption
<1>5. PICK v \in Seq(Nodes) : v = [k \in 1 .. NInter + 1 |-> Inter(k)]
  BY <1>4, InitialFacts
<1>6. n \in Inters => [k \in 1 .. n[2] |-> Inter(k)] \in Seq(Nodes)
  <2>1. n \in Inters => n[2] \in 0 .. NInter + 1
    BY NodeFacts, SizesAssumption
  <2>2. QED
    BY <2>1, InitialFacts
<1>7. s \o t \in Seq(Nodes) /\ s \o t \o v \o u \in Seq(Nodes) /\ <<>> \in Seq(Nodes)
      /\ \A w \in Seq(Nodes) : s \o t \o w \in Seq(Nodes)
  OBVIOUS
<1>8. n = NoMsg \/ n \in InNodes \/ n \in Parsers \/ n \in Inters \/ n \in OutNodes
  BY DEF Nodes, Readers, Movers
<1>9. /\ n = NoMsg => n \notin Nodes
      /\ n \in InNodes => n \notin Parsers /\ n \notin Inters /\ n \notin OutNodes /\ n # NoMsg
      /\ n \in Parsers => n \notin Inters /\ n \notin OutNodes /\ n # NoMsg
      /\ n \in Inters => n \notin OutNodes /\ n # NoMsg
      /\ n \in OutNodes => n # NoMsg
  BY NodeFacts DEF Nodes, Readers, Movers
<1>10. CASE n = NoMsg
  <2>1. StopPartly(n) = <<>>
    BY <1>9, <1>10, Zenon DEF StopPartly, Nodes, Readers, Movers
  <2>2. QED
    BY <1>7, <2>1
<1>11. CASE n \in InNodes
  <2>1. StopPartly(n) = s
    BY <1>1, <1>9, <1>11, Zenon DEF StopPartly
  <2>2. QED
    BY <2>1
<1>12. CASE n \in Parsers
  <2>1. StopPartly(n) = s \o t
    BY <1>1, <1>2, <1>9, <1>12, Zenon DEF StopPartly
  <2>2. QED
    BY <1>7, <2>1
<1>13. CASE n \in Inters
  <2>1. StopPartly(n) = s \o t \o [k \in 1 .. n[2] |-> Inter(k)]
    BY <1>1, <1>2, <1>9, <1>13, Zenon DEF StopPartly
  <2>2. QED
    BY <1>6, <1>7, <1>13, <2>1
<1>14. CASE n \in OutNodes
  <2>1. StopPartly(n) = s \o t \o v \o u
    BY <1>1, <1>2, <1>3, <1>5, <1>9, <1>14, Zenon DEF StopPartly
  <2>2. QED
    BY <1>7, <2>1
<1>15. QED
  BY <1>8, <1>10, <1>11, <1>12, <1>13, <1>14

LEMMA ReceiveStep ==
    ASSUME IInv, Receive
    PROVE  IInv'
<1> DEFINE tick == IF periods < MaxPeriodic THEN <<<<"periodic", NoMsg>>>> ELSE <<>>
<1>1. PICK queue \in Seq(Requests) : queue = cpipe \o tick
  <2>1. cpipe \in Seq(Requests) /\ <<"periodic", NoMsg>> \in Requests
    BY DEF IInv, CustodyInv, PipesInv, Requests
  <2>2. tick \in Seq(Requests)
    BY <2>1
  <2>3. QED
    BY <2>1, <2>2, ConcatProperties
<1> HIDE DEF tick
<1>2. /\ cpc = "run" /\ stops = <<>> /\ queue # <<>> /\ cpipe' = Tail(queue)
      /\ UNCHANGED <<ring, pc, cur, out, rc, termCnt, waiting, made, open, knows, refs, seen, processing, signals>>
  BY <1>1 DEF Receive, threads, tick
<1>3. PICK req \in Requests : req = Head(queue)
  BY <1>2, TailFacts
<1>4. cpipe' \in Seq(Requests)
  BY <1>2, TailFacts
<1>5. req[1] \in {"slow", "fast", "done", "periodic"} /\ req[2] \in Nodes \cup {NoMsg}
  BY DEF Requests
<1>6. stops \in Seq(Nodes) /\ fpipe \in [Inputs -> Seq(Msgs)]
  BY DEF IInv, CustodyInv, PipesInv
<1>7. CASE req[1] = "periodic"
  <2>1. /\ IF periods < MaxPeriodic THEN PeriodicSend ELSE UNCHANGED <<fpipe, live, termSent, periods, cpc>>
        /\ UNCHANGED <<state, stops>>
    BY <1>1, <1>3, <1>7 DEF Receive, tick
  <2>2. CASE periods < MaxPeriodic
    BY <1>2, <1>4, <1>6, <2>1, <2>2, PeriodicStep
  <2>3. CASE ~(periods < MaxPeriodic)
    <3>1. NumbersInv'
      BY <1>2, <2>1, <2>3 DEF IInv, NumbersInv
    <3>2. QED
      BY <1>2, <1>4, <1>6, <2>1, <2>3, <3>1, NotSent
  <2>4. QED
    BY <2>2, <2>3
<1>8. CASE req[1] = "done"
  <2>1. HandleDone /\ UNCHANGED periods
    BY <1>1, <1>3, <1>8 DEF Receive, tick
  <2>2. /\ UNCHANGED <<fpipe, live, state, stops, periods>>
        /\ termSent' = IF state = "running" \/ termSent = 0 THEN termSent ELSE termSent - 1
        /\ cpc' \in {"run", "join", "abort"}
        /\ cpc' = "run" /\ state # "running" => termSent # 0 /\ termSent # 1
    BY <2>1 DEF HandleDone, LastDone
  <2>3. NumbersInv' /\ (cpc' = "run" /\ termSent' = 0 => termSent = 0)
    <3>1. termSent \in 0 .. NIn /\ NIn \in Nat
      BY SizesAssumption DEF IInv, NumbersInv
    <3>2. NumbersInv'
      BY <1>2, <2>2, <3>1 DEF IInv, NumbersInv
    <3>3. QED
      BY <2>2, <3>1, <3>2
  <2>4. QED
    BY <1>2, <1>4, <1>6, <2>2, <2>3, NotSent
<1>9. CASE req[1] \in {"slow", "fast"}
  <2>1. HandleRequest(req[1], req[2]) /\ UNCHANGED periods
    BY <1>1, <1>3, <1>9 DEF Receive, tick
  <2>2. stops' \in Seq(Nodes)
    <3>1. stops' = <<>> \/ stops' = StopAll \/ stops' = StopPartly(req[2])
      BY <2>1 DEF HandleRequest
    <3>2. <<>> \in Seq(Nodes) /\ StopAll \in Seq(Nodes) /\ StopPartly(req[2]) \in Seq(Nodes)
      BY <1>5, StopAllFacts, StopPartlyFacts
    <3>3. QED
      BY <3>1, <3>2
  <2>3. state' \in {"stop_slow", "stop_fast"}
    BY <2>1 DEF HandleRequest, NextState
  <2>4. CASE state = "running"
    <3>1. TerminationSend(fpipe)
      BY <2>1, <2>4 DEF HandleRequest
    <3>2. /\ Nothing \in [Inputs -> SUBSET Msgs] /\ \A i \in Inputs : Nothing[i] = {}
          /\ \A i \in Inputs : IsInjective(fpipe[i])
      BY DEF Nothing, IInv, CustodyInv, OnceInv
    <3>3. QED
      BY <1>2, <1>4, <1>6, <2>1, <2>2, <2>3, <2>4, <3>1, <3>2, TermSent
  <2>5. CASE state # "running"
    <3>1. UNCHANGED <<fpipe, live, termSent, cpc>>
      BY <2>1, <2>5 DEF HandleRequest
    <3>2. NumbersInv'
      BY <1>2, <2>1, <2>3, <3>1 DEF IInv, NumbersInv
    <3>3. termSent # 0
      BY <1>2, <2>5 DEF IInv, FreshInv
    <3>4. QED
      BY <1>2, <1>4, <2>1, <2>2, <2>3, <2>5, <3>1, <3>2, <3>3, NotSent
  <2>6. QED
    BY <2>4, <2>5
<1>10. QED
  BY <1>5, <1>7, <1>8, <1>9

LEMMA StopNextStep ==
    ASSUME IInv, StopNext
    PROVE  IInv'
<1>1. /\ stops # <<>> /\ stops' = Tail(stops) /\ processing' = [processing EXCEPT ![Head(stops)] = FALSE]
      /\ UNCHANGED <<ring, pc, cur, out, rc, termCnt, waiting, made, open, knows, refs, seen, state, termSent,
                     periods, cpc, fpipe, cpipe, signals, live>>
  BY DEF StopNext, threads
<1>2. stops' \in Seq(Nodes) /\ cpipe' \in Seq(Requests)
  BY <1>1, TailFacts DEF IInv, CustodyInv, PipesInv
<1>3. NumbersInv'
  BY <1>1 DEF IInv, NumbersInv
<1>4. QED
  BY <1>1, <1>2, <1>3, NotSent

LEMMA SignalStep ==
    ASSUME IInv, Signal
    PROVE  IInv'
<1>1. PICK type \in {"slow", "fast"} : cpipe' = Append(cpipe, <<type, NoMsg>>)
  BY DEF Signal
<1>2. /\ signals < MaxSignals /\ signals' = signals + 1
      /\ UNCHANGED <<ring, pc, cur, out, rc, termCnt, waiting, made, open, knows, refs, seen, processing, state,
                     termSent, stops, periods, cpc, fpipe, live>>
  BY DEF Signal, threads, config
<1>3. cpipe' \in Seq(Requests) /\ stops' \in Seq(Nodes)
  <2>1. <<type, NoMsg>> \in Requests /\ cpipe \in Seq(Requests) /\ stops \in Seq(Nodes)
    BY DEF IInv, CustodyInv, PipesInv, Requests
  <2>2. QED
    BY <1>1, <1>2, <2>1, AppendFacts
<1>4. NumbersInv'
  <2>1. MaxSignals \in 0 .. 2 /\ signals \in 0 .. MaxSignals
    BY SizesAssumption DEF IInv, NumbersInv
  <2>2. signals' \in 0 .. MaxSignals
    BY <1>2, <2>1
  <2>3. QED
    BY <1>2, <2>2 DEF IInv, NumbersInv
<1>5. QED
  BY <1>2, <1>3, <1>4, NotSent

LEMMA CleanupStep ==
    ASSUME IInv, Cleanup
    PROVE  IInv'
<1> USE DEF IInv, CustodyInv
<1>1. /\ live' = live \ UNION {ToSet(fpipe[i]) : i \in Inputs}
      /\ fpipe' = [i \in Inputs |-> <<>>] /\ cpc' = "done"
      /\ UNCHANGED <<ring, pc, cur, out, rc, termCnt, waiting, made, open, knows, refs, seen, processing, state,
                     termSent, stops, periods, cpipe, signals>>
  BY DEF Cleanup, threads
<1>2. ThreadInv' /\ \A k \in Nodes : Holding(k)' = Holding(k) /\ ToPush(k)' = ToPush(k) /\ InRing(k)' = InRing(k)
  BY <1>1 DEF ThreadInv, Holding, ToPush, InRing
<1>3. \A i \in Inputs : fpipe'[i] = <<>> /\ ToSet(fpipe'[i]) = {} /\ fpipe'[i] \in Seq(Msgs) /\ IsInjective(fpipe'[i])
  BY <1>1, EmptyFacts
<1>4. PipesInv' /\ OnceInv'
  <2>1. fpipe' \in [Inputs -> Seq(Msgs)]
    BY <1>1, <1>3
  <2>2. QED
    BY <1>1, <1>3, <2>1 DEF PipesInv, OnceInv
<1>5. ASSUME NEW r \in Places PROVE At(r)' = IF r[1] = "pipe" THEN {} ELSE At(r)
  <2>1. r[1] \in {"pipe", "ring", "hand", "out"} /\ r[2] \in Nodes /\ (r[2] \in InNodes => r[2][2] \in Inputs)
    BY PlaceFacts, NodeFacts
  <2>2. QED
    BY <1>2, <1>3, <2>1 DEF At
<1>6. \A r \in Places : r[1] = "pipe" /\ At(r) # {} => r[2] \in InNodes
  BY DEF At
<1>7. live' = live \ UNION {At(r) : r \in {t \in Places : t[1] = "pipe"}}
  <2>1. ASSUME NEW i \in Inputs PROVE <<"pipe", In(i)>> \in Places /\ At(<<"pipe", In(i)>>) = ToSet(fpipe[i])
    BY NodeFacts, PlaceFacts DEF Nodes, At
  <2>2. ASSUME NEW r \in Places, r[1] = "pipe", r[2] \in InNodes
        PROVE  r[2][2] \in Inputs /\ At(r) = ToSet(fpipe[r[2][2]])
    BY <2>2, NodeFacts DEF At
  <2>3. \A m : (\E i \in Inputs : m \in ToSet(fpipe[i])) <=> \E r \in Places : r[1] = "pipe" /\ m \in At(r)
    BY <1>6, <2>1, <2>2
  <2>4. QED
    BY <1>1, <2>3
<1>8. UniqueInv' /\ LiveInv' /\ RefsInv'
  BY <1>1, <1>5, <1>6, <1>7, Emptied
<1>9. OriginInv'
  BY <1>5 DEF OriginInv
<1>10. FreshInv'
  <2>1. \A i \in Inputs : \A p \in BehindParser(i) : p \in Places /\ p[1] # "pipe"
    BY BehindFacts
  <2>2. \A i \in Inputs : \A p \in BehindParser(i) : At(p)' = At(p)
    BY <1>5, <2>1
  <2>3. \A i \in Inputs : Terminating(Parser(i)) => Terminating(Parser(i))'
    BY <1>1 DEF Terminating
  <2>4. QED
    BY <1>1, <2>2, <2>3, FreshKept
<1>11. NumbersInv'
  BY <1>1 DEF NumbersInv
<1>12. QED
  BY <1>2, <1>4, <1>8, <1>9, <1>10, <1>11

-----------------------------------------------------------------------------
(* The invariant of the specification.                                       *)

LEMMA InitInv == Init => IInv
<1>1. SUFFICES ASSUME Init PROVE IInv
  OBVIOUS
<1>2. /\ ring = [n \in Readers |-> <<>>] /\ processing = [n \in Nodes |-> TRUE] /\ pc = [n \in Nodes |-> "loop"]
      /\ cur = [n \in Nodes |-> NoMsg] /\ out = [n \in Nodes |-> <<>>] /\ rc = [n \in Nodes |-> "ok"]
      /\ termCnt = NIn /\ waiting = [n \in Movers |-> 0] /\ made = [i \in Inputs |-> 0]
      /\ open = [i \in Inputs |-> TRUE] /\ knows = [i \in Inputs |-> FALSE] /\ fpipe = [i \in Inputs |-> <<>>]
      /\ cpipe = <<>> /\ state = "running" /\ termSent = 0 /\ stops = <<>> /\ periods = 0 /\ cpc = "run"
      /\ signals = 0 /\ live = {} /\ refs = [m \in Msgs |-> 0]
  BY <1>1 DEF Init
<1>3. \A S : <<>> \in Seq(S) /\ ToSet(<<>>) = {} /\ IsInjective(<<>>) /\ Len(<<>>) = 0 /\ DOMAIN <<>> = {}
  BY EmptyFacts
<1>4. ThreadInv
  <2>1. \A n \in Nodes : "loop" \in States(n)
    BY DEF States, InputStates, MoverStates, OutStates
  <2>2. \A n \in Nodes : Targets(n, NoMsg, <<>>)
    BY <1>3 DEF Targets
  <2>3. out \in [Nodes -> Seq(Readers \X Msgs)]
    BY <1>2, <1>3
  <2>4. QED
    BY <1>2, <2>1, <2>2, <2>3 DEF ThreadInv, RetCodes, InputStates
<1>5. PipesInv
  <2>1. ring \in [Readers -> Seq(Msgs)] /\ fpipe \in [Inputs -> Seq(Msgs)]
    BY <1>2, <1>3
  <2>2. cpipe \in Seq(Requests) /\ stops \in Seq(Nodes)
    BY <1>2, <1>3
  <2>3. \A n \in Readers : Len(ring[n]) <= RingSize
    BY <1>2, <1>3, SizesAssumption
  <2>4. \A i \in Inputs : ToSet(fpipe[i]) = {}
    BY <1>2, <1>3
  <2>5. QED
    BY <2>1, <2>2, <2>3, <2>4 DEF PipesInv
<1>6. OnceInv
  <2>1. \A n \in Readers : n \in Nodes
    BY DEF Nodes
  <2>2. QED
    BY <1>2, <1>3, <2>1 DEF OnceInv
<1>7. ASSUME NEW p \in Places PROVE At(p) = {}
  <2>1. p[2] \in Nodes /\ Mgr \in Nodes /\ (p[2] \in InNodes => p[2][2] \in Inputs)
    BY PlaceFacts, NodeFacts, SuccFacts DEF Nodes, Readers, Movers
  <2>2. Pushed(<<>>) = {} /\ Toward(p[2], <<>>) = {}
    BY <1>3 DEF Pushed, Toward
  <2>3. ToPush(p[2]) = {} /\ InRing(p[2]) = {} /\ Holding(p[2]) = {}
    <3>1. ToPush(p[2]) = {}
      BY <1>2, <2>1, <2>2 DEF ToPush
    <3>2. InRing(p[2]) = {}
      BY <1>2, <1>3 DEF InRing
    <3>3. Holding(p[2]) = {}
      BY <1>2, <2>1 DEF Holding
    <3>4. QED
      BY <3>1, <3>2, <3>3
  <2>4. p[2] \in InNodes => ToSet(fpipe[p[2][2]]) = {}
    BY <1>2, <1>3, <2>1
  <2>5. QED
    BY <2>3, <2>4 DEF At
<1>8. UniqueInv /\ LiveInv /\ OriginInv
  <2>1. live \subseteq Msgs
    BY <1>2
  <2>2. QED
    BY <1>2, <1>7, <2>1 DEF UniqueInv, LiveInv, OriginInv
<1>9. RefsInv
  <2>1. \A m \in Msgs : Users(m) = {}
    BY <1>7 DEF Users
  <2>2. Cardinality({}) = 0
    BY FS_EmptySet
  <2>3. QED
    BY <1>2, <2>1, <2>2 DEF RefsInv
<1>10. NumbersInv
  BY <1>2, SizesAssumption DEF NumbersInv
<1>11. FreshInv
  BY <1>2 DEF FreshInv
<1>12. QED
  BY <1>4, <1>5, <1>6, <1>8, <1>9, <1>10, <1>11 DEF IInv, CustodyInv

LEMMA StutterStep ==
    ASSUME IInv, UNCHANGED vars
    PROVE  IInv'
<1>1. UNCHANGED <<ring, pc, cur, out, rc, termCnt, waiting, made, open, knows, refs, seen, processing, state, termSent,
                  stops, periods, cpc, fpipe, cpipe, signals, live>>
  BY DEF vars, threads, config
<1>2. cpipe' \in Seq(Requests) /\ stops' \in Seq(Nodes) /\ NumbersInv'
  BY <1>1 DEF IInv, CustodyInv, PipesInv, NumbersInv
<1>3. QED
  BY <1>1, <1>2, NotSent

LEMMA NextInv == IInv /\ [Next]_vars => IInv'
<1>1. SUFFICES ASSUME IInv, [Next]_vars PROVE IInv'
  OBVIOUS
<1>2. ASSUME NEW i \in Inputs, InputThread(i) PROVE IInv'
  <2>1. In(i) \in InNodes
    BY NodeFacts
  <2>2. CASE InputPipe(i)
    BY <1>1, <2>2, InputPipeStep
  <2>3. CASE InputGet(i)
    BY <1>1, <2>3, InputGetStep
  <2>4. CASE InputSkip(i)
    BY <1>1, <2>4, SkipStep
  <2>5. CASE PushOne(In(i))
    BY <1>1, <2>1, <2>5, PushOneStep
  <2>6. CASE HandleCode(In(i))
    BY <1>1, <2>1, <2>6, HandleStep
  <2>7. QED
    BY <1>2, <2>2, <2>3, <2>4, <2>5, <2>6 DEF InputThread
<1>3. ASSUME NEW n \in Movers, MoverThread(n) PROVE IInv'
  <2>1. CASE MoverPop(n)
    BY <1>1, <2>1, PopStep
  <2>2. CASE MoverPass(n)
    BY <1>1, <2>2, MoverPassStep
  <2>3. CASE MoverTerm(n)
    BY <1>1, <2>3, TermStep
  <2>4. CASE PushOne(n)
    BY <1>1, <2>4, PushOneStep
  <2>5. CASE HandleCode(n)
    BY <1>1, <2>5, HandleStep
  <2>6. CASE n \in Parsers /\ ParserProcess(n[2])
    <3>1. n[2] \in Inputs
      BY <2>6, NodeFacts
    <3>2. QED
      BY <1>1, <2>6, <3>1, ParserStep
  <2>7. CASE InterProcess(n)
    BY <1>1, <2>7, InterStep
  <2>8. CASE ManagerProcess
    BY <1>1, <2>8, ManagerStep
  <2>9. QED
    BY <1>3, <2>1, <2>2, <2>3, <2>4, <2>5, <2>6, <2>7, <2>8 DEF MoverThread
<1>4. ASSUME NEW n \in OutNodes, OutThread(n) PROVE IInv'
  BY <1>1, <1>4, OutPopStep, OutReleaseStep, OutDestroyStep DEF OutThread
<1>5. ASSUME Configurator PROVE IInv'
  BY <1>1, <1>5, ReceiveStep, StopNextStep, CleanupStep DEF Configurator
<1>6. CASE Idle \/ UNCHANGED vars
  BY <1>1, <1>6, StutterStep DEF Idle
<1>7. QED
  BY <1>1, <1>2, <1>3, <1>4, <1>5, <1>6, SignalStep DEF Next

\* The inductive invariant holds in every state.
THEOREM Custody == Spec => []IInv
BY InitInv, NextInv, PTL DEF Spec

-----------------------------------------------------------------------------
(* What it gives.                                                            *)

\* What threads hold and will receive is somewhere.
LEMMA FlightFacts ==
    ASSUME IInv
    PROVE  \A n \in Nodes : Holding(n) \subseteq live /\ InRing(n) \subseteq live
                            /\ (n # Mgr => Pending(n) \subseteq live)
<1>1. \A p \in Places : At(p) \subseteq live
  BY DEF IInv, CustodyInv, LiveInv
<1>2. ASSUME NEW n \in Nodes
      PROVE  Holding(n) \subseteq live /\ InRing(n) \subseteq live /\ (n # Mgr => Pending(n) \subseteq live)
  <2>1. <<"ring", n>> \in Places /\ <<"hand", n>> \in Places /\ <<"out", n>> \in Places
    BY PlaceFacts
  <2>2. At(<<"ring", n>>) = InRing(n) /\ At(<<"hand", n>>) = Holding(n) /\ At(<<"out", n>>) = ToPush(n)
    BY DEF At
  <2>3. ASSUME n # Mgr PROVE Pending(n) \subseteq live
    <3>1. CASE n \in OutNodes
      <4>1. n \notin InNodes /\ n \notin Movers
        BY <3>1, NodeFacts DEF Readers, Movers
      <4>2. pc[n] # "push" /\ (out[n] # <<>> <=> pc[n] = "push")
        BY <4>1 DEF IInv, CustodyInv, ThreadInv, States, OutStates
      <4>3. out[n] = <<>>
        BY <4>2
      <4>4. QED
        BY <4>3 DEF Pending
    <3>2. CASE n \notin OutNodes
      <4>1. ToPush(n) = Pending(n)
        BY <2>3, <3>2 DEF ToPush, Pushed, Pending
      <4>2. QED
        BY <1>1, <2>1, <2>2, <4>1
    <3>3. QED
      BY <3>1, <3>2
  <2>4. QED
    BY <1>1, <2>1, <2>2, <2>3
<1>3. QED
  BY <1>2

LEMMA NoUse == IInv => NoUseAfterFree
<1>1. SUFFICES ASSUME IInv PROVE NoUseAfterFree
  OBVIOUS
<1>2. Pending(Mgr) \subseteq live
  <2>1. SUFFICES ASSUME NEW k \in DOMAIN out[Mgr] PROVE out[Mgr][k][2] \in live
    BY DEF Pending
  <2>2. Mgr \in Nodes
    BY SuccFacts DEF Nodes, Readers, Movers
  <2>3. out[Mgr] \in Seq(Readers \X Msgs) /\ Targets(Mgr, cur[Mgr], out[Mgr])
    BY <1>1, <2>2 DEF IInv, CustodyInv, ThreadInv
  <2>4. out[Mgr][k] \in Readers \X Msgs /\ out[Mgr][k][1] \in OutNodes
    BY <2>1, <2>3 DEF Targets
  <2> DEFINE n == out[Mgr][k][1]
             m == out[Mgr][k][2]
  <2>5. out[Mgr][k] = <<n, m>> /\ m \in Msgs /\ n \in Nodes
    BY <2>4 DEF Nodes
  <2>6. m \in At(<<"out", n>>)
    BY <2>1, <2>4, <2>5 DEF At, ToPush, Toward
  <2>7. <<"out", n>> \in Places
    BY <2>5, PlaceFacts
  <2>8. QED
    BY <1>1, <2>6, <2>7 DEF IInv, CustodyInv, LiveInv
<1>3. QED
  BY <1>1, <1>2, FlightFacts DEF NoUseAfterFree, InFlight

(* Nobody holds, or will receive, a message that has been destroyed: whatever *)
(* the plugins return and whenever the collector is told to end, thread_output*)
(* and ipx_msg_header_cnt_dec leave the last release to the last user.       *)
THEOREM UseIsSafe == Spec => []NoUseAfterFree
BY Custody, NoUse, PTL

LEMMA TypesHold == IInv => TypeOK
<1>1. SUFFICES ASSUME IInv PROVE TypeOK
  OBVIOUS
<1> USE <1>1 DEF IInv, CustodyInv
<1>2. ring \in [Readers -> BoundedSeq(Msgs, RingSize)]
  <2>1. ASSUME NEW n \in Readers PROVE ring[n] \in BoundedSeq(Msgs, RingSize)
    <3>1. ring[n] \in Seq(Msgs) /\ Len(ring[n]) <= RingSize /\ RingSize \in Nat
      BY SizesAssumption DEF PipesInv
    <3>2. Len(ring[n]) \in 0 .. RingSize /\ ring[n] \in [1 .. Len(ring[n]) -> Msgs]
      BY <3>1
    <3>3. QED
      BY <3>2 DEF BoundedSeq, SeqOf
  <2>2. QED
    BY <2>1 DEF PipesInv
<1>3. /\ pc \in [Nodes -> {"loop", "get", "decide", "push", "handle", "release", "destroy", "exit"}]
      /\ cur \in [Nodes -> Msgs \cup {NoMsg}] /\ rc \in [Nodes -> {"ok", "slow", "fast"}]
  BY DEF ThreadInv, InputStates, MoverStates, OutStates, RetCodes
<1>4. \A n \in Nodes : \A k \in DOMAIN out[n] : out[n][k] \in Readers \X Msgs
  <2>1. \A n \in Nodes : out[n] \in Seq(Readers \X Msgs)
    BY DEF ThreadInv
  <2>2. \A ps \in Seq(Readers \X Msgs) : \A k \in DOMAIN ps : ps[k] \in Readers \X Msgs
    OBVIOUS
  <2>3. QED
    BY <2>1, <2>2
<1>5. \A i \in Inputs : ToSet(fpipe[i]) \subseteq Msgs
  <2>1. \A i \in Inputs : fpipe[i] \in Seq(Msgs)
    BY DEF PipesInv
  <2>2. \A s \in Seq(Msgs) : ToSet(s) \subseteq Msgs
    BY DEF ToSet
  <2>3. QED
    BY <2>1, <2>2
<1>6. ToSet(stops) \subseteq Nodes
  BY DEF PipesInv, ToSet
<1>7. live \subseteq Msgs
  BY DEF LiveInv
<1>8. refs \in [Msgs -> 0 .. NOut]
  <2>1. ASSUME NEW m \in Msgs PROVE refs[m] \in 0 .. NOut
    <3>1. Users(m) \subseteq 1 .. NOut /\ NOut \in Nat /\ 1 \in Nat
      BY SizesAssumption DEF Users, Outputs
    <3>2. IsFiniteSet(1 .. NOut) /\ Cardinality(1 .. NOut) = NOut
      <4>1. 1 \in Int /\ NOut \in Int
        BY <3>1
      <4>2. IsFiniteSet(1 .. NOut) /\ Cardinality(1 .. NOut) = IF 1 > NOut THEN 0 ELSE NOut - 1 + 1
        BY <4>1, FS_Interval
      <4>3. QED
        BY <4>2, SizesAssumption
    <3>3. Cardinality(Users(m)) \in Nat /\ Cardinality(Users(m)) <= NOut
      BY <3>1, <3>2, FS_Subset, FS_CardinalityType
    <3>4. QED
      BY <3>1, <3>3 DEF RefsInv
  <2>2. QED
    BY <2>1 DEF RefsInv
<1>9. QED
  BY <1>2, <1>3, <1>4, <1>5, <1>6, <1>7, <1>8 DEF TypeOK, NumbersInv

(* Type correctness: among others, the rings keep their size, the reference  *)
(* counter never passes the number of outputs and never falls below zero,    *)
(* and no counter of the threads or of the configurator leaves its range.    *)
THEOREM TypeCorrect == Spec => []TypeOK
BY Custody, TypesHold, PTL
=============================================================================
