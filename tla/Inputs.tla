------------------------------- MODULE Inputs -------------------------------
(* The four inputs that make transport sessions, side by side: UDP, TCP,     *)
(* files of IPFIX messages and FDS files.  What each of them keeps           *)
(* invariant, and proofs that its steps keep it and follow SessionStream,    *)
(* for every number of sessions, sources, connections, files and records,    *)
(* and every size and time.  MCInputs runs them and draws the conclusions.   *)
EXTENDS Naturals, Sequences, FiniteSets, Functions,
        FiniteSetTheorems, WellFoundedInduction, TLAPS

CONSTANTS Sessions,
          Locals, Source, Timeout, MaxTime, MaxCnt, Fails,             \* UDP
          Batch,                                                       \* TCP
          Hdr, BufferSize, FileList,                                   \* IPFIX files
          MsgHdr, SetHdr, MsgSize, MaxSize, Record, FileLen, NumFiles  \* FDS files

VARIABLES
    now, active, udpMade, udpTold, early, checked, udpPc, sockets, descriptors, watched,
    acceptor, command, conns, batch, closing, tcpMade, tcpTold, tcpPc,
    files, fileNext, current, fileSes, buffer, fileMade, fileTold, cuts, filePc,
    fdsFile, fdsRest, taken, unproc, infos, odids, msg, fdsMade, fdsTold, fdsSent, fdsPc

udpVars == <<now, active, udpMade, udpTold, early, checked, udpPc, sockets, descriptors, watched>>
tcpVars == <<acceptor, command, conns, batch, closing, tcpMade, tcpTold, tcpPc>>
fileVars == <<files, fileNext, current, fileSes, buffer, fileMade, fileTold, cuts, filePc>>
fdsVars == <<fdsFile, fdsRest, taken, unproc, infos, odids, msg, fdsMade, fdsTold, fdsSent, fdsPc>>

\* What the modules below expect of their constants.
ASSUME SessionsAssumption == IsFiniteSet(Sessions) /\ Sessions = 1 .. Cardinality(Sessions)
ASSUME LocalsAssumption ==
    /\ Locals \in Seq(Range(Locals)) /\ Locals # <<>>
    /\ Range(Locals) \cap {"epoll", "timer"} = {}
ASSUME UdpAssumption == Timeout \in Nat \ {0} /\ MaxTime \in Nat
ASSUME TcpAssumption == Batch \in Nat \ {0}
ASSUME FileAssumption == \A f \in FileList : \A i \in DOMAIN f.lens : 2 * f.lens[i] <= BufferSize
ASSUME FdsAssumption ==
    MsgSize <= MaxSize /\ \A r \in Record : MsgHdr + SetHdr + r.size <= MaxSize

Udp == INSTANCE UdpInput
Tcp == INSTANCE TcpInput
Ipx == INSTANCE FileInput
Fds == INSTANCE FdsInput

-----------------------------------------------------------------------------
(* What follows from the assumptions.                                        *)

\* What the constants of each input are.
LEMMA FileConstants ==
    Ipx!Cardinality(Sessions) \in Nat /\ Sessions = 1 .. Ipx!Cardinality(Sessions)
<1>1. Ipx!Cardinality(Sessions) = Cardinality(Sessions)
  BY DEF Ipx!Cardinality, Cardinality
<1>2. QED
  BY <1>1, SessionsAssumption, FS_CardinalityType
LEMMA FdsConstants == Sessions \subseteq Nat \ {0}
  BY FileConstants
LEMMA TcpConstants == Sessions \subseteq Nat \ {0} /\ Batch \in Nat \ {0}
  BY FdsConstants, TcpAssumption
LEMMA UdpConstants ==
    /\ Sessions \subseteq Nat \ {0} /\ Timeout \in Nat \ {0}
    /\ Locals \in Seq(Udp!Range(Locals)) /\ Locals # <<>>
<1>1. Udp!Range(Locals) = Range(Locals)
  BY DEF Udp!Range, Range
<1>2. QED
  BY <1>1, FdsConstants, LocalsAssumption, UdpAssumption

\* A set of numbers has a least one.
LEMMA FirstOne == ASSUME NEW I \in SUBSET Nat, I # {} PROVE \E k \in I : \A j \in I : k <= j
<1>1. PICK k \in I : \A j \in I : <<j, k>> \notin OpToRel(<, Nat)
  BY NatLessThanWellFounded, WFMin
<1>2. \A j \in I : ~(j < k)
  BY <1>1 DEF OpToRel
<1>3. QED
  BY <1>2

-----------------------------------------------------------------------------
(* UDP.  The inductive invariant.                                            *)

Entry == [src : Source, ses : Sessions, seen : Nat, cnt : Nat, fresh : BOOLEAN, last : Nat]
UdpType ==
    /\ now \in Nat /\ checked \in Nat /\ checked <= now /\ udpMade \in Nat
    /\ active \in Seq(Entry) /\ udpTold \in [Sessions -> Udp!S!Life]

\* Each entry has a source and a session of its own.
Distinct(act) ==
    \A i, j \in DOMAIN act : i # j => act[i].src # act[j].src /\ act[i].ses # act[j].ses

\* A session that is listed lives, and has been heard of unless it is fresh; one
\* that has been made and is not listed is over.
InStep(e, told) == IF e.fresh THEN told[e.ses] = <<>> ELSE told[e.ses] \in Udp!S!Living
Lists(act, s) == \E i \in DOMAIN act : act[i].ses = s
UdpPlaced(act, told, made) ==
    /\ \A i \in DOMAIN act : act[i].ses <= made /\ InStep(act[i], told)
    /\ \A s \in Sessions : s > made => told[s] = <<>>
    /\ \A s \in Sessions : s <= made /\ ~Lists(act, s) => told[s] \in Udp!S!Over

\* No time is ahead of the clock, a source with messages since the timer aside
\* the last message is not later than what the timer goes by, and no source was
\* silent too long at the last event.
InTime(e, n, c) ==
    /\ e.seen <= n /\ e.last <= n /\ (e.cnt = 0 => e.last <= e.seen)
    /\ e.seen + Timeout >= c \/ e.cnt > 0
Timely(act, n, c) == \A i \in DOMAIN act : InTime(act[i], n, c)

\* What is open at each step of the initialisation.
Listening ==
    /\ udpPc \in {"epoll", "bind", "timer", "up", "refused", "gone"}
    /\ udpPc = "epoll" => sockets = <<>> /\ descriptors = {} /\ watched = {}
    /\ udpPc = "bind" =>
         /\ sockets \in Seq(Udp!Range(Locals)) /\ Len(sockets) < Len(Locals)
         /\ \A i \in DOMAIN sockets : sockets[i] = Locals[i]
         /\ watched = Udp!ToSet(sockets) /\ descriptors = watched \cup {"epoll"}
    /\ udpPc = "timer" => /\ sockets = Locals /\ watched = Udp!ToSet(Locals)
                          /\ descriptors = watched \cup {"epoll"}
    /\ udpPc = "up" => /\ sockets = Locals /\ watched = Udp!ToSet(Locals) \cup {"timer"}
                       /\ descriptors = watched \cup {"epoll"}
    /\ udpPc \in {"refused", "gone"} => descriptors = {} /\ watched = {}
    /\ udpPc # "up" => active = <<>>

UdpInv ==
    /\ UdpType /\ Distinct(active) /\ UdpPlaced(active, udpTold, udpMade)
    /\ Timely(active, now, checked) /\ early = {} /\ Listening

\* A list of sources and its positions.
LEMMA EntryFacts ==
    ASSUME NEW act \in Seq(Entry)
    PROVE  /\ Len(act) \in Nat /\ DOMAIN act = 1 .. Len(act)
           /\ \A i \in DOMAIN act : act[i] \in Entry
  OBVIOUS

\* The start.
LEMMA UdpStarts == Udp!Init => UdpInv
<1>1. Udp!Init => UdpType
  <2>1. SUFFICES ASSUME Udp!Init PROVE UdpType
    OBVIOUS
  <2>2. udpTold = [s \in Sessions |-> <<>>]
    BY <2>1 DEF Udp!Init, Udp!S!Init
  <2>3. <<>> \in Udp!S!Life
    BY DEF Udp!S!Life
  <2>4. udpTold \in [Sessions -> Udp!S!Life]
    BY <2>2, <2>3
  <2>5. QED
    BY <2>1, <2>4 DEF Udp!Init, UdpType
<1>2. Udp!Init => Distinct(active) /\ Timely(active, now, checked) /\ early = {}
  BY DEF Udp!Init, Distinct, Timely
<1>3. Udp!Init => UdpPlaced(active, udpTold, udpMade)
  BY UdpConstants DEF Udp!Init, Udp!S!Init, UdpPlaced, Lists
<1>4. Udp!Init => Listening
  BY DEF Udp!Init, Listening
<1>5. QED
  BY <1>1, <1>2, <1>3, <1>4 DEF UdpInv

\* The listener leaves the sources alone.
LEMMA UdpListens ==
    ASSUME UdpInv, Udp!EpollCreate \/ Udp!ListenerBind \/ Udp!TimerInit
    PROVE  UdpInv' /\ UNCHANGED udpTold
<1>1. UNCHANGED Udp!udpIdle
  BY DEF Udp!EpollCreate, Udp!ListenerBind, Udp!TimerInit
<1>2. UdpType' /\ Distinct(active)' /\ UdpPlaced(active, udpTold, udpMade)'
      /\ Timely(active, now, checked)' /\ (early = {})'
  BY <1>1 DEF UdpInv, UdpType, Distinct, UdpPlaced, Timely, Udp!udpIdle
<1>3. Listening'
  <2>1. CASE Udp!EpollCreate
    <3>1. Len(<<>>) = 0 /\ <<>> \in Seq(Udp!Range(Locals)) /\ Len(Locals) \in Nat /\ Len(Locals) > 0
      BY UdpConstants
    <3>2. /\ udpPc = "epoll" /\ sockets = <<>> /\ descriptors = {} /\ watched = {} /\ active = <<>>
      BY <2>1 DEF Udp!EpollCreate, UdpInv, Listening
    <3>3. /\ sockets' = <<>> /\ watched' = {} /\ active' = <<>>
          /\ \/ descriptors' = {"epoll"} /\ udpPc' = "bind"
             \/ udpPc' = "refused" /\ descriptors' = {}
      BY <2>1, <3>2 DEF Udp!EpollCreate, Udp!udpIdle
    <3>4. Udp!ToSet(<<>>) = {}
      BY DEF Udp!ToSet
    <3>5. QED
      BY <3>1, <3>3, <3>4 DEF Listening
  <2>2. CASE Udp!ListenerBind
    <3>1. /\ udpPc = "bind" /\ sockets \in Seq(Udp!Range(Locals)) /\ Len(sockets) < Len(Locals)
          /\ \A i \in DOMAIN sockets : sockets[i] = Locals[i]
          /\ watched = Udp!ToSet(sockets) /\ descriptors = watched \cup {"epoll"} /\ active = <<>>
      BY <2>2 DEF Udp!ListenerBind, UdpInv, Listening
    <3>2. active' = <<>>
      BY <2>2, <3>1 DEF Udp!ListenerBind, Udp!udpIdle
    <3>3. CASE Udp!Refuse
      BY <3>1, <3>2, <3>3 DEF Udp!Refuse, Udp!Unbound, Listening
    <3>4. CASE ~Udp!Refuse
      <4> DEFINE address == Locals[Len(sockets) + 1]
      <4>1. /\ sockets' = Append(sockets, address)
            /\ descriptors' = descriptors \cup {address} /\ watched' = watched \cup {address}
            /\ udpPc' = IF Len(sockets') = Len(Locals) THEN "timer" ELSE "bind"
        BY <2>2, <3>4 DEF Udp!ListenerBind, Udp!Bound
      <4>2. address \in Udp!Range(Locals) /\ Len(Locals) \in Nat /\ Len(sockets) \in Nat
        BY <3>1, UdpConstants DEF Udp!Range
      <4>3. /\ sockets' \in Seq(Udp!Range(Locals)) /\ Len(sockets') = Len(sockets) + 1
            /\ \A i \in DOMAIN sockets' : sockets'[i] = Locals[i]
            /\ Udp!ToSet(sockets') = Udp!ToSet(sockets) \cup {address}
        BY <3>1, <4>1, <4>2 DEF Udp!ToSet
      <4>4. CASE Len(sockets') = Len(Locals)
        <5>1. sockets' = Locals
          BY <4>3, <4>4, UdpConstants
        <5>2. QED
          BY <3>1, <3>2, <4>1, <4>3, <4>4, <5>1 DEF Listening
      <4>5. CASE Len(sockets') # Len(Locals)
        <5>1. Len(sockets') < Len(Locals)
          BY <3>1, <4>2, <4>3, <4>5
        <5>2. QED
          BY <3>1, <3>2, <4>1, <4>3, <4>5, <5>1 DEF Listening
      <4>6. QED
        BY <4>4, <4>5
    <3>5. QED
      BY <3>3, <3>4
  <2>3. CASE Udp!TimerInit
    <3>1. /\ udpPc = "timer" /\ sockets = Locals /\ watched = Udp!ToSet(Locals)
          /\ descriptors = watched \cup {"epoll"} /\ active = <<>>
      BY <2>3 DEF Udp!TimerInit, UdpInv, Listening
    <3>2. active' = <<>>
      BY <2>3, <3>1 DEF Udp!TimerInit, Udp!udpIdle
    <3>3. CASE Udp!Refuse
      BY <3>1, <3>2, <3>3 DEF Udp!Refuse, Udp!Unbound, Listening
    <3>4. CASE ~Udp!Refuse
      BY <2>3, <3>1, <3>2, <3>4 DEF Udp!TimerInit, Udp!Bound, Listening
    <3>5. QED
      BY <3>3, <3>4
  <2>4. QED
    BY <2>1, <2>2, <2>3
<1>4. QED
  BY <1>1, <1>2, <1>3 DEF UdpInv, Udp!udpIdle

\* Time passes: what was in time stays so.
LEMMA UdpTicks ==
    ASSUME UdpInv, Udp!Tick
    PROVE  UdpInv' /\ UNCHANGED udpTold
<1>1. /\ now' = now + 1
      /\ UNCHANGED <<active, udpMade, udpTold, early, checked, Udp!listenVars>>
  BY DEF Udp!Tick
<1>2. UdpType' /\ Distinct(active)' /\ UdpPlaced(active, udpTold, udpMade)' /\ (early = {})'
  BY <1>1 DEF UdpInv, UdpType, Distinct, UdpPlaced
<1>3. Timely(active, now, checked)'
  <2>1. ASSUME NEW i \in DOMAIN active PROVE InTime(active[i], now + 1, checked)
    <3>1. active[i] \in Entry /\ now \in Nat /\ InTime(active[i], now, checked)
      BY <2>1, EntryFacts DEF UdpInv, UdpType, Timely
    <3>2. QED
      BY <3>1 DEF InTime, Entry
  <2>2. QED
    BY <1>1, <2>1 DEF Timely
<1>4. Listening'
  BY <1>1 DEF UdpInv, Listening, Udp!listenVars
<1>5. QED
  BY <1>1, <1>2, <1>3, <1>4 DEF UdpInv

-----------------------------------------------------------------------------
(* A datagram finds its source, or makes one.                                *)

Made(a) == IF Udp!Find(a) = {} THEN udpMade + 1 ELSE udpMade

\* Adding a source leaves the list whole, with the source in it.
LEMMA SourceIsThere ==
    ASSUME UdpInv, NEW a \in Source, Udp!CanAdd(a)
    PROVE  /\ Udp!Add(a) \in Seq(Entry) /\ Distinct(Udp!Add(a)) /\ Made(a) \in Nat
           /\ UdpPlaced(Udp!Add(a), udpTold, Made(a)) /\ Timely(Udp!Add(a), now, checked)
           /\ Udp!Position(a) \in DOMAIN Udp!Add(a)
<1> USE UdpConstants
<1>1. CASE Udp!Find(a) # {}
  <2>1. Udp!Add(a) = active /\ Made(a) = udpMade
    BY <1>1 DEF Udp!Add, Made
  <2>2. Udp!Position(a) \in DOMAIN active
    BY <1>1 DEF Udp!Position, Udp!Find
  <2>3. QED
    BY <2>1, <2>2 DEF UdpInv, UdpType
<1>2. CASE Udp!Find(a) = {}
  <2>1. /\ Udp!Add(a) = Append(active, Udp!New(a)) /\ Made(a) = udpMade + 1 /\ udpMade + 1 \in Sessions
        /\ Udp!Position(a) = Len(active) + 1
    BY <1>2 DEF Udp!Add, Made, Udp!CanAdd, Udp!Position
  <2>2. active \in Seq(Entry) /\ udpMade \in Nat /\ now \in Nat
    BY DEF UdpInv, UdpType
  <2>3. Udp!New(a) \in Entry /\ Udp!New(a).src = a /\ Udp!New(a).ses = udpMade + 1 /\ Udp!New(a).fresh
        /\ Udp!New(a).cnt = 0 /\ Udp!New(a).seen = now /\ Udp!New(a).last = now
    BY <2>1, <2>2 DEF Udp!New, Entry
  <2>4. /\ Udp!Add(a) \in Seq(Entry) /\ Len(Udp!Add(a)) = Len(active) + 1 /\ Len(active) \in Nat
        /\ DOMAIN Udp!Add(a) = 1 .. Len(active) + 1 /\ DOMAIN active = 1 .. Len(active)
        /\ \A i \in 1 .. Len(active) : Udp!Add(a)[i] = active[i]
        /\ Udp!Add(a)[Len(active) + 1] = Udp!New(a)
    BY <2>1, <2>2, <2>3
  <2>5. \A i \in 1 .. Len(active) : /\ active[i].src # a /\ active[i].ses <= udpMade
                                    /\ active[i].ses \in Sessions
    BY <1>2, <2>2, <2>4, EntryFacts DEF Udp!Find, UdpInv, UdpPlaced, Entry
  <2>6. Distinct(Udp!Add(a))
    <3>1. Distinct(active)
      BY DEF UdpInv
    <3>2. \A i \in 1 .. Len(active) : Udp!Add(a)[i].src # a /\ Udp!Add(a)[i].ses # udpMade + 1
      BY <2>2, <2>4, <2>5
    <3>3. QED
      BY <2>3, <2>4, <3>1, <3>2 DEF Distinct
  <2>7. UdpPlaced(Udp!Add(a), udpTold, Made(a))
    <3>1. UdpPlaced(active, udpTold, udpMade)
      BY DEF UdpInv
    <3>2. udpTold[udpMade + 1] = <<>>
      BY <2>1, <2>2, <3>1 DEF UdpPlaced
    <3>3. \A i \in DOMAIN Udp!Add(a) : Udp!Add(a)[i].ses <= Made(a) /\ InStep(Udp!Add(a)[i], udpTold)
      <4>1. \A i \in 1 .. Len(active) : active[i].ses <= udpMade /\ InStep(active[i], udpTold)
        BY <2>4, <3>1 DEF UdpPlaced
      <4>2. InStep(Udp!New(a), udpTold)
        BY <2>3, <3>2 DEF InStep
      <4>3. ASSUME NEW i \in DOMAIN Udp!Add(a)
            PROVE  Udp!Add(a)[i].ses <= Made(a) /\ InStep(Udp!Add(a)[i], udpTold)
        <5>1. CASE i = Len(active) + 1
          BY <2>1, <2>2, <2>3, <2>4, <4>2, <5>1
        <5>2. CASE i # Len(active) + 1
          <6>1. i \in 1 .. Len(active) /\ Udp!Add(a)[i] = active[i]
            BY <2>4, <4>3, <5>2
          <6>2. active[i].ses \in Nat
            BY <2>5, <6>1
          <6>3. QED
            BY <2>1, <2>2, <4>1, <6>1, <6>2
        <5>3. QED
          BY <5>1, <5>2
      <4>4. QED
        BY <4>3
    <3>4. \A s \in Sessions : s > Made(a) => udpTold[s] = <<>>
      BY <2>1, <2>2, <3>1 DEF UdpPlaced
    <3>5. \A s \in Sessions : s <= Made(a) /\ ~Lists(Udp!Add(a), s) => udpTold[s] \in Udp!S!Over
      <4>1. ASSUME NEW s \in Sessions, s <= Made(a), ~Lists(Udp!Add(a), s) PROVE udpTold[s] \in Udp!S!Over
        <5>1. s # udpMade + 1
          BY <2>3, <2>4, <4>1 DEF Lists
        <5>2. ~Lists(active, s)
          BY <2>4, <4>1 DEF Lists
        <5>3. s <= udpMade
          BY <2>1, <2>2, <4>1, <5>1
        <5>4. QED
          BY <3>1, <5>2, <5>3 DEF UdpPlaced
      <4>2. QED
        BY <4>1
    <3>6. QED
      BY <3>3, <3>4, <3>5 DEF UdpPlaced
  <2>8. Timely(Udp!Add(a), now, checked)
    <3>1. \A i \in 1 .. Len(active) : InTime(active[i], now, checked)
      BY <2>4 DEF UdpInv, Timely
    <3>2. InTime(Udp!New(a), now, checked)
      BY <2>3 DEF InTime, UdpInv, UdpType
    <3>3. QED
      BY <2>4, <3>1, <3>2 DEF Timely
  <2>9. QED
    BY <2>1, <2>2, <2>4, <2>6, <2>7, <2>8
<1>3. QED
  BY <1>1, <1>2

\* A malformed message reaches no session, but its source is listed.
LEMMA UdpIgnores ==
    ASSUME UdpInv, NEW a \in Source, Udp!Malformed(a)
    PROVE  UdpInv' /\ UNCHANGED udpTold
<1>1. /\ udpPc = "up" /\ Udp!CanAdd(a) /\ active' = Udp!Add(a) /\ udpMade' = Made(a)
      /\ UNCHANGED <<now, udpTold, early, checked, Udp!listenVars>>
  BY DEF Udp!Malformed, Made
<1>2. /\ active' \in Seq(Entry) /\ Distinct(active') /\ udpMade' \in Nat
      /\ UdpPlaced(active', udpTold', udpMade') /\ Timely(active', now', checked')
  BY <1>1, SourceIsThere
<1>3. Listening'
  BY <1>1 DEF UdpInv, Listening, Udp!listenVars
<1>4. QED
  BY <1>1, <1>2, <1>3 DEF UdpInv, UdpType

\* What is said of a session by its message.
LEMMA GreetingFacts ==
    ASSUME NEW src \in Entry, NEW hello \in BOOLEAN, NEW m \in BOOLEAN, NEW told,
           InStep(src, told)
    PROVE  LET ev == Udp!Greeting(src, hello) \o IF m THEN <<"data">> ELSE <<>>
           IN  ev \in Seq(Udp!S!Event) /\ Udp!S!Told(told[src.ses], ev) \in Udp!S!Living
<1> DEFINE data == IF m THEN <<"data">> ELSE <<>>
<1>1. /\ <<>> \in Seq(Udp!S!Event) /\ <<"data">> \in Seq(Udp!S!Event) /\ <<"open">> \in Seq(Udp!S!Event)
      /\ <<"lost">> \in Seq(Udp!S!Event)
      /\ "open" \in Udp!S!Event /\ "lost" \in Udp!S!Event /\ "data" \in Udp!S!Event
  BY DEF Udp!S!Event
<1>2. Udp!Greeting(src, hello) \in Seq(Udp!S!Event) /\ data \in Seq(Udp!S!Event)
  BY <1>1 DEF Udp!Greeting
<1>3. ASSUME NEW u, NEW v, u \in Seq(Udp!S!Event), v \in Seq(Udp!S!Event)
      PROVE  u \o v \in Seq(Udp!S!Event) /\ (v = <<>> => u \o v = u) /\ (u = <<>> => u \o v = v)
  BY <1>3
<1>4. Udp!Greeting(src, hello) \o data \in Seq(Udp!S!Event)
  BY <1>2, <1>3
<1>5. CASE ~src.fresh
  <2>1. Udp!Greeting(src, hello) = <<>> /\ told[src.ses] \in Udp!S!Living
    BY <1>5 DEF Udp!Greeting, InStep
  <2>2. Udp!Greeting(src, hello) \o data = data
    BY <1>2, <1>3, <2>1
  <2>3. Udp!S!Told(told[src.ses], <<"data">>) \in Udp!S!Living
    BY <2>1, Udp!S!TellData
  <2>4. Udp!S!Told(told[src.ses], <<>>) \in Udp!S!Living
    BY <2>1, Udp!S!TellNothing DEF Udp!S!Life
  <2>5. QED
    BY <1>4, <2>2, <2>3, <2>4
<1>6. CASE src.fresh
  <2>1. told[src.ses] = <<>>
    BY <1>6 DEF InStep
  <2>2. PICK h \in {"open", "lost"} : Udp!Greeting(src, hello) = <<h>>
    BY <1>6 DEF Udp!Greeting
  <2>3. Udp!S!Told(<<>>, <<h>>) \in Udp!S!Living /\ Udp!S!Told(<<>>, <<h, "data">>) \in Udp!S!Living
    BY Udp!S!TellFirst
  <2>4. CASE m
    <3>1. <<h>> \o <<"data">> = <<h, "data">>
      BY <1>1, <2>2, Udp!S!Pair
    <3>2. QED
      BY <1>4, <2>1, <2>2, <2>3, <2>4, <3>1
  <2>5. CASE ~m
    <3>1. Udp!Greeting(src, hello) \o data = <<h>>
      BY <1>2, <1>3, <2>2, <2>5
    <3>2. QED
      BY <1>4, <2>1, <2>3, <3>1
  <2>6. QED
    BY <2>4, <2>5
<1>7. QED
  BY <1>5, <1>6

\* A datagram: its session hears what its state allows.
LEMMA UdpHears ==
    ASSUME UdpInv, NEW a \in Source, NEW hello \in BOOLEAN, NEW m \in BOOLEAN,
           Udp!Datagram(a, hello, m)
    PROVE  UdpInv' /\ Udp!S!Next
<1> USE UdpConstants
<1> DEFINE i == Udp!Position(a)
           act == Udp!Add(a)
           src == act[i]
           ev == Udp!Greeting(src, hello) \o IF m THEN <<"data">> ELSE <<>>
<1> HIDE DEF i, act, src, ev
<1>1. /\ udpPc = "up" /\ Udp!CanAdd(a) /\ udpMade' = Made(a)
      /\ active' = [act EXCEPT ![i].fresh = FALSE, ![i].cnt = IF m THEN @ + 1 ELSE @,
                               ![i].last = IF m THEN now ELSE @]
      /\ udpTold' = Udp!S!Say(udpTold, src.ses, ev)
      /\ UNCHANGED <<now, early, checked, Udp!listenVars>>
  BY DEF Udp!Datagram, Made, i, act, src, ev
<1>2. /\ act \in Seq(Entry) /\ Distinct(act) /\ Made(a) \in Nat
      /\ UdpPlaced(act, udpTold, Made(a)) /\ Timely(act, now, checked) /\ i \in DOMAIN act
  BY <1>1, SourceIsThere DEF act, i
<1>3. /\ Len(act) \in Nat /\ DOMAIN act = 1 .. Len(act) /\ src \in Entry
      /\ \A k \in DOMAIN act : act[k] \in Entry
  BY <1>2, EntryFacts DEF src
<1>4. InStep(src, udpTold) /\ InTime(src, now, checked)
  BY <1>2 DEF src, UdpPlaced, Timely
<1>5. ev \in Seq(Udp!S!Event) /\ Udp!S!Told(udpTold[src.ses], ev) \in Udp!S!Living
  BY <1>3, <1>4, GreetingFacts DEF ev
<1>6. src.ses \in Sessions /\ udpTold \in [Sessions -> Udp!S!Life] /\ now \in Nat /\ checked \in Nat
  BY <1>3 DEF UdpInv, UdpType, Entry
<1>7. /\ udpTold' \in [Sessions -> Udp!S!Life] /\ udpTold'[src.ses] \in Udp!S!Living
      /\ \A r \in Sessions : r # src.ses => udpTold'[r] = udpTold[r]
      /\ Udp!S!Next
  <2>1. Udp!S!Told(udpTold[src.ses], ev) \in Udp!S!Life
    BY <1>5 DEF Udp!S!Life
  <2>2. QED
    BY <1>1, <1>5, <1>6, <2>1, Udp!S!SayIsNext
\* The entry that changes.
<1>8. /\ active' \in Seq(Entry) /\ DOMAIN active' = DOMAIN act
      /\ \A k \in DOMAIN act : k # i => active'[k] = act[k]
      /\ active'[i] = [src EXCEPT !.fresh = FALSE, !.cnt = IF m THEN @ + 1 ELSE @,
                                  !.last = IF m THEN now ELSE @]
  <2> DEFINE new == [src EXCEPT !.fresh = FALSE, !.cnt = IF m THEN @ + 1 ELSE @,
                                !.last = IF m THEN now ELSE @]
  <2>1. new \in Entry
    <3>1. CASE m
      <4>1. new = [src EXCEPT !.fresh = FALSE, !.cnt = src.cnt + 1, !.last = now]
        BY <1>3, <3>1 DEF Entry
      <4>2. src.cnt + 1 \in Nat
        BY <1>3 DEF Entry
      <4> HIDE DEF new
      <4>3. QED
        BY <1>3, <1>6, <4>1, <4>2 DEF Entry
    <3>2. CASE ~m
      BY <1>3, <1>6, <3>2 DEF Entry
    <3>3. QED
      BY <3>1, <3>2
  <2>2. active' = [act EXCEPT ![i] = new]
    BY <1>1, <1>2 DEF src
  <2> HIDE DEF new
  <2>3. QED
    BY <1>2, <1>3, <2>1, <2>2 DEF new
<1>9. /\ active'[i].src = src.src /\ active'[i].ses = src.ses /\ ~active'[i].fresh
      /\ active'[i].seen = src.seen
      /\ (m => active'[i].cnt = src.cnt + 1 /\ active'[i].last = now)
      /\ (~m => active'[i].cnt = src.cnt /\ active'[i].last = src.last)
  BY <1>3, <1>8 DEF Entry
<1>10. \A k \in DOMAIN act : active'[k].src = act[k].src /\ active'[k].ses = act[k].ses
  BY <1>8, <1>9 DEF src
<1>11. Distinct(active')
  BY <1>2, <1>8, <1>10 DEF Distinct
<1>12. UdpPlaced(active', udpTold', udpMade')
  <2>1. \A k \in DOMAIN act : k # i => act[k].ses # src.ses
    BY <1>2 DEF Distinct, src
  <2>2. ASSUME NEW k \in DOMAIN act PROVE active'[k].ses <= udpMade' /\ InStep(active'[k], udpTold')
    <3>1. act[k].ses <= Made(a) /\ InStep(act[k], udpTold)
      BY <1>2, <2>2 DEF UdpPlaced
    <3>2. CASE k = i
      BY <1>1, <1>7, <1>9, <1>10, <3>1, <3>2 DEF InStep
    <3>3. CASE k # i
      <4>1. act[k].ses \in Sessions /\ act[k].ses # src.ses
        BY <1>3, <2>1, <2>2, <3>3 DEF Entry
      <4>2. udpTold'[act[k].ses] = udpTold[act[k].ses] /\ active'[k] = act[k]
        BY <1>7, <1>8, <2>2, <3>3, <4>1
      <4>3. QED
        BY <1>1, <3>1, <4>2 DEF InStep
    <3>4. QED
      BY <3>2, <3>3
  <2>3. ASSUME NEW s \in Sessions, s > udpMade' PROVE udpTold'[s] = <<>>
    <3>1. udpTold[s] = <<>> /\ src.ses <= Made(a)
      BY <1>1, <1>2, <2>3 DEF UdpPlaced, src
    <3>2. s # src.ses
      BY <1>1, <1>2, <1>6, <2>3, <3>1
    <3>3. QED
      BY <1>7, <3>1, <3>2
  <2>4. ASSUME NEW s \in Sessions, s <= udpMade', ~Lists(active', s) PROVE udpTold'[s] \in Udp!S!Over
    <3>1. ~Lists(act, s)
      BY <1>8, <1>10, <2>4 DEF Lists
    <3>2. s # src.ses
      BY <1>2, <3>1 DEF Lists, src
    <3>3. udpTold[s] \in Udp!S!Over
      BY <1>1, <1>2, <2>4, <3>1 DEF UdpPlaced
    <3>4. QED
      BY <1>7, <3>2, <3>3
  <2>5. QED
    BY <1>8, <2>2, <2>3, <2>4 DEF UdpPlaced
<1>13. Timely(active', now', checked')
  <2>1. InTime(active'[i], now, checked)
    BY <1>3, <1>4, <1>6, <1>9 DEF InTime, Entry
  <2>2. \A k \in DOMAIN act : InTime(act[k], now, checked)
    BY <1>2 DEF Timely
  <2>3. \A k \in DOMAIN active' : InTime(active'[k], now, checked)
    BY <1>8, <2>1, <2>2
  <2>4. QED
    BY <1>1, <2>3 DEF Timely
<1>14. Listening'
  BY <1>1 DEF UdpInv, Listening, Udp!listenVars
<1>15. QED
  BY <1>1, <1>2, <1>7, <1>8, <1>11, <1>12, <1>13, <1>14 DEF UdpInv, UdpType

-----------------------------------------------------------------------------
(* The timer.                                                                *)

\* Sources that are gone are told of; the others are left alone.
Bids(out) == \A s \in Sessions : out[s] \in {"nothing", "close", "all"}

\* What is said of a source that is removed ends the life of its session.
LEMMA FarewellIsEnd ==
    ASSUME NEW src \in Entry, NEW told, InStep(src, told), NEW out, Bids(out)
    PROVE  /\ told[src.ses] \o Udp!Farewell(src, out[src.ses]) \in Udp!S!Over
           /\ Udp!Farewell(src, out[src.ses]) \in Seq(Udp!S!Event)
<1>3. out[src.ses] \in {"nothing", "close", "all"}
  BY DEF Entry, Bids
<1>4. CASE src.fresh
  <2>1. <<"destroy">> \in Seq(Udp!S!Event)
    BY DEF Udp!S!Event
  <2>2. <<>> \o <<"destroy">> = <<"destroy">>
    BY <2>1
  <2>3. told[src.ses] = <<>> /\ Udp!Farewell(src, out[src.ses]) = <<"destroy">>
    BY <1>4 DEF InStep, Udp!Farewell
  <2>4. QED
    BY <2>1, <2>2, <2>3 DEF Udp!S!Over
<1>5. CASE ~src.fresh
  <2>1. told[src.ses] \in Udp!S!Living
    BY <1>5 DEF InStep
  <2>2. Udp!Farewell(src, out[src.ses]) \in Udp!S!Endings
    <3>1. CASE out[src.ses] = "nothing"
      BY <1>5, <3>1 DEF Udp!Farewell, Udp!S!Endings
    <3>2. CASE out[src.ses] = "close"
      BY <1>5, <3>2 DEF Udp!Farewell, Udp!S!Endings
    <3>3. CASE out[src.ses] = "all"
      BY <1>5, <3>3 DEF Udp!Farewell, Udp!S!Endings
    <3>4. QED
      BY <1>3, <3>1, <3>2, <3>3
  <2>3. told[src.ses] \o Udp!Farewell(src, out[src.ses]) \in Udp!S!Over
    BY <2>1, <2>2, Udp!S!TellEnd
  <2>4. QED
    BY <2>2, <2>3, Udp!S!EndingShape
<1>6. QED
  BY <1>4, <1>5

\* Removing sources ends their sessions and touches no other.
LEMMA RemovedAreOver ==
    ASSUME UdpInv, NEW gone \in SUBSET Entry, \A src \in gone : InStep(src, udpTold),
           NEW out, Bids(out),
           udpTold' = Udp!RemoveAll(gone, out)
    PROVE  /\ udpTold' \in [Sessions -> Udp!S!Life] /\ Udp!S!Next
           /\ \A s \in Sessions : (\E src \in gone : src.ses = s) => udpTold'[s] \in Udp!S!Over
           /\ \A s \in Sessions : (\A src \in gone : src.ses # s) => udpTold'[s] = udpTold[s]
<1>1. /\ \A s \in Sessions : (\A src \in gone : src.ses # s) => udpTold'[s] = udpTold[s]
      /\ DOMAIN udpTold' = Sessions /\ udpTold \in [Sessions -> Udp!S!Life]
      /\ udpTold' = [s \in Sessions |-> udpTold'[s]]
  BY DEF Udp!RemoveAll, UdpInv, UdpType
<1>2. ASSUME NEW s \in Sessions, \E src \in gone : src.ses = s
      PROVE  udpTold'[s] \in Udp!S!Over /\ Udp!S!Follows(udpTold[s], udpTold'[s])
  <2> DEFINE src == CHOOSE x \in gone : x.ses = s
  <2>1. src \in gone /\ src.ses = s
    BY <1>2
  <2>2. udpTold'[s] = udpTold[s] \o Udp!Farewell(src, out[s])
    BY <1>2 DEF Udp!RemoveAll
  <2> HIDE DEF src
  <2>3. QED
    BY <2>1, <2>2, FarewellIsEnd DEF Udp!S!Follows
<1>3. ASSUME NEW s \in Sessions
      PROVE  udpTold'[s] \in Udp!S!Life /\ Udp!S!Follows(udpTold[s], udpTold'[s])
  <2>1. CASE \E src \in gone : src.ses = s
    BY <1>2, <2>1 DEF Udp!S!Life
  <2>2. CASE ~ \E src \in gone : src.ses = s
    BY <1>1, <2>2, Udp!S!Stays
  <2>3. QED
    BY <2>1, <2>2
<1>4. udpTold' \in [Sessions -> Udp!S!Life]
  BY <1>1, <1>3
<1>5. Udp!S!Next
  BY <1>1, <1>3, <1>4, Udp!S!FollowsIsNext
<1>6. QED
  BY <1>1, <1>2, <1>4, <1>5

\* Destruction ends every session that is left.
LEMMA UdpIsDestroyed ==
    ASSUME UdpInv, NEW out, Bids(out), Udp!UdpDestroy(out)
    PROVE  UdpInv' /\ Udp!S!Next
<1>1. /\ udpPc = "up" /\ udpPc' = "gone" /\ active' = <<>> /\ sockets' = <<>>
      /\ descriptors' = Udp!Unbound(descriptors) /\ watched' = Udp!Unbound(watched)
      /\ udpTold' = Udp!RemoveAll(Udp!Range(active), out)
      /\ UNCHANGED <<now, udpMade, early, checked>>
  BY DEF Udp!UdpDestroy
<1>2. /\ udpTold' \in [Sessions -> Udp!S!Life] /\ Udp!S!Next
      /\ \A s \in Sessions : (\E src \in Udp!Range(active) : src.ses = s) => udpTold'[s] \in Udp!S!Over
      /\ \A s \in Sessions : (\A src \in Udp!Range(active) : src.ses # s) => udpTold'[s] = udpTold[s]
  <2>1. Udp!Range(active) \subseteq Entry /\ \A src \in Udp!Range(active) : InStep(src, udpTold)
    BY EntryFacts DEF Udp!Range, UdpInv, UdpType, UdpPlaced
  <2>2. QED
    BY <1>1, <2>1, RemovedAreOver
<1>3. \A s \in Sessions : Lists(active, s) <=> \E src \in Udp!Range(active) : src.ses = s
  BY DEF Lists, Udp!Range
<1>4. UdpPlaced(active', udpTold', udpMade')
  <2>1. UdpPlaced(active, udpTold, udpMade)
    BY DEF UdpInv
  <2>2. ASSUME NEW s \in Sessions PROVE s > udpMade => udpTold'[s] = <<>>
    <3>1. s > udpMade => ~Lists(active, s)
      BY <2>1, UdpConstants, EntryFacts DEF UdpPlaced, Lists, UdpInv, UdpType, Entry
    <3>2. QED
      BY <1>2, <1>3, <2>1, <3>1 DEF UdpPlaced
  <2>3. ASSUME NEW s \in Sessions PROVE s <= udpMade => udpTold'[s] \in Udp!S!Over
    BY <1>2, <1>3, <2>1 DEF UdpPlaced
  <2>4. \A s \in Sessions : ~Lists(<<>>, s)
    BY DEF Lists
  <2>5. QED
    BY <1>1, <2>2, <2>3, <2>4 DEF UdpPlaced
<1>5. Listening'
  BY <1>1 DEF UdpInv, Listening, Udp!Unbound
<1>6. Distinct(active') /\ Timely(active', now', checked') /\ active' \in Seq(Entry)
  BY <1>1 DEF Distinct, Timely
<1>7. QED
  BY <1>1, <1>2, <1>4, <1>5, <1>6 DEF UdpInv, UdpType

\* What qsort may do: the entries are the same, in an order of activity.
LEMMA SortedIsOrder ==
    ASSUME UdpInv, NEW t \in Udp!Sorted
    PROVE  /\ t \in Seq(Entry) /\ Len(t) = Len(active) /\ DOMAIN t = DOMAIN active
           /\ Udp!Range(t) = Udp!Range(active) /\ Distinct(t)
           /\ \A i \in DOMAIN t : InTime(t[i], now, checked)
           /\ \A i, j \in DOMAIN t : i < j => ~Udp!Before(t[j], t[i])
<1>1. PICK p \in Udp!Bijection(DOMAIN active, DOMAIN active) :
          t = [i \in DOMAIN active |-> active[p[i]]]
  BY DEF Udp!Sorted
<1>2. /\ p \in [DOMAIN active -> DOMAIN active]
      /\ \A i, j \in DOMAIN active : p[i] = p[j] => i = j
      /\ \A k \in DOMAIN active : \E i \in DOMAIN active : p[i] = k
  BY <1>1 DEF Udp!Bijection, Udp!Injection, Udp!Surjection, Udp!IsInjective
<1>3. /\ active \in Seq(Entry) /\ DOMAIN active = 1 .. Len(active) /\ Len(active) \in Nat
      /\ \A i \in DOMAIN active : active[i] \in Entry
  BY EntryFacts DEF UdpInv, UdpType
<1>4. DOMAIN t = DOMAIN active /\ \A i \in DOMAIN active : t[i] = active[p[i]]
  BY <1>1
<1>5. t \in Seq(Entry) /\ Len(t) = Len(active)
  BY <1>1, <1>2, <1>3, <1>4
<1>6. Udp!Range(t) = Udp!Range(active)
  BY <1>2, <1>4 DEF Udp!Range
<1>7. Distinct(t)
  BY <1>2, <1>4 DEF UdpInv, Distinct
<1>8. \A i \in DOMAIN t : InTime(t[i], now, checked)
  BY <1>2, <1>4 DEF UdpInv, Timely
<1>9. \A i, j \in DOMAIN t : i < j => ~Udp!Before(t[j], t[i])
  BY DEF Udp!Sorted
<1>10. QED
  BY <1>4, <1>5, <1>6, <1>7, <1>8, <1>9

\* After the timer has looked at the activity, all count from now on.
Restart(r) == IF r.cnt = 0 THEN r ELSE [r EXCEPT !.seen = now, !.cnt = 0]
Restarted(e, r) ==
    /\ e \in Entry /\ e.src = r.src /\ e.ses = r.ses /\ e.fresh = r.fresh
    /\ e.last = r.last /\ e.cnt = 0 /\ e.last <= e.seen /\ e.seen <= now
    /\ (r.cnt > 0 => e.seen = now) /\ (r.cnt = 0 => e.seen = r.seen)

\* A source after the check, before and after its counter is reset.
LEMMA RestartFacts ==
    ASSUME NEW r \in Entry, now \in Nat, InTime(r, now, checked)
    PROVE  Restarted(Restart(r), r)
<1>1. CASE r.cnt = 0
  BY <1>1 DEF Entry, InTime, Restart, Restarted
<1>2. CASE r.cnt # 0
  <2>1. /\ r.src \in Source /\ r.ses \in Sessions /\ r.fresh \in BOOLEAN
        /\ r.last \in Nat /\ r.cnt \in Nat /\ r.last <= now
    BY DEF Entry, InTime
  <2> DEFINE e == [r EXCEPT !.seen = now, !.cnt = 0]
  <2>2. /\ e \in Entry /\ e.src = r.src /\ e.ses = r.ses /\ e.fresh = r.fresh
        /\ e.last = r.last /\ e.cnt = 0 /\ e.seen = now
    BY <2>1 DEF Entry
  <2>3. Restart(r) = e
    BY <1>2 DEF Restart
  <2> HIDE DEF e
  <2>4. Restarted(e, r)
    BY <1>2, <2>1, <2>2 DEF Restarted
  <2>5. QED
    BY <2>3, <2>4
<1>3. QED
  BY <1>1, <1>2

\* The same for the whole list.
LEMMA ResetFacts ==
    ASSUME NEW t \in Seq(Entry), now \in Nat, \A i \in DOMAIN t : InTime(t[i], now, checked)
    PROVE  /\ Udp!Reset(t) \in Seq(Entry) /\ Len(Udp!Reset(t)) = Len(t) /\ DOMAIN Udp!Reset(t) = DOMAIN t
           /\ \A i \in DOMAIN t : Restarted(Udp!Reset(t)[i], t[i])
<1>1. Len(t) \in Nat /\ DOMAIN t = 1 .. Len(t) /\ \A i \in DOMAIN t : t[i] \in Entry
  BY EntryFacts
<1>2. Udp!Reset(t) = [i \in 1 .. Len(t) |-> Restart(t[i])]
  BY <1>1 DEF Udp!Reset, Restart
<1>3. \A i \in DOMAIN t : Restarted(Restart(t[i]), t[i])
  BY <1>1, RestartFacts
<1>4. \A i \in DOMAIN t : Restart(t[i]) \in Entry
  BY <1>3 DEF Restarted
<1>5. QED
  BY <1>1, <1>2, <1>3, <1>4

\* The timer: the sources cut from the sorted list are the silent ones, and
\* their sessions end.
LEMMA UdpChecks ==
    ASSUME UdpInv, NEW late \in {now, now + 1}, NEW out, Bids(out), Udp!Timer(late, out)
    PROVE  UdpInv' /\ Udp!S!Next
<1> USE UdpConstants
<1> DEFINE Silent(a) == {i \in DOMAIN a : a[i].seen + Timeout < late}
           Kept(a) == IF Silent(a) = {} THEN Len(a)
                      ELSE (CHOOSE i \in Silent(a) : \A j \in Silent(a) : i <= j) - 1
<1>1. PICK t \in Udp!Sorted :
        LET a == Udp!Reset(t)
            n == Kept(a)
            gone == {a[i] : i \in (n + 1) .. Len(a)}
        IN  /\ active' = SubSeq(a, 1, n) /\ udpTold' = Udp!RemoveAll(gone, out)
            /\ early' = early \cup {src.ses : src \in {x \in gone : late - x.last <= Timeout}}
  BY DEF Udp!Timer
<1> DEFINE a == Udp!Reset(t)
           n == Kept(a)
           gone == {a[i] : i \in (n + 1) .. Len(a)}
<1>2. /\ udpPc = "up" /\ now' = late /\ checked' = late
      /\ UNCHANGED <<udpMade, Udp!listenVars>>
  BY DEF Udp!Timer
<1>3. /\ now \in Nat /\ late \in Nat /\ now <= late /\ late <= now + 1 /\ udpMade \in Nat
      /\ udpPc' = "up"
  BY <1>2 DEF UdpInv, UdpType, Udp!listenVars
<1>4. /\ t \in Seq(Entry) /\ Len(t) = Len(active) /\ DOMAIN t = DOMAIN active
      /\ Udp!Range(t) = Udp!Range(active) /\ Distinct(t)
      /\ \A i \in DOMAIN t : InTime(t[i], now, checked)
      /\ \A i, j \in DOMAIN t : i < j => ~Udp!Before(t[j], t[i])
  BY SortedIsOrder
<1>55. /\ a \in Seq(Entry) /\ Len(a) = Len(t) /\ DOMAIN a = DOMAIN t
       /\ \A i \in DOMAIN t : Restarted(a[i], t[i])
  BY <1>3, <1>4, ResetFacts
<1> HIDE DEF a
<1>5. /\ a \in Seq(Entry) /\ Len(a) = Len(t) /\ DOMAIN a = DOMAIN t
      /\ \A i \in DOMAIN t :
            /\ a[i] \in Entry /\ a[i].src = t[i].src /\ a[i].ses = t[i].ses /\ a[i].fresh = t[i].fresh
            /\ a[i].last = t[i].last /\ a[i].cnt = 0 /\ a[i].last <= a[i].seen /\ a[i].seen <= now
            /\ (t[i].cnt > 0 => a[i].seen = now) /\ (t[i].cnt = 0 => a[i].seen = t[i].seen)
  BY <1>55 DEF Restarted
<1>6. Len(a) \in Nat /\ DOMAIN a = 1 .. Len(a) /\ \A i \in DOMAIN t : t[i] \in Entry
  BY <1>4, <1>5, EntryFacts
\* The cut: whoever is kept is not silent, whoever is not is.
<1>7. /\ n \in 0 .. Len(a) /\ \A i \in 1 .. n : a[i].seen + Timeout >= late
      /\ \A i \in (n + 1) .. Len(a) : a[i].seen + Timeout < late
  <2>1. CASE Silent(a) = {}
    <3>1. n = Len(a)
      BY <2>1
    <3>2. ASSUME NEW i \in DOMAIN a PROVE a[i].seen + Timeout >= late
      <4>1. a[i].seen \in Nat
        BY <1>5, <3>2 DEF Entry
      <4>2. ~(a[i].seen + Timeout < late)
        BY <2>1
      <4>3. QED
        BY <1>3, <4>1, <4>2
    <3> HIDE DEF n, Silent
    <3>3. n \in 0 .. Len(a) /\ 1 .. n = DOMAIN a /\ (n + 1) .. Len(a) = {}
      BY <1>6, <3>1
    <3>4. QED
      BY <3>2, <3>3
  <2>2. CASE Silent(a) # {}
    <3> DEFINE k == CHOOSE i \in Silent(a) : \A j \in Silent(a) : i <= j
    <3>1. \E i \in Silent(a) : \A j \in Silent(a) : i <= j
      <4>1. Silent(a) \subseteq 1 .. Len(a)
        BY <1>6
      <4> HIDE DEF Silent
      <4>2. QED
        BY <1>6, <2>2, <4>1, FirstOne
    <3>2. k \in Silent(a) /\ \A j \in Silent(a) : k <= j
      BY <3>1
    <3>3. n = k - 1
      BY <2>2
    <3> HIDE DEF k, n
    <3>4. k \in 1 .. Len(a) /\ a[k].seen + Timeout < late
      BY <1>6, <3>2
    <3>5. \A i \in 1 .. n : a[i].seen + Timeout >= late
      <4>1. ASSUME NEW i \in 1 .. n PROVE a[i].seen + Timeout >= late
        <5>1. i \in DOMAIN a /\ i < k
          BY <1>6, <3>3, <3>4
        <5>2. i \notin Silent(a)
          BY <3>2, <3>4, <5>1
        <5>3. QED
          BY <1>3, <1>5, <5>1, <5>2 DEF Entry
      <4>2. QED
        BY <4>1
    <3>6. \A i \in (n + 1) .. Len(a) : a[i].seen + Timeout < late
      <4>1. t[k].cnt = 0
        <5>1. t[k] \in Entry /\ a[k].seen \in Nat /\ (t[k].cnt > 0 => a[k].seen = now)
          BY <1>5, <1>6, <3>4 DEF Entry
        <5>2. a[k].seen # now
          BY <1>3, <3>4, <5>1
        <5>3. QED
          BY <5>1, <5>2 DEF Entry
      <4>2. ASSUME NEW i \in (n + 1) .. Len(a) PROVE a[i].seen + Timeout < late
        <5>1. CASE i = k
          BY <3>4, <5>1
        <5>2. CASE i # k
          <6>1. i \in DOMAIN t /\ k \in DOMAIN t /\ k < i
            BY <1>5, <1>6, <3>3, <3>4, <5>2
          <6>2. ~Udp!Before(t[i], t[k]) /\ t[i] \in Entry /\ t[k] \in Entry
            BY <1>4, <1>6, <6>1
          <6>3. t[i].cnt = 0 /\ t[i].seen <= t[k].seen
            BY <4>1, <6>2 DEF Udp!Before, Entry
          <6>4. a[i].seen = t[i].seen /\ a[k].seen = t[k].seen
            BY <1>5, <4>1, <6>1, <6>3
          <6>5. QED
            BY <1>3, <3>4, <6>2, <6>3, <6>4 DEF Entry
        <5>3. QED
          BY <5>1, <5>2
      <4>3. QED
        BY <4>2
    <3>7. QED
      BY <1>6, <3>3, <3>4, <3>5, <3>6
  <2>3. QED
    BY <2>1, <2>2
<1> HIDE DEF Kept, Silent, n
<1>8. /\ active' \in Seq(Entry) /\ DOMAIN active' = 1 .. n /\ Len(active') = n
      /\ \A i \in 1 .. n : active'[i] = a[i]
  BY <1>1, <1>5, <1>6, <1>7 DEF a, n
<1>9. /\ \A i \in DOMAIN a : InStep(a[i], udpTold) /\ a[i].ses <= udpMade
      /\ \A s \in Sessions : Lists(active, s) <=> Lists(a, s)
  <2>1. \A i \in DOMAIN t : \E j \in DOMAIN active : t[i] = active[j]
    BY <1>4 DEF Udp!Range
  <2>2. \A i \in DOMAIN t : InStep(t[i], udpTold) /\ t[i].ses <= udpMade
    BY <2>1 DEF UdpInv, UdpPlaced
  <2>3. \A s \in Sessions : Lists(active, s) <=> Lists(t, s)
    <3>1. \A j \in DOMAIN active : \E i \in DOMAIN t : t[i] = active[j]
      BY <1>4 DEF Udp!Range
    <3>2. QED
      BY <2>1, <3>1 DEF Lists
  <2>4. \A s \in Sessions : Lists(t, s) <=> Lists(a, s)
    BY <1>5 DEF Lists
  <2>5. \A i \in DOMAIN a : InStep(a[i], udpTold) /\ a[i].ses <= udpMade
    BY <1>5, <2>2 DEF InStep
  <2>6. QED
    BY <2>3, <2>4, <2>5
<1>10. Distinct(a)
  BY <1>4, <1>5 DEF Distinct
<1>11. /\ udpTold' \in [Sessions -> Udp!S!Life] /\ Udp!S!Next
       /\ \A i \in (n + 1) .. Len(a) : udpTold'[a[i].ses] \in Udp!S!Over
       /\ \A s \in Sessions : (\A i \in (n + 1) .. Len(a) : a[i].ses # s)
                                 => udpTold'[s] = udpTold[s]
  <2>1. udpTold' = Udp!RemoveAll(gone, out)
    BY <1>1 DEF a, n
  <2>2. gone \in SUBSET Entry /\ \A src \in gone : InStep(src, udpTold)
    BY <1>5, <1>6, <1>7, <1>9
  <2>3. ASSUME NEW i \in (n + 1) .. Len(a) PROVE a[i] \in gone /\ a[i].ses \in Sessions
    <3>1. a[i] \in Entry
      BY <1>5, <1>6, <1>7
    <3>2. QED
      BY <3>1 DEF Entry
  <2>4. \A s \in Sessions : (\A i \in (n + 1) .. Len(a) : a[i].ses # s)
                              => (\A src \in gone : src.ses # s)
    OBVIOUS
  <2> HIDE DEF gone
  <2>5. /\ udpTold' \in [Sessions -> Udp!S!Life] /\ Udp!S!Next
        /\ \A s \in Sessions : (\E src \in gone : src.ses = s) => udpTold'[s] \in Udp!S!Over
        /\ \A s \in Sessions : (\A src \in gone : src.ses # s) => udpTold'[s] = udpTold[s]
    BY <2>1, <2>2, RemovedAreOver
  <2>6. QED
    BY <2>3, <2>4, <2>5
<1>12. UdpPlaced(active', udpTold', udpMade')
  <2>1. UdpPlaced(active, udpTold, udpMade) /\ udpMade' = udpMade
    BY <1>2 DEF UdpInv
  <2>2. ASSUME NEW i \in DOMAIN active'
        PROVE  active'[i].ses <= udpMade' /\ InStep(active'[i], udpTold')
    <3>1. i \in DOMAIN a /\ active'[i] = a[i] /\ a[i].ses \in Sessions
      BY <1>5, <1>6, <1>7, <1>8, <2>2 DEF Entry
    <3>2. \A j \in (n + 1) .. Len(a) : a[j].ses # a[i].ses
      BY <1>6, <1>7, <1>8, <1>10, <2>2 DEF Distinct
    <3>3. udpTold'[a[i].ses] = udpTold[a[i].ses]
      BY <1>11, <3>1, <3>2
    <3>4. QED
      BY <1>9, <2>1, <3>1, <3>3 DEF InStep
  <2>3. ASSUME NEW s \in Sessions, s > udpMade' PROVE udpTold'[s] = <<>>
    <3>1. \A i \in (n + 1) .. Len(a) : a[i].ses <= udpMade /\ i \in DOMAIN a
      BY <1>6, <1>7, <1>9
    <3>2. ASSUME NEW i \in (n + 1) .. Len(a) PROVE a[i].ses # s
      <4>1. a[i].ses <= udpMade /\ a[i] \in Entry
        BY <1>5, <3>1
      <4>2. a[i].ses \in Nat /\ s \in Nat
        BY <4>1 DEF Entry
      <4>3. QED
        BY <1>3, <2>1, <2>3, <4>1, <4>2
    <3>3. QED
      BY <1>11, <2>1, <2>3, <3>2 DEF UdpPlaced
  <2>4. ASSUME NEW s \in Sessions, s <= udpMade', ~Lists(active', s) PROVE udpTold'[s] \in Udp!S!Over
    <3>1. CASE \E i \in (n + 1) .. Len(a) : a[i].ses = s
      BY <1>11, <3>1
    <3>2. CASE ~ \E i \in (n + 1) .. Len(a) : a[i].ses = s
      <4>1. ~Lists(a, s)
        BY <1>6, <1>7, <1>8, <2>4, <3>2 DEF Lists
      <4>2. udpTold[s] \in Udp!S!Over
        BY <1>9, <2>1, <2>4, <4>1 DEF UdpPlaced
      <4>3. QED
        BY <1>11, <3>2, <4>2
    <3>3. QED
      BY <3>1, <3>2
  <2>5. QED
    BY <2>2, <2>3, <2>4 DEF UdpPlaced
<1>13. Distinct(active')
  BY <1>6, <1>7, <1>8, <1>10 DEF Distinct
<1>14. Timely(active', now', checked')
  <2>1. ASSUME NEW i \in DOMAIN active' PROVE InTime(active'[i], late, late)
    <3>1. i \in DOMAIN t /\ i \in 1 .. n /\ active'[i] = a[i]
      BY <1>5, <1>6, <1>7, <1>8, <2>1
    <3>2. /\ a[i] \in Entry /\ a[i].last <= a[i].seen /\ a[i].seen <= now
          /\ a[i].seen + Timeout >= late
      BY <1>5, <1>7, <3>1
    <3>3. QED
      BY <1>3, <3>1, <3>2 DEF InTime, Entry
  <2>2. QED
    BY <1>2, <2>1 DEF Timely
<1>15. early' = {}
  <2>1. early' = early \cup {src.ses : src \in {x \in gone : late - x.last <= Timeout}}
    BY <1>1 DEF a, n
  <2>2. ASSUME NEW x \in gone PROVE ~(late - x.last <= Timeout)
    <3>1. PICK i \in (n + 1) .. Len(a) : x = a[i]
      BY <2>2
    <3>2. i \in DOMAIN t /\ a[i].seen + Timeout < late
      BY <1>5, <1>6, <1>7
    <3>3. a[i] \in Entry /\ a[i].last <= a[i].seen
      BY <1>5, <3>2
    <3>4. QED
      BY <1>3, <3>1, <3>2, <3>3 DEF Entry
  <2>3. early = {}
    BY DEF UdpInv
  <2> HIDE DEF gone
  <2>4. {src.ses : src \in {x \in gone : late - x.last <= Timeout}} = {}
    BY <2>2
  <2>5. QED
    BY <2>1, <2>3, <2>4
<1>16. Listening'
  BY <1>2 DEF UdpInv, Listening, Udp!listenVars
<1>17. QED
  BY <1>2, <1>3, <1>8, <1>11, <1>12, <1>13, <1>14, <1>15, <1>16 DEF UdpInv, UdpType

-----------------------------------------------------------------------------
(* What follows for the UDP input.                                           *)

\* Every step of the input.
LEMMA UdpMoves ==
    ASSUME UdpInv, Udp!Next \/ UNCHANGED Udp!udpVars
    PROVE  UdpInv' /\ (Udp!S!Next \/ UNCHANGED udpTold)
<1>1. CASE Udp!EpollCreate \/ Udp!ListenerBind \/ Udp!TimerInit
  BY <1>1, UdpListens
<1>2. CASE Udp!Tick
  BY <1>2, UdpTicks
<1>3. CASE \E a \in Source : Udp!Malformed(a)
  BY <1>3, UdpIgnores
<1>4. CASE \E a \in Source, hello \in Udp!CanHello, m \in Udp!CanMsg : Udp!Datagram(a, hello, m)
  <2>1. Udp!CanHello \subseteq BOOLEAN /\ Udp!CanMsg \subseteq BOOLEAN
    BY DEF Udp!CanHello, Udp!CanMsg
  <2>2. PICK a \in Source, hello \in Udp!CanHello, m \in Udp!CanMsg : Udp!Datagram(a, hello, m)
    BY <1>4
  <2>3. QED
    BY <2>1, <2>2, UdpHears
<1>5. CASE \E late \in {now, now + 1}, o \in Udp!Outcome : Udp!Timer(late, [s \in Sessions |-> o])
  <2>1. PICK late \in {now, now + 1}, o \in Udp!Outcome : Udp!Timer(late, [s \in Sessions |-> o])
    BY <1>5
  <2>2. Bids([s \in Sessions |-> o])
    BY <2>1 DEF Bids, Udp!Outcome
  <2>3. QED
    BY <2>1, <2>2, UdpChecks
<1>6. CASE \E o \in Udp!Outcome : Udp!UdpDestroy([s \in Sessions |-> o])
  <2>1. PICK o \in Udp!Outcome : Udp!UdpDestroy([s \in Sessions |-> o])
    BY <1>6
  <2>2. Bids([s \in Sessions |-> o])
    BY <2>1 DEF Bids, Udp!Outcome
  <2>3. QED
    BY <2>1, <2>2, UdpIsDestroyed
<1>7. CASE UNCHANGED Udp!udpVars
  <2>1. UNCHANGED <<now, active, udpMade, udpTold, early, checked, udpPc, sockets, descriptors, watched>>
    BY <1>7 DEF Udp!udpVars, Udp!listenVars
  <2>2. Listening'
    BY <2>1 DEF UdpInv, Listening
  <2>3. QED
    BY <2>1, <2>2 DEF UdpInv, UdpType
<1>8. Udp!UdpDone => UNCHANGED Udp!udpVars
  BY DEF Udp!UdpDone
<1>9. QED
  BY <1>1, <1>2, <1>3, <1>4, <1>5, <1>6, <1>7, <1>8 DEF Udp!Next

\* What the invariant gives.
LEMMA UdpHolds ==
    ASSUME UdpInv
    PROVE  Udp!UdpSessionsOwned /\ Udp!TimeoutIsExact /\ Udp!ListenerWhole
<1>1. UdpPlaced(active, udpTold, udpMade) /\ Distinct(active) /\ Timely(active, now, checked)
  BY DEF UdpInv
<1>2. ASSUME NEW s \in Sessions
      PROVE  (\E i \in DOMAIN active : active[i].ses = s) <=> (s <= udpMade /\ ~Udp!S!Ended(udpTold[s]))
  <2>1. CASE Lists(active, s)
    <3>1. PICK i \in DOMAIN active : active[i].ses = s
      BY <2>1 DEF Lists
    <3>2. s <= udpMade /\ (udpTold[s] = <<>> \/ udpTold[s] \in Udp!S!Living)
      BY <1>1, <3>1 DEF UdpPlaced, InStep
    <3>3. <<>> \in Udp!S!Life /\ (udpTold[s] \in Udp!S!Living => udpTold[s] \in Udp!S!Life)
      BY DEF Udp!S!Life
    <3>4. ~Udp!S!Ended(udpTold[s])
      BY <3>2, <3>3, Udp!S!LifeOrderly
    <3>5. QED
      BY <3>1, <3>2, <3>4
  <2>2. CASE ~Lists(active, s)
    <3>1. s <= udpMade => Udp!S!Ended(udpTold[s])
      BY <1>1, <2>2, Udp!S!OverOrderly DEF UdpPlaced
    <3>2. QED
      BY <2>2, <3>1 DEF Lists
  <2>3. QED
    BY <2>1, <2>2
<1>3. Udp!UdpSessionsOwned
  BY <1>1, <1>2 DEF Udp!UdpSessionsOwned, Distinct
<1>4. Udp!TimeoutIsExact
  BY <1>1 DEF Udp!TimeoutIsExact, Timely, InTime, UdpInv
<1>5. Udp!ListenerWhole
  <2>1. Listening
    BY DEF UdpInv
  <2>2. watched \subseteq descriptors
    BY <2>1 DEF Listening
  <2>3. QED
    BY <2>1, <2>2 DEF Listening, Udp!ListenerWhole
<1>6. QED
  BY <1>3, <1>4, <1>5

-----------------------------------------------------------------------------
(* TCP.  The inductive invariant.                                            *)

Conn == [ses : Sessions, fresh : BOOLEAN, polled : BOOLEAN]
TcpType ==
    /\ tcpMade \in Nat /\ conns \in Seq(Conn) /\ tcpTold \in [Sessions -> Tcp!S!Life]
    /\ batch \in Seq(Sessions) /\ closing \in Sessions \cup {0}

\* Each connection has a session of its own, which lives.
Apart(cs) == \A i, j \in DOMAIN cs : i # j => cs[i].ses # cs[j].ses
Lives(c, told) == IF c.fresh THEN told[c.ses] = <<>> ELSE told[c.ses] \in Tcp!S!Living
Holds(cs, s) == \E i \in DOMAIN cs : cs[i].ses = s
TcpPlaced(cs, told, made) ==
    /\ \A i \in DOMAIN cs : cs[i].ses <= made /\ Lives(cs[i], told)
    /\ \A s \in Sessions : s > made => told[s] = <<>>
    /\ \A s \in Sessions : s <= made /\ ~Holds(cs, s) => told[s] \in Tcp!S!Over

\* What the getter holds is in the list, each once.
Held(b, c, cs) ==
    /\ \A i \in DOMAIN b : Holds(cs, b[i]) /\ b[i] # c
    /\ \A i, j \in DOMAIN b : i # j => b[i] # b[j]
    /\ c # 0 => Holds(cs, c)

\* The getter holds something only while it works, and the connections are
\* closed when the acceptor is gone.
TcpPhases ==
    /\ tcpPc # "work" => batch = <<>> /\ closing = 0
    /\ tcpPc \in {"closeall", "gone"} => acceptor = "gone"
    /\ tcpPc = "gone" => conns = <<>>

TcpInv == /\ TcpType /\ Apart(conns) /\ TcpPlaced(conns, tcpTold, tcpMade)
          /\ Held(batch, closing, conns) /\ TcpPhases

\* A list of connections and its positions.
LEMMA ConnFacts ==
    ASSUME NEW cs \in Seq(Conn)
    PROVE  /\ Len(cs) \in Nat /\ DOMAIN cs = 1 .. Len(cs)
           /\ \A i \in DOMAIN cs : cs[i] \in Conn
  OBVIOUS

\* The start.
LEMMA TcpStarts == Tcp!Init => TcpInv
<1>1. Tcp!Init => TcpType
  <2>1. SUFFICES ASSUME Tcp!Init PROVE TcpType
    OBVIOUS
  <2>2. tcpTold = [s \in Sessions |-> <<>>]
    BY <2>1 DEF Tcp!Init, Tcp!S!Init
  <2>3. <<>> \in Tcp!S!Life
    BY DEF Tcp!S!Life
  <2>4. tcpTold \in [Sessions -> Tcp!S!Life]
    BY <2>2, <2>3
  <2>5. QED
    BY <2>1, <2>4 DEF Tcp!Init, TcpType
<1>2. Tcp!Init => Apart(conns) /\ Held(batch, closing, conns) /\ TcpPhases
  BY DEF Tcp!Init, Apart, Held, TcpPhases
<1>3. Tcp!Init => TcpPlaced(conns, tcpTold, tcpMade)
  BY TcpConstants DEF Tcp!Init, Tcp!S!Init, TcpPlaced, Holds
<1>4. QED
  BY <1>1, <1>2, <1>3 DEF TcpInv

\* The acceptor adds to the list whatever the getter does.
LEMMA TcpAccepts ==
    ASSUME TcpInv, NEW polled \in BOOLEAN, Tcp!Accept(polled)
    PROVE  TcpInv' /\ UNCHANGED tcpTold
<1> USE TcpConstants
<1> DEFINE new == [ses |-> tcpMade + 1, fresh |-> TRUE, polled |-> polled]
<1>1. /\ acceptor = "run" /\ tcpMade + 1 \in Sessions /\ tcpMade' = tcpMade + 1
      /\ conns' = Append(conns, new)
      /\ UNCHANGED <<acceptor, command, batch, closing, tcpTold, tcpPc>>
  BY DEF Tcp!Accept
<1>2. tcpMade \in Nat /\ conns \in Seq(Conn) /\ tcpTold \in [Sessions -> Tcp!S!Life]
  BY DEF TcpInv, TcpType
<1>3. new \in Conn /\ new.ses = tcpMade + 1 /\ new.fresh
  BY <1>1 DEF Conn
<1> HIDE DEF new
<1>4. /\ conns' \in Seq(Conn) /\ Len(conns) \in Nat /\ DOMAIN conns = 1 .. Len(conns)
      /\ DOMAIN conns' = 1 .. Len(conns) + 1 /\ conns'[Len(conns) + 1] = new
      /\ \A i \in 1 .. Len(conns) : conns'[i] = conns[i]
  BY <1>1, <1>2, <1>3
<1>5. \A i \in 1 .. Len(conns) : conns[i].ses <= tcpMade /\ Lives(conns[i], tcpTold)
  BY <1>4 DEF TcpInv, TcpPlaced
<1>6. \A i \in 1 .. Len(conns) : conns[i].ses \in Nat /\ conns[i].ses # tcpMade + 1
  <2>1. ASSUME NEW i \in 1 .. Len(conns) PROVE conns[i].ses \in Nat /\ conns[i].ses # tcpMade + 1
    <3>1. conns[i] \in Conn
      BY <1>2, <1>4, ConnFacts
    <3>2. conns[i].ses \in Nat
      BY <3>1 DEF Conn
    <3>3. QED
      BY <1>2, <1>5, <3>2
  <2>2. QED
    BY <2>1
<1>7. Apart(conns')
  BY <1>3, <1>4, <1>6 DEF Apart, TcpInv
<1>8. \A s \in Sessions : Holds(conns, s) => Holds(conns', s)
  BY <1>4 DEF Holds
<1>9. Held(batch', closing', conns')
  <2>1. Held(batch, closing, conns) /\ closing \in Sessions \cup {0} /\ batch \in Seq(Sessions)
    BY DEF TcpInv, TcpType
  <2>2. \A i \in DOMAIN batch : batch[i] \in Sessions
    BY <2>1
  <2>3. QED
    BY <1>1, <1>8, <2>1, <2>2 DEF Held
<1>10. TcpPlaced(conns', tcpTold', tcpMade')
  <2>1. TcpPlaced(conns, tcpTold, tcpMade)
    BY DEF TcpInv
  <2>2. Lives(new, tcpTold)
    <3>1. tcpTold[tcpMade + 1] = <<>>
      BY <1>1, <1>2, <2>1 DEF TcpPlaced
    <3>2. QED
      BY <1>3, <3>1 DEF Lives
  <2>3. ASSUME NEW i \in DOMAIN conns'
        PROVE  conns'[i].ses <= tcpMade' /\ Lives(conns'[i], tcpTold')
    <3>1. CASE i = Len(conns) + 1
      BY <1>1, <1>2, <1>3, <1>4, <2>2, <3>1
    <3>2. CASE i # Len(conns) + 1
      <4>1. i \in 1 .. Len(conns) /\ conns'[i] = conns[i]
        BY <1>4, <2>3, <3>2
      <4>2. conns[i].ses \in Nat /\ conns[i].ses <= tcpMade /\ Lives(conns[i], tcpTold)
        BY <1>5, <1>6, <4>1
      <4>3. QED
        BY <1>1, <1>2, <4>1, <4>2
    <3>3. QED
      BY <3>1, <3>2
  <2>4. \A s \in Sessions : s > tcpMade' => tcpTold'[s] = <<>>
    BY <1>1, <1>2, <2>1 DEF TcpPlaced
  <2>5. ASSUME NEW s \in Sessions, s <= tcpMade', ~Holds(conns', s) PROVE tcpTold'[s] \in Tcp!S!Over
    <3>1. s # tcpMade + 1
      BY <1>3, <1>4, <2>5 DEF Holds
    <3>2. ~Holds(conns, s) /\ s <= tcpMade
      BY <1>1, <1>2, <1>8, <2>5, <3>1
    <3>3. QED
      BY <1>1, <2>1, <3>2 DEF TcpPlaced
  <2>6. QED
    BY <2>3, <2>4, <2>5 DEF TcpPlaced
<1>11. TcpPhases'
  BY <1>1 DEF TcpPhases, TcpInv
<1>12. QED
  BY <1>1, <1>2, <1>4, <1>7, <1>9, <1>10, <1>11 DEF TcpInv, TcpType

\* Steps that leave the connections alone.
LEMMA TcpTurns ==
    ASSUME TcpInv, Tcp!AcceptorExit \/ Tcp!Return \/ Tcp!Stop \/ Tcp!Join
    PROVE  TcpInv' /\ UNCHANGED tcpTold
<1>1. UNCHANGED <<conns, batch, closing, tcpMade, tcpTold>>
  BY DEF Tcp!AcceptorExit, Tcp!Return, Tcp!Stop, Tcp!Join
<1>2. TcpType' /\ Apart(conns') /\ TcpPlaced(conns', tcpTold', tcpMade')
      /\ Held(batch', closing', conns')
  BY <1>1 DEF TcpInv, TcpType
<1>3. TcpPhases'
  BY DEF Tcp!AcceptorExit, Tcp!Return, Tcp!Stop, Tcp!Join, TcpInv, TcpPhases
<1>4. QED
  BY <1>1, <1>2, <1>3 DEF TcpInv

\* The getter takes a batch of ready connections.
LEMMA TcpWaits ==
    ASSUME TcpInv, Tcp!Wait
    PROVE  TcpInv' /\ UNCHANGED tcpTold
<1>1. /\ tcpPc = "idle" /\ tcpPc' = "work"
      /\ UNCHANGED <<acceptor, command, conns, closing, tcpMade, tcpTold>>
  BY DEF Tcp!Wait
<1>2. PICK R \in SUBSET {c.ses : c \in Tcp!Ready} :
          Tcp!Cardinality(R) \in 1 .. Batch /\ batch' \in Tcp!SetToSeqs(R)
  BY DEF Tcp!Wait
<1>3. \A s \in R : Holds(conns, s) /\ s \in Sessions
  <2>1. ASSUME NEW s \in R PROVE Holds(conns, s) /\ s \in Sessions
    <3>1. PICK c \in Tcp!Ready : c.ses = s
      BY <1>2
    <3>2. PICK i \in DOMAIN conns : conns[i] = c
      BY DEF Tcp!Ready, Tcp!Range
    <3>3. conns[i] \in Conn
      BY ConnFacts DEF TcpInv, TcpType
    <3>4. QED
      BY <3>1, <3>2, <3>3 DEF Holds, Conn
  <2>2. QED
    BY <2>1
<1>4. Tcp!Cardinality(R) \in Nat
  BY <1>2, TcpConstants
<1>5. /\ batch' \in [1 .. Tcp!Cardinality(R) -> R]
      /\ \A i, j \in DOMAIN batch' : batch'[i] = batch'[j] => i = j
  BY <1>2 DEF Tcp!SetToSeqs, Tcp!IsInjective
<1>6. batch' \in Seq(Sessions) /\ \A i \in DOMAIN batch' : batch'[i] \in R
  BY <1>3, <1>4, <1>5
<1>7. closing' = 0 /\ 0 \notin Sessions
  BY <1>1, TcpConstants DEF TcpInv, TcpPhases
<1>8. Held(batch', closing', conns')
  BY <1>1, <1>3, <1>5, <1>6, <1>7 DEF Held
<1>9. TcpPhases'
  BY <1>1 DEF TcpPhases
<1>10. QED
  BY <1>1, <1>6, <1>8, <1>9 DEF TcpInv, TcpType

-----------------------------------------------------------------------------
(* A receive: what is said of the session of a connection that is listed.    *)

\* A connection that is held is found.
LEMMA IndexFacts ==
    ASSUME NEW s, Holds(conns, s)
    PROVE  Tcp!Index(s) \in DOMAIN conns /\ conns[Tcp!Index(s)].ses = s /\ Tcp!Known(s)
  BY DEF Tcp!Index, Tcp!Known, Holds

\* What receiving says of a connection leaves its session alive.
LEMMA HeardFacts ==
    ASSUME NEW c \in Conn, NEW told, Lives(c, told),
           NEW res, NEW open \in BOOLEAN, NEW m \in BOOLEAN
    PROVE  LET said == Tcp!Heard(c, res, open, m)
           IN  /\ said \in Seq(Tcp!S!Event)
               /\ IF c.fresh /\ said = <<>> THEN Tcp!S!Told(told[c.ses], said) = <<>>
                  ELSE Tcp!S!Told(told[c.ses], said) \in Tcp!S!Living
<1> DEFINE said == Tcp!Heard(c, res, open, m)
<1>1. /\ <<>> \in Seq(Tcp!S!Event) /\ <<"data">> \in Seq(Tcp!S!Event) /\ <<"open">> \in Seq(Tcp!S!Event)
      /\ <<"open", "data">> \in Seq(Tcp!S!Event)
      /\ "open" \in Tcp!S!Event /\ "data" \in Tcp!S!Event
      /\ <<"open">> # <<>> /\ <<"open", "data">> # <<>>
  BY DEF Tcp!S!Event
<1>2. /\ <<>> \o <<>> = <<>> /\ <<>> \o <<"data">> = <<"data">> /\ <<"open">> \o <<>> = <<"open">>
      /\ <<"open">> \o <<"data">> = <<"open", "data">>
  <2>1. ASSUME NEW u, u \in Seq(Tcp!S!Event) PROVE u \o <<>> = u /\ <<>> \o u = u
    BY <2>1
  <2>2. <<"open">> \o <<"data">> = <<"open", "data">>
    BY <1>1, Tcp!S!Pair
  <2>3. QED
    BY <1>1, <2>1, <2>2
<1>3. CASE c.fresh
  <2>1. told[c.ses] = <<>>
    BY <1>3 DEF Lives
  <2>2. said \in {<<>>, <<"open">>, <<"open", "data">>}
    BY <1>2, <1>3 DEF Tcp!Heard
  <2>3. Tcp!S!Told(<<>>, <<"open">>) \in Tcp!S!Living /\ Tcp!S!Told(<<>>, <<"open", "data">>) \in Tcp!S!Living
    BY Tcp!S!TellFirst
  <2>4. Tcp!S!Told(<<>>, <<>>) = <<>>
    BY Tcp!S!TellNothing DEF Tcp!S!Life
  <2> HIDE DEF said
  <2>5. CASE said = <<>>
    BY <1>1, <1>3, <2>1, <2>4, <2>5 DEF said
  <2>6. CASE said = <<"open">>
    BY <1>1, <2>1, <2>3, <2>6 DEF said
  <2>7. CASE said = <<"open", "data">>
    BY <1>1, <2>1, <2>3, <2>7 DEF said
  <2>8. QED
    BY <2>2, <2>5, <2>6, <2>7
<1>4. CASE ~c.fresh
  <2>1. told[c.ses] \in Tcp!S!Living
    BY <1>4 DEF Lives
  <2>2. said \in {<<>>, <<"data">>}
    BY <1>2, <1>4 DEF Tcp!Heard
  <2>3. Tcp!S!Told(told[c.ses], <<"data">>) \in Tcp!S!Living
    BY <2>1, Tcp!S!TellData
  <2>4. Tcp!S!Told(told[c.ses], <<>>) \in Tcp!S!Living
    BY <2>1, Tcp!S!TellNothing DEF Tcp!S!Life
  <2> HIDE DEF said
  <2>5. CASE said = <<>>
    BY <1>1, <1>4, <2>4, <2>5 DEF said
  <2>6. CASE said = <<"data">>
    BY <1>1, <1>4, <2>3, <2>6 DEF said
  <2>7. QED
    BY <2>2, <2>5, <2>6
<1>5. QED
  BY <1>3, <1>4

\* The getter receives on the next connection of its batch.
LEMMA TcpReceives ==
    ASSUME TcpInv, NEW res \in Tcp!Result, NEW open \in BOOLEAN, NEW m \in BOOLEAN,
           Tcp!Receive(res, open, m)
    PROVE  TcpInv' /\ Tcp!S!Next
<1> USE TcpConstants
<1> DEFINE i == Tcp!Index(Head(batch))
           c == conns[i]
           said == Tcp!Heard(c, res, open, m)
<1>1. /\ tcpPc = "work" /\ closing = 0 /\ batch # <<>> /\ batch' = Tail(batch)
      /\ tcpTold' = Tcp!S!Say(tcpTold, c.ses, said)
      /\ conns' = [conns EXCEPT ![Tcp!Index(c.ses)].fresh = @ /\ said = <<>>]
      /\ closing' \in {c.ses, 0}
      /\ UNCHANGED <<acceptor, command, tcpMade, tcpPc>>
  BY DEF Tcp!Receive
<1>2. /\ tcpMade \in Nat /\ conns \in Seq(Conn) /\ tcpTold \in [Sessions -> Tcp!S!Life]
      /\ batch \in Seq(Sessions)
  BY DEF TcpInv, TcpType
<1>3. /\ batch' \in Seq(Sessions) /\ Len(batch) \in Nat /\ 1 \in DOMAIN batch
      /\ DOMAIN batch = 1 .. Len(batch) /\ DOMAIN batch' = 1 .. Len(batch) - 1
      /\ Head(batch) = batch[1] /\ \A k \in 1 .. Len(batch) - 1 : batch'[k] = batch[k + 1]
  BY <1>1, <1>2
<1>4. /\ i \in DOMAIN conns /\ c.ses = Head(batch) /\ Tcp!Index(c.ses) = i
  <2>1. Holds(conns, Head(batch))
    BY <1>3 DEF TcpInv, Held
  <2>2. QED
    BY <2>1, IndexFacts
<1>5. /\ c \in Conn /\ DOMAIN conns = 1 .. Len(conns) /\ \A k \in DOMAIN conns : conns[k] \in Conn
      /\ Lives(c, tcpTold)
  BY <1>2, <1>4, ConnFacts DEF TcpInv, TcpPlaced
<1>6. c.ses \in Sessions /\ c.fresh \in BOOLEAN /\ c.ses # 0
  BY <1>5 DEF Conn
<1>7. /\ said \in Seq(Tcp!S!Event)
      /\ IF c.fresh /\ said = <<>> THEN Tcp!S!Told(tcpTold[c.ses], said) = <<>>
         ELSE Tcp!S!Told(tcpTold[c.ses], said) \in Tcp!S!Living
  BY <1>5, HeardFacts
<1> HIDE DEF i, c, said
<1>8. /\ tcpTold' \in [Sessions -> Tcp!S!Life] /\ Tcp!S!Next
      /\ (IF c.fresh /\ said = <<>> THEN tcpTold'[c.ses] = <<>> ELSE tcpTold'[c.ses] \in Tcp!S!Living)
      /\ \A r \in Sessions : r # c.ses => tcpTold'[r] = tcpTold[r]
  <2>1. Tcp!S!Told(tcpTold[c.ses], said) \in Tcp!S!Life
    BY <1>7 DEF Tcp!S!Life
  <2>2. /\ tcpTold' \in [Sessions -> Tcp!S!Life] /\ Tcp!S!Next
        /\ tcpTold'[c.ses] = Tcp!S!Told(tcpTold[c.ses], said)
        /\ \A r \in Sessions : r # c.ses => tcpTold'[r] = tcpTold[r]
    BY <1>1, <1>2, <1>6, <1>7, <2>1, Tcp!S!SayIsNext
  <2>3. QED
    BY <1>7, <2>2
<1>9. /\ conns' \in Seq(Conn) /\ DOMAIN conns' = DOMAIN conns
      /\ \A k \in DOMAIN conns : k # i => conns'[k] = conns[k]
      /\ conns'[i].ses = c.ses /\ (conns'[i].fresh <=> c.fresh /\ said = <<>>)
  <2> DEFINE f == (c.fresh /\ said = <<>>)
             new == [c EXCEPT !.fresh = f]
  <2>1. f \in BOOLEAN
    OBVIOUS
  <2> HIDE DEF f
  <2>2. new \in Conn /\ new.ses = c.ses /\ new.fresh = f
    BY <1>5, <2>1 DEF Conn
  <2>3. conns' = [conns EXCEPT ![i] = new]
    BY <1>1, <1>4 DEF c, f
  <2> HIDE DEF new
  <2>4. /\ conns' \in Seq(Conn) /\ DOMAIN conns' = DOMAIN conns /\ conns'[i] = new
        /\ \A k \in DOMAIN conns : k # i => conns'[k] = conns[k]
    BY <1>2, <1>4, <2>2, <2>3
  <2>5. QED
    BY <2>2, <2>4, Zenon DEF f
<1>10. /\ \A k \in DOMAIN conns : conns'[k].ses = conns[k].ses
       /\ \A s \in Sessions : Holds(conns', s) <=> Holds(conns, s)
  <2>1. \A k \in DOMAIN conns : conns'[k].ses = conns[k].ses
    BY <1>9 DEF c
  <2>2. QED
    BY <1>9, <2>1 DEF Holds
<1>11. Apart(conns')
  BY <1>9, <1>10 DEF TcpInv, Apart
<1>12. TcpPlaced(conns', tcpTold', tcpMade')
  <2>1. TcpPlaced(conns, tcpTold, tcpMade) /\ tcpMade' = tcpMade
    BY <1>1 DEF TcpInv
  <2>2. ASSUME NEW k \in DOMAIN conns' PROVE conns'[k].ses <= tcpMade' /\ Lives(conns'[k], tcpTold')
    <3>1. k \in DOMAIN conns /\ conns[k].ses <= tcpMade /\ Lives(conns[k], tcpTold)
      BY <1>9, <2>1, <2>2 DEF TcpPlaced
    <3>2. CASE k = i
      BY <1>8, <1>9, <1>10, <2>1, <3>1, <3>2 DEF Lives
    <3>3. CASE k # i
      <4>1. conns[k].ses \in Sessions /\ conns[k].ses # c.ses /\ conns'[k] = conns[k]
        BY <1>4, <1>5, <1>9, <3>1, <3>3 DEF Conn, TcpInv, Apart, c
      <4>2. QED
        BY <1>8, <2>1, <3>1, <4>1 DEF Lives
    <3>4. QED
      BY <3>2, <3>3
  <2>3. c.ses <= tcpMade /\ Holds(conns, c.ses)
    BY <1>4, <2>1 DEF TcpPlaced, Holds, c
  <2>4. ASSUME NEW s \in Sessions, s > tcpMade' PROVE tcpTold'[s] = <<>>
    BY <1>2, <1>6, <1>8, <2>1, <2>3, <2>4 DEF TcpPlaced
  <2>5. ASSUME NEW s \in Sessions, s <= tcpMade', ~Holds(conns', s) PROVE tcpTold'[s] \in Tcp!S!Over
    BY <1>8, <1>10, <2>1, <2>3, <2>5 DEF TcpPlaced
  <2>6. QED
    BY <2>2, <2>4, <2>5 DEF TcpPlaced
<1>13. Held(batch', closing', conns')
  <2>1. Held(batch, closing, conns)
    BY DEF TcpInv
  <2>2. ASSUME NEW k \in DOMAIN batch'
        PROVE  /\ k + 1 \in DOMAIN batch /\ batch'[k] = batch[k + 1] /\ batch'[k] # c.ses
               /\ batch'[k] \in Sessions /\ Holds(conns, batch'[k])
    <3>1. k + 1 \in DOMAIN batch /\ batch'[k] = batch[k + 1] /\ k + 1 # 1
      BY <1>3, <2>2
    <3>2. batch[k + 1] \in Sessions
      BY <1>2, <3>1
    <3>3. QED
      BY <1>3, <1>4, <2>1, <3>1, <3>2 DEF Held
  <2>3. \A k \in DOMAIN batch' : Holds(conns', batch'[k]) /\ batch'[k] # closing'
    BY <1>1, <1>10, <2>2
  <2>4. ASSUME NEW k \in DOMAIN batch', NEW l \in DOMAIN batch', k # l PROVE batch'[k] # batch'[l]
    <3>1. k + 1 # l + 1
      BY <1>3, <2>4
    <3>2. QED
      BY <2>1, <2>2, <3>1 DEF Held
  <2>5. closing' # 0 => Holds(conns', closing')
    BY <1>1, <1>4, <1>6, <1>10 DEF Holds, c
  <2>6. QED
    BY <2>3, <2>4, <2>5 DEF Held
<1>14. TcpPhases'
  BY <1>1 DEF TcpPhases
<1>15. closing' \in Sessions \cup {0}
  BY <1>1, <1>6
<1>16. QED
  BY <1>1, <1>2, <1>3, <1>8, <1>9, <1>11, <1>12, <1>13, <1>14, <1>15 DEF TcpInv, TcpType

-----------------------------------------------------------------------------
(* A close.                                                                  *)

\* Removing a connection, by the last one in its place, removes just that one.
LEMMA WithoutFacts ==
    ASSUME conns \in Seq(Conn), Apart(conns), NEW i \in DOMAIN conns
    PROVE  /\ Tcp!Without(i) \in Seq(Conn) /\ Apart(Tcp!Without(i))
           /\ \A k \in DOMAIN Tcp!Without(i) : \E l \in DOMAIN conns : l # i /\ Tcp!Without(i)[k] = conns[l]
           /\ \A s : Holds(Tcp!Without(i), s) <=> Holds(conns, s) /\ s # conns[i].ses
<1> DEFINE n == Len(conns)
           moved == [conns EXCEPT ![i] = conns[n]]
           w == SubSeq(moved, 1, n - 1)
<1>1. n \in Nat /\ DOMAIN conns = 1 .. n /\ (\A k \in DOMAIN conns : conns[k] \in Conn)
  BY ConnFacts
<1>2. n \in DOMAIN conns /\ n - 1 \in Nat /\ i \in 1 .. n /\ conns[n] \in Conn
  BY <1>1
<1>3. /\ moved \in Seq(Conn) /\ Len(moved) = n
      /\ \A k \in 1 .. n : moved[k] = conns[IF k = i THEN n ELSE k]
  BY <1>1, <1>2
<1> HIDE DEF moved
<1>4. w \in Seq(Conn) /\ DOMAIN w = 1 .. n - 1 /\ \A k \in 1 .. n - 1 : w[k] = moved[k]
  BY <1>1, <1>2, <1>3
<1>5. w = Tcp!Without(i)
  BY DEF Tcp!Without, moved
<1> HIDE DEF w, n
<1>6. \A k \in 1 .. n - 1 : w[k] = conns[IF k = i THEN n ELSE k]
  BY <1>1, <1>2, <1>3, <1>4
<1>7. \A k \in DOMAIN w : (IF k = i THEN n ELSE k) \in DOMAIN conns /\ (IF k = i THEN n ELSE k) # i
  BY <1>1, <1>2, <1>4
<1>8. Apart(w)
  <2>1. ASSUME NEW j \in DOMAIN w, NEW k \in DOMAIN w, j # k PROVE w[j].ses # w[k].ses
    <3>1. (IF j = i THEN n ELSE j) # (IF k = i THEN n ELSE k)
      BY <1>1, <1>2, <1>4, <2>1
    <3>2. QED
      BY <1>4, <1>6, <1>7, <2>1, <3>1 DEF Apart
  <2>2. QED
    BY <2>1 DEF Apart
<1>9. \A k \in DOMAIN w : \E l \in DOMAIN conns : l # i /\ w[k] = conns[l]
  BY <1>4, <1>6, <1>7
<1>10. \A l \in DOMAIN conns : l # i => \E k \in DOMAIN w : w[k] = conns[l]
  <2>1. ASSUME NEW l \in DOMAIN conns, l # i PROVE \E k \in DOMAIN w : w[k] = conns[l]
    <3>1. CASE l = n
      <4>1. i \in 1 .. n - 1
        BY <1>1, <1>2, <2>1, <3>1
      <4>2. QED
        BY <1>4, <1>6, <3>1, <4>1
    <3>2. CASE l # n
      <4>1. l \in 1 .. n - 1
        BY <1>1, <1>2, <2>1, <3>2
      <4>2. QED
        BY <1>4, <1>6, <2>1, <4>1
    <3>3. QED
      BY <3>1, <3>2
  <2>2. QED
    BY <2>1
<1>11. \A s : Holds(w, s) <=> Holds(conns, s) /\ s # conns[i].ses
  BY <1>9, <1>10 DEF Holds, Apart
<1>12. QED
  BY <1>4, <1>5, <1>8, <1>9, <1>11

\* What closing says of a connection ends the life of its session.
LEMMA ConnFarewell ==
    ASSUME NEW c \in Conn, NEW told, Lives(c, told), NEW out \in Tcp!Outcome
    PROVE  Tcp!Farewell(c, out) \in Seq(Tcp!S!Event) /\ Tcp!S!Told(told[c.ses], Tcp!Farewell(c, out)) \in Tcp!S!Over
<1>1. CASE c.fresh
  <2>1. told[c.ses] = <<>> /\ Tcp!Farewell(c, out) = <<"destroy">>
    BY <1>1 DEF Lives, Tcp!Farewell
  <2>2. <<"destroy">> \in Seq(Tcp!S!Event)
    BY DEF Tcp!S!Event
  <2>3. Tcp!S!Told(<<>>, <<"destroy">>) \in Tcp!S!Over
    BY Tcp!S!TellFirst
  <2>4. QED
    BY <2>1, <2>2, <2>3
<1>2. CASE ~c.fresh
  <2>1. told[c.ses] \in Tcp!S!Living
    BY <1>2 DEF Lives
  <2>2. Tcp!Farewell(c, out) \in Tcp!S!Endings
    <3>1. CASE out = "nothing"
      BY <1>2, <3>1 DEF Tcp!Farewell, Tcp!S!Endings
    <3>2. CASE out = "close"
      BY <1>2, <3>2 DEF Tcp!Farewell, Tcp!S!Endings
    <3>3. CASE out = "all"
      BY <1>2, <3>3 DEF Tcp!Farewell, Tcp!S!Endings
    <3>4. QED
      BY <3>1, <3>2, <3>3 DEF Tcp!Outcome
  <2>3. QED
    BY <2>1, <2>2, Tcp!S!TellEnd, Tcp!S!EndingShape
<1>3. QED
  BY <1>1, <1>2

\* The connection leaves the list, and its session is over; the others stay.
LEMMA TcpCloses ==
    ASSUME TcpInv, NEW s \in Sessions, Holds(conns, s), NEW out \in Tcp!Outcome,
           Tcp!CloseConnection(s, out), UNCHANGED tcpMade
    PROVE  /\ conns' \in Seq(Conn) /\ Apart(conns') /\ tcpTold' \in [Sessions -> Tcp!S!Life]
           /\ TcpPlaced(conns', tcpTold', tcpMade') /\ Tcp!S!Next
           /\ \A r : Holds(conns', r) <=> Holds(conns, r) /\ r # s
<1> USE TcpConstants
<1> DEFINE i == Tcp!Index(s)
           ev == Tcp!Farewell(conns[i], out)
<1>1. i \in DOMAIN conns /\ conns[i].ses = s /\ Tcp!Known(s)
  BY IndexFacts
<1>2. conns' = Tcp!Without(i) /\ tcpTold' = Tcp!S!Say(tcpTold, s, ev)
  BY <1>1 DEF Tcp!CloseConnection
<1>3. /\ conns \in Seq(Conn) /\ Apart(conns) /\ tcpTold \in [Sessions -> Tcp!S!Life]
      /\ TcpPlaced(conns, tcpTold, tcpMade) /\ tcpMade' = tcpMade /\ tcpMade \in Nat
  BY DEF TcpInv, TcpType
<1>4. /\ \A k \in DOMAIN conns : conns[k] \in Conn
      /\ Lives(conns[i], tcpTold) /\ s <= tcpMade
  BY <1>1, <1>3, ConnFacts DEF TcpPlaced
<1>5. ev \in Seq(Tcp!S!Event) /\ Tcp!S!Told(tcpTold[s], ev) \in Tcp!S!Over
  <2>1. conns[i] \in Conn
    BY <1>1, <1>4
  <2>2. QED
    BY <1>1, <1>4, <2>1, ConnFarewell
<1> HIDE DEF i, ev
<1>6. /\ tcpTold' \in [Sessions -> Tcp!S!Life] /\ Tcp!S!Next /\ tcpTold'[s] \in Tcp!S!Over
      /\ \A r \in Sessions : r # s => tcpTold'[r] = tcpTold[r]
  <2>1. Tcp!S!Told(tcpTold[s], ev) \in Tcp!S!Life
    BY <1>5 DEF Tcp!S!Life
  <2>2. QED
    BY <1>2, <1>3, <1>5, <2>1, Tcp!S!SayIsNext
<1>7. /\ conns' \in Seq(Conn) /\ Apart(conns')
      /\ \A k \in DOMAIN conns' : \E l \in DOMAIN conns : l # i /\ conns'[k] = conns[l]
      /\ \A r : Holds(conns', r) <=> Holds(conns, r) /\ r # s
  BY <1>1, <1>2, <1>3, WithoutFacts
<1>8. TcpPlaced(conns', tcpTold', tcpMade')
  <2>1. ASSUME NEW k \in DOMAIN conns' PROVE conns'[k].ses <= tcpMade' /\ Lives(conns'[k], tcpTold')
    <3>1. PICK l \in DOMAIN conns : l # i /\ conns'[k] = conns[l]
      BY <1>7
    <3>2. conns[l].ses \in Sessions /\ conns[l].ses # s
      BY <1>1, <1>3, <1>4, <3>1 DEF Conn, Apart
    <3>3. conns[l].ses <= tcpMade /\ Lives(conns[l], tcpTold)
      BY <1>3 DEF TcpPlaced
    <3>4. tcpTold'[conns[l].ses] = tcpTold[conns[l].ses]
      BY <1>6, <3>2
    <3>5. QED
      BY <1>3, <3>1, <3>3, <3>4 DEF Lives
  <2>2. ASSUME NEW r \in Sessions, r > tcpMade' PROVE tcpTold'[r] = <<>>
    BY <1>3, <1>4, <1>6, <2>2 DEF TcpPlaced
  <2>3. ASSUME NEW r \in Sessions, r <= tcpMade', ~Holds(conns', r) PROVE tcpTold'[r] \in Tcp!S!Over
    BY <1>3, <1>6, <1>7, <2>3 DEF TcpPlaced
  <2>4. QED
    BY <2>1, <2>2, <2>3 DEF TcpPlaced
<1>9. QED
  BY <1>6, <1>7, <1>8

\* Closing the connection just received on.
LEMMA TcpClosesReceived ==
    ASSUME TcpInv, NEW out \in Tcp!Outcome, Tcp!CloseReceived(out)
    PROVE  TcpInv' /\ Tcp!S!Next
<1> USE TcpConstants
<1>1. /\ tcpPc = "work" /\ closing # 0 /\ closing' = 0 /\ Tcp!CloseConnection(closing, out)
      /\ UNCHANGED <<acceptor, command, batch, tcpMade, tcpPc>>
  BY DEF Tcp!CloseReceived
<1>2. closing \in Sessions /\ Holds(conns, closing) /\ Held(batch, closing, conns)
      /\ batch \in Seq(Sessions)
  BY <1>1 DEF TcpInv, TcpType, Held
<1>3. /\ conns' \in Seq(Conn) /\ Apart(conns') /\ tcpTold' \in [Sessions -> Tcp!S!Life]
      /\ TcpPlaced(conns', tcpTold', tcpMade') /\ Tcp!S!Next
      /\ \A r : Holds(conns', r) <=> Holds(conns, r) /\ r # closing
  BY <1>1, <1>2, TcpCloses
<1>4. Held(batch', closing', conns')
  <2>1. \A k \in DOMAIN batch : batch[k] \in Sessions /\ batch[k] # 0
    BY <1>2
  <2>2. QED
    BY <1>1, <1>2, <1>3, <2>1 DEF Held
<1>5. TcpPhases'
  BY <1>1 DEF TcpPhases
<1>6. QED
  BY <1>1, <1>2, <1>3, <1>4, <1>5 DEF TcpInv, TcpType

\* A close while the getter is not at work.
LEMMA TcpClosesElse ==
    ASSUME TcpInv, NEW s \in Sessions, NEW out \in Tcp!Outcome, Tcp!CloseConnection(s, out),
           tcpPc \notin {"work", "gone"},
           UNCHANGED <<acceptor, command, batch, closing, tcpMade, tcpPc>>
    PROVE  TcpInv' /\ (Tcp!S!Next \/ UNCHANGED tcpTold)
<1> USE TcpConstants
<1>1. batch = <<>> /\ closing = 0 /\ tcpMade \in Nat
  BY DEF TcpInv, TcpPhases, TcpType
<1>2. Held(batch', closing', conns')
  BY <1>1 DEF Held
<1>3. TcpPhases'
  BY DEF TcpInv, TcpPhases
<1>4. CASE Tcp!Known(s)
  <2>1. Holds(conns, s)
    BY <1>4 DEF Tcp!Known, Holds
  <2>2. /\ conns' \in Seq(Conn) /\ Apart(conns') /\ tcpTold' \in [Sessions -> Tcp!S!Life]
        /\ TcpPlaced(conns', tcpTold', tcpMade') /\ Tcp!S!Next
    BY <2>1, TcpCloses
  <2>3. QED
    BY <1>2, <1>3, <2>2 DEF TcpInv, TcpType
<1>5. CASE ~Tcp!Known(s)
  <2>1. UNCHANGED <<conns, tcpTold>>
    BY <1>5 DEF Tcp!CloseConnection
  <2>2. QED
    BY <1>2, <1>3, <2>1 DEF TcpInv, TcpType
<1>6. QED
  BY <1>4, <1>5

\* Closing one connection after the other at the end.
LEMMA TcpClosesAll ==
    ASSUME TcpInv, NEW out \in Tcp!Outcome, Tcp!CloseAll(out)
    PROVE  TcpInv' /\ (Tcp!S!Next \/ UNCHANGED tcpTold)
<1>1. tcpPc = "closeall" /\ UNCHANGED <<acceptor, command, batch, closing, tcpMade>>
  BY DEF Tcp!CloseAll
<1>2. CASE conns = <<>>
  <2>1. tcpPc' = "gone" /\ UNCHANGED <<conns, tcpTold>>
    BY <1>2 DEF Tcp!CloseAll
  <2>2. TcpPhases'
    BY <1>1, <1>2, <2>1 DEF TcpInv, TcpPhases
  <2>3. QED
    BY <1>1, <2>1, <2>2 DEF TcpInv, TcpType
<1>3. CASE conns # <<>>
  <2>1. Tcp!CloseConnection(Tcp!Last(conns).ses, out) /\ UNCHANGED tcpPc
    BY <1>3 DEF Tcp!CloseAll
  <2>2. Tcp!Last(conns) \in Conn
    BY <1>3, ConnFacts DEF TcpInv, TcpType, Tcp!Last
  <2>3. Tcp!Last(conns).ses \in Sessions
    BY <2>2 DEF Conn
  <2>4. QED
    BY <1>1, <2>1, <2>3, TcpClosesElse
<1>4. QED
  BY <1>2, <1>3

-----------------------------------------------------------------------------
(* What follows for the TCP input.                                           *)

\* Every step of the input.
LEMMA TcpMoves ==
    ASSUME TcpInv, Tcp!Next \/ UNCHANGED Tcp!tcpVars
    PROVE  TcpInv' /\ (Tcp!S!Next \/ UNCHANGED tcpTold)
<1>1. CASE \E polled \in BOOLEAN : Tcp!Accept(polled)
  BY <1>1, TcpAccepts
<1>2. CASE Tcp!AcceptorExit \/ Tcp!Return \/ Tcp!Stop \/ Tcp!Join
  BY <1>2, TcpTurns
<1>3. CASE Tcp!Wait
  BY <1>3, TcpWaits
<1>4. CASE \E res \in Tcp!Result, open, m \in BOOLEAN : Tcp!Receive(res, open, m)
  BY <1>4, TcpReceives
<1>5. CASE \E out \in Tcp!Outcome : Tcp!CloseReceived(out) \/ Tcp!CloseAll(out)
  BY <1>5, TcpClosesReceived, TcpClosesAll
<1>6. CASE \E s \in Sessions, out \in Tcp!Outcome : Tcp!CloseRequested(s, out)
  <2>1. PICK s \in Sessions, out \in Tcp!Outcome : Tcp!CloseRequested(s, out)
    BY <1>6
  <2>2. /\ tcpPc = "idle" /\ Tcp!CloseConnection(s, out)
        /\ UNCHANGED <<acceptor, command, batch, closing, tcpMade, tcpPc>>
    BY <2>1 DEF Tcp!CloseRequested
  <2>3. QED
    BY <2>2, TcpClosesElse
<1>7. CASE UNCHANGED Tcp!tcpVars
  BY <1>7 DEF Tcp!tcpVars, TcpInv, TcpType, TcpPhases
<1>8. Tcp!TcpDone => UNCHANGED Tcp!tcpVars
  BY DEF Tcp!TcpDone
<1>9. QED
  BY <1>1, <1>2, <1>3, <1>4, <1>5, <1>6, <1>7, <1>8 DEF Tcp!Next

\* What the invariant gives.
LEMMA TcpHolds ==
    ASSUME TcpInv
    PROVE  Tcp!TcpSessionsOwned /\ Tcp!PointersLive
<1>1. TcpPlaced(conns, tcpTold, tcpMade) /\ Apart(conns) /\ Held(batch, closing, conns)
  BY DEF TcpInv
<1>2. ASSUME NEW s \in Sessions
      PROVE  Tcp!Known(s) <=> (s <= tcpMade /\ ~Tcp!S!Ended(tcpTold[s]))
  <2>1. CASE Holds(conns, s)
    <3>1. PICK i \in DOMAIN conns : conns[i].ses = s
      BY <2>1 DEF Holds
    <3>2. s <= tcpMade /\ (tcpTold[s] = <<>> \/ tcpTold[s] \in Tcp!S!Living)
      BY <1>1, <3>1 DEF TcpPlaced, Lives
    <3>3. <<>> \in Tcp!S!Life /\ (tcpTold[s] \in Tcp!S!Living => tcpTold[s] \in Tcp!S!Life)
      BY DEF Tcp!S!Life
    <3>4. ~Tcp!S!Ended(tcpTold[s])
      BY <3>2, <3>3, Tcp!S!LifeOrderly
    <3>5. QED
      BY <2>1, <3>2, <3>4 DEF Tcp!Known, Holds
  <2>2. CASE ~Holds(conns, s)
    <3>1. s <= tcpMade => Tcp!S!Ended(tcpTold[s])
      BY <1>1, <2>2, Tcp!S!OverOrderly DEF TcpPlaced
    <3>2. QED
      BY <2>2, <3>1 DEF Tcp!Known, Holds
  <2>3. QED
    BY <2>1, <2>2
<1>3. Tcp!TcpSessionsOwned
  BY <1>1, <1>2 DEF Tcp!TcpSessionsOwned, Apart, TcpInv, TcpPhases
<1>4. Tcp!PointersLive
  <2> DEFINE held == batch \o (IF closing = 0 THEN <<>> ELSE <<closing>>)
  <2>1. batch \in Seq(Sessions) /\ closing \in Sessions \cup {0}
    BY DEF TcpInv, TcpType
  <2>2. /\ \A i \in DOMAIN held : Holds(conns, held[i])
        /\ \A i, j \in DOMAIN held : i # j => held[i] # held[j]
    <3>1. CASE closing = 0
      <4>1. held = batch
        BY <2>1, <3>1
      <4>2. QED
        BY <1>1, <4>1 DEF Held
    <3>2. CASE closing # 0
      <4>1. held = Append(batch, closing)
        BY <2>1, <3>2
      <4>2. /\ DOMAIN held = 1 .. Len(batch) + 1 /\ DOMAIN batch = 1 .. Len(batch)
            /\ held[Len(batch) + 1] = closing /\ \A i \in 1 .. Len(batch) : held[i] = batch[i]
            /\ Len(batch) \in Nat
        BY <2>1, <3>2, <4>1
      <4> HIDE DEF held
      <4>3. QED
        BY <1>1, <3>2, <4>2 DEF Held
    <3>3. QED
      BY <3>1, <3>2
  <2> HIDE DEF held
  <2>3. QED
    BY <2>2 DEF Tcp!PointersLive, held, Tcp!Known, Holds
<1>5. QED
  BY <1>3, <1>4

-----------------------------------------------------------------------------
(* Files of IPFIX messages.  The inductive invariant: each session is of a   *)
(* file, and only the session of the open file lives.                        *)

FileType ==
    /\ fileMade \in Nat /\ fileNext \in Nat /\ fileSes \in Sessions \cup {0}
    /\ Len(files) \in Nat /\ fileTold \in [Sessions -> Ipx!S!Life]
FileCount ==
    /\ fileMade < fileNext /\ fileNext <= Len(files) + 1 /\ Len(files) <= Ipx!Cardinality(Sessions)
FilePlaced(ses, told, made) ==
    /\ ses # 0 => ses <= made /\ told[ses] \in Ipx!S!Living
    /\ \A s \in Sessions : s > made => told[s] = <<>>
    /\ \A s \in Sessions : s <= made /\ s # ses => told[s] \in Ipx!S!Over
FileInv ==
    /\ FileType /\ FileCount /\ FilePlaced(fileSes, fileTold, fileMade)
    /\ current # 0 => fileSes # 0

\* The start.
LEMMA FileStarts == Ipx!Init => FileInv
<1> USE FileConstants
<1>1. SUFFICES ASSUME Ipx!Init PROVE FileInv
  OBVIOUS
<1>2. fileTold \in [Sessions -> Ipx!S!Life] /\ \A s \in Sessions : fileTold[s] = <<>>
  <2>1. fileTold = [s \in Sessions |-> <<>>]
    BY <1>1 DEF Ipx!Init, Ipx!S!Init
  <2>2. <<>> \in Ipx!S!Life
    BY DEF Ipx!S!Life
  <2>3. QED
    BY <2>1, <2>2
<1>3. Len(files) \in Nat /\ Len(files) <= Ipx!Cardinality(Sessions)
  <2>1. files \in Ipx!BoundedSeq(FileList, Ipx!Cardinality(Sessions))
    BY <1>1 DEF Ipx!Init
  <2>2. PICK n \in 0 .. Ipx!Cardinality(Sessions) : files \in [1 .. n -> FileList]
    BY <2>1 DEF Ipx!BoundedSeq, Ipx!SeqOf
  <2>3. files \in Seq(FileList) /\ Len(files) = n
    BY <2>2
  <2>4. QED
    BY <2>2, <2>3
<1>4. FilePlaced(fileSes, fileTold, fileMade)
  BY <1>1, <1>2 DEF Ipx!Init, FilePlaced
<1>5. QED
  BY <1>1, <1>2, <1>3, <1>4 DEF Ipx!Init, FileInv, FileType, FileCount

\* The session of the open file is closed, if there is one.
LEMMA ClosedFacts ==
    ASSUME FileInv, NEW out \in Ipx!Outcome, NEW told, told = Ipx!Closed(fileTold, out)
    PROVE  /\ told \in [Sessions -> Ipx!S!Life]
           /\ FilePlaced(0, told, fileMade)
           /\ \A s \in Sessions : Ipx!S!Follows(fileTold[s], told[s])
           /\ \A s \in Sessions : s > fileMade => told[s] = fileTold[s]
<1> USE FileConstants
<1>1. /\ fileTold \in [Sessions -> Ipx!S!Life] /\ fileSes \in Sessions \cup {0} /\ fileMade \in Nat
      /\ FilePlaced(fileSes, fileTold, fileMade)
  BY DEF FileInv, FileType
<1>2. CASE fileSes = 0
  <2>1. told = fileTold
    BY <1>2 DEF Ipx!Closed
  <2>2. QED
    BY <1>1, <1>2, <2>1, Ipx!S!Stays
<1>3. CASE fileSes # 0
  <2>1. PICK ev \in Ipx!S!Endings : told = Ipx!S!Say(fileTold, fileSes, ev)
    <3>1. CASE out = "nothing"
      BY <1>3, <3>1 DEF Ipx!Closed, Ipx!S!Endings
    <3>2. CASE out = "close"
      BY <1>3, <3>2 DEF Ipx!Closed, Ipx!S!Endings
    <3>3. CASE out = "all"
      BY <1>3, <3>3 DEF Ipx!Closed, Ipx!S!Endings
    <3>4. QED
      BY <3>1, <3>2, <3>3 DEF Ipx!Outcome
  <2>2. told = [fileTold EXCEPT ![fileSes] = Ipx!S!Told(@, ev)]
    BY <2>1, Ipx!S!SayIsTold
  <2>3. fileTold[fileSes] \in Ipx!S!Living /\ fileSes <= fileMade /\ fileSes \in Sessions
    BY <1>1, <1>3 DEF FilePlaced
  <2>4. Ipx!S!Told(fileTold[fileSes], ev) \in Ipx!S!Over /\ ev \in Seq(Ipx!S!Event)
    BY <2>3, Ipx!S!TellEnd, Ipx!S!EndingShape
  <2>5. Ipx!S!Told(fileTold[fileSes], ev) \in Ipx!S!Life
    BY <2>4 DEF Ipx!S!Life
  <2>6. /\ told \in [Sessions -> Ipx!S!Life] /\ told[fileSes] = Ipx!S!Told(fileTold[fileSes], ev)
        /\ \A s \in Sessions : s # fileSes => told[s] = fileTold[s]
    BY <1>1, <2>2, <2>3, <2>5
  <2>7. \A s \in Sessions : Ipx!S!Follows(fileTold[s], told[s])
    <3>1. ASSUME NEW s \in Sessions PROVE Ipx!S!Follows(fileTold[s], told[s])
      <4>1. CASE s = fileSes
        BY <2>4, <2>6, <4>1 DEF Ipx!S!Follows
      <4>2. CASE s # fileSes
        <5>1. fileTold[s] \in Ipx!S!Life
          BY <1>1
        <5>2. QED
          BY <2>6, <4>2, <5>1, Ipx!S!Stays
      <4>3. QED
        BY <4>1, <4>2
    <3>2. QED
      BY <3>1
  <2>8. FilePlaced(0, told, fileMade)
    BY <1>1, <2>3, <2>4, <2>6 DEF FilePlaced
  <2>9. \A s \in Sessions : s > fileMade => s # fileSes
    BY <1>1, <2>3
  <2>10. QED
    BY <2>6, <2>7, <2>8, <2>9
<1>4. QED
  BY <1>2, <1>3

\* The next file has a session of its own.
LEMMA FileOpens ==
    ASSUME FileInv, NEW n \in DOMAIN files, NEW out \in Ipx!Outcome, NEW mem \in BOOLEAN,
           Ipx!NextFile(n, out, mem)
    PROVE  FileInv' /\ Ipx!S!Next
<1> USE FileConstants
<1> DEFINE told == Ipx!Closed(fileTold, out)
           made == fileMade + 1
           ev == IF mem THEN <<"open">> ELSE <<"destroy">>
<1>1. /\ n \in fileNext .. Len(files) /\ fileNext' = n + 1 /\ fileMade' = made
      /\ fileTold' = Ipx!S!Say(told, made, ev) /\ UNCHANGED files
      /\ (mem => current' = n /\ fileSes' = made) /\ (~mem => current' = 0 /\ fileSes' = 0)
  BY DEF Ipx!NextFile
<1>2. /\ fileMade \in Nat /\ fileNext \in Nat /\ Len(files) \in Nat
      /\ fileTold \in [Sessions -> Ipx!S!Life] /\ FilePlaced(fileSes, fileTold, fileMade)
      /\ fileMade < fileNext /\ fileNext <= Len(files) + 1 /\ Len(files) <= Ipx!Cardinality(Sessions)
  BY DEF FileInv, FileType, FileCount
<1>3. /\ told \in [Sessions -> Ipx!S!Life] /\ FilePlaced(0, told, fileMade)
      /\ \A s \in Sessions : Ipx!S!Follows(fileTold[s], told[s])
      /\ \A s \in Sessions : s > fileMade => told[s] = fileTold[s]
  BY ClosedFacts
<1> HIDE DEF told
<1>4. n \in Nat /\ made \in Sessions /\ made \in Nat /\ made > fileMade
  BY <1>1, <1>2
<1>5. told[made] = <<>> /\ fileTold[made] = <<>>
  BY <1>2, <1>3, <1>4 DEF FilePlaced
<1>6. /\ ev \in Seq(Ipx!S!Event)
      /\ (mem => Ipx!S!Told(<<>>, ev) \in Ipx!S!Living) /\ (~mem => Ipx!S!Told(<<>>, ev) \in Ipx!S!Over)
  <2>1. <<"open">> \in Seq(Ipx!S!Event) /\ <<"destroy">> \in Seq(Ipx!S!Event)
    BY DEF Ipx!S!Event
  <2>2. Ipx!S!Told(<<>>, <<"open">>) \in Ipx!S!Living /\ Ipx!S!Told(<<>>, <<"destroy">>) \in Ipx!S!Over
    BY Ipx!S!TellFirst
  <2>3. QED
    BY <2>1, <2>2
<1> HIDE DEF ev
<1>7. fileTold' = [told EXCEPT ![made] = Ipx!S!Told(@, ev)]
  BY <1>1, Ipx!S!SayIsTold
<1>8. Ipx!S!Told(<<>>, ev) \in Ipx!S!Life
  BY <1>6 DEF Ipx!S!Life
<1>9. /\ fileTold' \in [Sessions -> Ipx!S!Life] /\ fileTold'[made] = Ipx!S!Told(<<>>, ev)
      /\ \A s \in Sessions : s # made => fileTold'[s] = told[s]
  BY <1>3, <1>4, <1>5, <1>7, <1>8
<1>10. Ipx!S!Next
  <2>1. ASSUME NEW s \in Sessions PROVE Ipx!S!Follows(fileTold[s], fileTold'[s])
    <3>1. CASE s = made
      BY <1>5, <1>6, <1>9, <3>1 DEF Ipx!S!Follows
    <3>2. CASE s # made
      BY <1>3, <1>9, <3>2
    <3>3. QED
      BY <3>1, <3>2
  <2>2. QED
    BY <1>2, <1>9, <2>1, Ipx!S!FollowsIsNext
<1>11. FilePlaced(fileSes', fileTold', fileMade')
  <2>1. \A s \in Sessions : s > made => s # made /\ s > fileMade
    BY <1>2
  <2>2. \A s \in Sessions : s > fileMade' => fileTold'[s] = <<>>
    BY <1>1, <1>3, <1>9, <2>1 DEF FilePlaced
  <2>3. ASSUME NEW s \in Sessions, s <= fileMade', s # made PROVE fileTold'[s] \in Ipx!S!Over
    <3>1. s <= fileMade /\ s # 0
      BY <1>1, <1>2, <2>3
    <3>2. QED
      BY <1>3, <1>9, <2>3, <3>1 DEF FilePlaced
  <2>4. CASE mem
    <3>1. fileSes' = made /\ fileTold'[made] \in Ipx!S!Living /\ made <= fileMade'
      BY <1>1, <1>4, <1>6, <1>9, <2>4
    <3>2. QED
      BY <2>2, <2>3, <3>1 DEF FilePlaced
  <2>5. CASE ~mem
    <3>1. fileSes' = 0 /\ fileTold'[made] \in Ipx!S!Over
      BY <1>1, <1>6, <1>9, <2>5
    <3>2. QED
      BY <2>2, <2>3, <3>1 DEF FilePlaced
  <2>6. QED
    BY <2>4, <2>5
<1>12. FileType' /\ FileCount' /\ (current' # 0 => fileSes' # 0)
  BY <1>1, <1>2, <1>4, <1>9 DEF FileType, FileCount
<1>13. QED
  BY <1>10, <1>11, <1>12 DEF FileInv

\* What closes the open file and opens no other.
LEMMA FileCloses ==
    ASSUME FileInv, NEW out \in Ipx!Outcome, fileTold' = Ipx!Closed(fileTold, out),
           current' = 0, fileSes' = 0, fileNext' \in {fileNext, Len(files) + 1},
           UNCHANGED <<files, fileMade>>
    PROVE  FileInv' /\ Ipx!S!Next
<1> USE FileConstants
<1>1. /\ fileTold' \in [Sessions -> Ipx!S!Life] /\ FilePlaced(0, fileTold', fileMade)
      /\ \A s \in Sessions : Ipx!S!Follows(fileTold[s], fileTold'[s])
  BY ClosedFacts
<1>2. fileTold \in [Sessions -> Ipx!S!Life]
  BY DEF FileInv, FileType
<1>3. Ipx!S!Next
  BY <1>1, <1>2, Ipx!S!FollowsIsNext
<1>4. FileType' /\ FileCount'
  BY <1>1 DEF FileInv, FileType, FileCount
<1>5. QED
  BY <1>1, <1>3, <1>4 DEF FileInv

\* A message of the current file, or a failure to read it.
LEMMA FileReads ==
    ASSUME FileInv, NEW fh \in BOOLEAN, NEW fb \in BOOLEAN, NEW mem \in BOOLEAN,
           Ipx!NextMessage(fh, fb, mem)
    PROVE  FileInv' /\ (Ipx!S!Next \/ UNCHANGED fileTold)
<1>1. /\ current # 0 /\ UNCHANGED <<files, fileNext, current, fileSes, fileMade>>
      /\ UNCHANGED fileTold \/ fileTold' = Ipx!S!Say(fileTold, fileSes, <<"data">>)
  BY DEF Ipx!NextMessage, Ipx!Fatal
<1>2. /\ fileSes \in Sessions /\ fileTold \in [Sessions -> Ipx!S!Life]
      /\ FilePlaced(fileSes, fileTold, fileMade) /\ fileSes # 0
  BY <1>1 DEF FileInv, FileType
<1>3. CASE UNCHANGED fileTold
  BY <1>1, <1>3 DEF FileInv, FileType, FileCount
<1>4. CASE fileTold' = Ipx!S!Say(fileTold, fileSes, <<"data">>)
  <2>1. fileTold[fileSes] \in Ipx!S!Living
    BY <1>2 DEF FilePlaced
  <2>2. <<"data">> \in Seq(Ipx!S!Event) /\ Ipx!S!Told(fileTold[fileSes], <<"data">>) \in Ipx!S!Living
    BY <2>1, Ipx!S!TellData DEF Ipx!S!Event
  <2>3. Ipx!S!Told(fileTold[fileSes], <<"data">>) \in Ipx!S!Life
    BY <2>2 DEF Ipx!S!Life
  <2>4. /\ fileTold' \in [Sessions -> Ipx!S!Life] /\ Ipx!S!Next /\ fileTold'[fileSes] \in Ipx!S!Living
        /\ \A r \in Sessions : r # fileSes => fileTold'[r] = fileTold[r]
    BY <1>2, <1>4, <2>2, <2>3, Ipx!S!SayIsNext
  <2>5. FilePlaced(fileSes', fileTold', fileMade')
    <3>1. fileSes <= fileMade /\ fileMade \in Nat
      BY <1>2 DEF FilePlaced, FileInv, FileType
    <3>2. \A s \in Sessions : s > fileMade => s # fileSes
      BY <1>2, <3>1, FileConstants
    <3>3. QED
      BY <1>1, <1>2, <2>4, <3>2 DEF FilePlaced
  <2>6. QED
    BY <1>1, <2>4, <2>5 DEF FileInv, FileType, FileCount
<1>5. QED
  BY <1>1, <1>3, <1>4

\* Every step of the input.
LEMMA FileMoves ==
    ASSUME FileInv, Ipx!Next \/ UNCHANGED Ipx!fileVars
    PROVE  FileInv' /\ (Ipx!S!Next \/ UNCHANGED fileTold)
<1>1. CASE \E fh, fb, mem \in BOOLEAN : Ipx!NextMessage(fh, fb, mem)
  BY <1>1, FileReads
<1>2. CASE \E n \in DOMAIN files, out \in Ipx!Outcome, mem \in BOOLEAN : Ipx!NextFile(n, out, mem)
  BY <1>2, FileOpens
<1>3. CASE \E out \in Ipx!Outcome : Ipx!NoMoreFiles(out) \/ Ipx!FileDestroy(out)
  <2>1. PICK out \in Ipx!Outcome : Ipx!NoMoreFiles(out) \/ Ipx!FileDestroy(out)
    BY <1>3
  <2>2. /\ fileTold' = Ipx!Closed(fileTold, out) /\ current' = 0 /\ fileSes' = 0
        /\ fileNext' \in {fileNext, Len(files) + 1} /\ UNCHANGED <<files, fileMade>>
    BY <2>1 DEF Ipx!NoMoreFiles, Ipx!FileDestroy
  <2>3. QED
    BY <2>2, FileCloses
<1>4. CASE \E s \in Sessions, out \in Ipx!Outcome : Ipx!SessionClose(s, out)
  <2>1. PICK s \in Sessions, out \in Ipx!Outcome : Ipx!SessionClose(s, out)
    BY <1>4
  <2>2. CASE s = fileSes
    <3>1. /\ fileTold' = Ipx!Closed(fileTold, out) /\ current' = 0 /\ fileSes' = 0
          /\ fileNext' \in {fileNext, Len(files) + 1} /\ UNCHANGED <<files, fileMade>>
      BY <2>1, <2>2 DEF Ipx!SessionClose
    <3>2. QED
      BY <3>1, FileCloses
  <2>3. CASE s # fileSes
    <3>1. UNCHANGED <<files, fileNext, current, fileSes, fileMade, fileTold>>
      BY <2>1, <2>3 DEF Ipx!SessionClose
    <3>2. QED
      BY <3>1 DEF FileInv, FileType, FileCount
  <2>4. QED
    BY <2>2, <2>3
<1>5. CASE UNCHANGED Ipx!fileVars \/ Ipx!NoFile
  <2>1. UNCHANGED <<files, fileNext, current, fileSes, fileMade, fileTold>>
    BY <1>5 DEF Ipx!fileVars, Ipx!NoFile
  <2>2. QED
    BY <2>1 DEF FileInv, FileType, FileCount
<1>6. Ipx!FileGone => UNCHANGED Ipx!fileVars
  BY DEF Ipx!FileGone
<1>7. QED
  BY <1>1, <1>2, <1>3, <1>4, <1>5, <1>6 DEF Ipx!Next

\* What the invariant gives.
LEMMA FileHolds ==
    ASSUME FileInv
    PROVE  Ipx!FileSessionsOwned
<1>1. FilePlaced(fileSes, fileTold, fileMade) /\ fileMade \in Nat
  BY DEF FileInv, FileType
<1>2. ASSUME NEW s \in Sessions
      PROVE  (s <= fileMade /\ ~Ipx!S!Ended(fileTold[s])) <=> (s = fileSes)
  <2>1. CASE s = fileSes
    <3>1. s # 0
      BY FileConstants
    <3>2. s <= fileMade /\ fileTold[s] \in Ipx!S!Living
      BY <1>1, <2>1, <3>1 DEF FilePlaced
    <3>3. QED
      BY <2>1, <3>2, Ipx!S!LivingOrderly
  <2>2. CASE s # fileSes
    <3>1. s <= fileMade => Ipx!S!Ended(fileTold[s])
      BY <1>1, <2>2, Ipx!S!OverOrderly DEF FilePlaced
    <3>2. QED
      BY <2>2, <3>1
  <2>3. QED
    BY <2>1, <2>2
<1>3. QED
  BY <1>2 DEF Ipx!FileSessionsOwned

-----------------------------------------------------------------------------
(* FDS files.  The inductive invariant: the sessions in the map live, all    *)
(* others that were made are over, and an entry without a session is only    *)
(* left behind by an exception.                                              *)

Entries == {infos[k] : k \in DOMAIN infos}
FdsType ==
    /\ fdsFile \in Seq(Record) /\ taken \in Nat /\ unproc \in BOOLEAN /\ (unproc => taken > 0)
    /\ infos \in [DOMAIN infos -> Sessions \cup {0}]
    /\ fdsMade \in Nat /\ fdsTold \in [Sessions -> Fds!S!Life]
FdsPlaced(mapped, told, made) ==
    /\ \A s \in Sessions : s \in mapped => s <= made /\ told[s] \in Fds!S!Living
    /\ \A s \in Sessions : s > made => told[s] = <<>>
    /\ \A s \in Sessions : s <= made /\ s \notin mapped => told[s] \in Fds!S!Over

\* A message that is filled has a first record, of a session in the map.
Filling ==
    fdsPc = "fill" => /\ "recs" \in DOMAIN msg /\ msg.recs \in Seq(Record) /\ msg.recs # <<>>
                      /\ msg.recs[1].sid \in DOMAIN infos
FdsInv ==
    /\ FdsType /\ FdsPlaced(Entries, fdsTold, fdsMade) /\ Filling
    /\ 0 \in Entries => fdsPc \in {"off", "abort"}

\* Entries are the sessions of the table, or 0 where none was made.
LEMMA EntriesFacts ==
    /\ Fds!Range(infos) = Entries
    /\ FdsInv => Entries \subseteq Sessions \cup {0}
  BY DEF Fds!Range, Entries, FdsInv, FdsType

\* The start.
LEMMA FdsStarts == Fds!Init => FdsInv
<1> USE FdsConstants
<1>1. SUFFICES ASSUME Fds!Init PROVE FdsInv
  OBVIOUS
<1>2. fdsTold \in [Sessions -> Fds!S!Life] /\ \A s \in Sessions : fdsTold[s] = <<>>
  <2>1. fdsTold = [s \in Sessions |-> <<>>]
    BY <1>1 DEF Fds!Init, Fds!S!Init
  <2>2. <<>> \in Fds!S!Life
    BY DEF Fds!S!Life
  <2>3. QED
    BY <2>1, <2>2
<1>3. fdsFile \in Seq(Record)
  <2>1. fdsFile \in Fds!BoundedSeq(Record, FileLen)
    BY <1>1 DEF Fds!Init
  <2>2. PICK n \in 0 .. FileLen : fdsFile \in [1 .. n -> Record]
    BY <2>1 DEF Fds!BoundedSeq, Fds!SeqOf
  <2>3. n \in Nat
    BY <2>2
  <2>4. QED
    BY <2>2, <2>3
<1>4. infos = Fds!Nobody /\ DOMAIN Fds!Nobody = {} /\ Entries = {}
  BY <1>1 DEF Fds!Init, Fds!Nobody, Entries
<1>5. FdsPlaced(Entries, fdsTold, fdsMade)
  BY <1>1, <1>2, <1>4 DEF Fds!Init, FdsPlaced
<1>6. FdsType
  <2>1. infos \in [DOMAIN infos -> Sessions \cup {0}]
    BY <1>4 DEF Fds!Nobody
  <2>2. QED
    BY <1>1, <1>2, <1>3, <2>1 DEF Fds!Init, FdsType
<1>7. QED
  BY <1>1, <1>4, <1>5, <1>6 DEF Fds!Init, FdsInv, Filling

\* The record that is read next.
LEMMA RecFacts ==
    ASSUME FdsInv
    PROVE  Fds!At \in Nat \ {0} /\ (Fds!Available => Fds!Rec \in Record)
<1>1. Fds!At \in Nat \ {0}
  BY DEF Fds!At, FdsInv, FdsType
<1>2. Fds!Available => Fds!At \in 1 .. Len(fdsFile)
  BY <1>1 DEF Fds!Available, FdsInv, FdsType
<1>3. fdsFile \in Seq(Record)
  BY DEF FdsInv, FdsType
<1>4. QED
  BY <1>1, <1>2, <1>3 DEF Fds!Rec

\* A session is new and announced, or met again, and passes templates or not.
LEMMA NewIsTold ==
    ASSUME NEW h \in {"open", "lost"}, NEW data \in {<<>>, <<"data">>}
    PROVE  <<h>> \o data \in Seq(Fds!S!Event) /\ Fds!S!Told(<<>>, <<h>> \o data) \in Fds!S!Living
<1>1. /\ <<h>> \in Seq(Fds!S!Event) /\ <<"data">> \in Seq(Fds!S!Event) /\ <<h, "data">> \in Seq(Fds!S!Event)
      /\ h \in Fds!S!Event /\ "data" \in Fds!S!Event /\ <<>> \in Seq(Fds!S!Event)
  BY DEF Fds!S!Event
<1>2. <<h>> \o <<"data">> = <<h, "data">>
  BY <1>1, Fds!S!Pair
<1>3. <<h>> \o <<>> = <<h>>
  <2>1. ASSUME NEW u, u \in Seq(Fds!S!Event) PROVE u \o <<>> = u
    BY <2>1
  <2>2. QED
    BY <1>1, <2>1
<1>4. Fds!S!Told(<<>>, <<h>>) \in Fds!S!Living /\ Fds!S!Told(<<>>, <<h, "data">>) \in Fds!S!Living
  BY Fds!S!TellFirst
<1>5. CASE data = <<>>
  BY <1>1, <1>3, <1>4, <1>5
<1>6. CASE data = <<"data">>
  BY <1>1, <1>2, <1>4, <1>6
<1>7. QED
  BY <1>5, <1>6

\* What is said of a session that lives already.
LEMMA MetIsTold ==
    ASSUME NEW t \in Fds!S!Living, NEW data \in {<<>>, <<"data">>}
    PROVE  <<>> \o data = data /\ data \in Seq(Fds!S!Event) /\ Fds!S!Told(t, data) \in Fds!S!Living
<1>1. <<"data">> \in Seq(Fds!S!Event) /\ <<>> \in Seq(Fds!S!Event)
  BY DEF Fds!S!Event
<1>2. ASSUME NEW u, u \in Seq(Fds!S!Event) PROVE <<>> \o u = u
  BY <1>2
<1>3. Fds!S!Told(t, <<"data">>) \in Fds!S!Living /\ Fds!S!Told(t, <<>>) \in Fds!S!Living
  BY Fds!S!TellData, Fds!S!TellNothing DEF Fds!S!Life
<1>4. QED
  BY <1>1, <1>2, <1>3

\* A session that is made enters the map.
LEMMA FdsMakes ==
    ASSUME FdsInv, NEW sid, sid \notin DOMAIN infos, fdsMade + 1 \in Sessions,
           NEW ev \in Seq(Fds!S!Event), Fds!S!Told(<<>>, ev) \in Fds!S!Living,
           fdsTold' = Fds!S!Say(fdsTold, fdsMade + 1, ev),
           infos' = Fds!Noted(infos, sid, fdsMade + 1), fdsMade' = fdsMade + 1
    PROVE  /\ fdsTold' \in [Sessions -> Fds!S!Life] /\ Fds!S!Next /\ fdsMade' \in Nat
           /\ infos' \in [DOMAIN infos' -> Sessions \cup {0}]
           /\ FdsPlaced(Entries', fdsTold', fdsMade') /\ (0 \in Entries' => 0 \in Entries)
           /\ sid \in DOMAIN infos'
<1> USE FdsConstants
<1>1. /\ fdsMade \in Nat /\ fdsTold \in [Sessions -> Fds!S!Life]
      /\ infos \in [DOMAIN infos -> Sessions \cup {0}] /\ FdsPlaced(Entries, fdsTold, fdsMade)
  BY DEF FdsInv, FdsType
<1>2. fdsTold[fdsMade + 1] = <<>>
  BY <1>1 DEF FdsPlaced
<1>3. Fds!S!Told(<<>>, ev) \in Fds!S!Life
  BY DEF Fds!S!Life
<1>4. /\ fdsTold' \in [Sessions -> Fds!S!Life] /\ fdsTold'[fdsMade + 1] = Fds!S!Told(<<>>, ev) /\ Fds!S!Next
      /\ \A r \in Sessions : r # fdsMade + 1 => fdsTold'[r] = fdsTold[r]
  BY <1>1, <1>2, <1>3, Fds!S!SayIsNext
<1>5. /\ DOMAIN infos' = DOMAIN infos \cup {sid} /\ infos'[sid] = fdsMade + 1
      /\ \A x \in DOMAIN infos : infos'[x] = infos[x]
  BY DEF Fds!Noted
<1>6. infos' \in [DOMAIN infos' -> Sessions \cup {0}]
  <2>1. infos' = [x \in DOMAIN infos' |-> infos'[x]]
    BY DEF Fds!Noted
  <2>2. \A x \in DOMAIN infos' : infos'[x] \in Sessions \cup {0}
    BY <1>1, <1>5
  <2>3. QED
    BY <2>1, <2>2
<1>7. Entries' = Entries \cup {fdsMade + 1}
  BY <1>5 DEF Entries
<1>8. FdsPlaced(Entries', fdsTold', fdsMade')
  BY <1>1, <1>4, <1>7 DEF FdsPlaced
<1>9. QED
  BY <1>1, <1>4, <1>5, <1>6, <1>7, <1>8

\* The session of a record is found or made.
LEMMA FdsMeets ==
    ASSUME FdsInv, fdsPc = "idle", NEW r, NEW data \in {<<>>, <<"data">>}, Fds!Met(r, data)
    PROVE  /\ fdsTold' \in [Sessions -> Fds!S!Life] /\ Fds!S!Next /\ fdsMade' \in Nat
           /\ infos' \in [DOMAIN infos' -> Sessions \cup {0}] /\ r.sid \in DOMAIN infos'
           /\ FdsPlaced(Entries', fdsTold', fdsMade') /\ 0 \notin Entries'
<1> USE FdsConstants
<1> DEFINE new == r.sid \notin DOMAIN infos
           ses == IF new THEN fdsMade + 1 ELSE infos[r.sid]
<1>1. /\ ses \in Sessions
      /\ fdsMade' = Fds!Max({fdsMade, ses}) /\ infos' = Fds!Noted(infos, r.sid, ses)
      /\ fdsTold' = Fds!S!Say(fdsTold, ses, (IF new THEN <<"open">> ELSE <<>>) \o data)
  BY DEF Fds!Met
<1>2. fdsMade \in Nat /\ FdsPlaced(Entries, fdsTold, fdsMade) /\ fdsTold \in [Sessions -> Fds!S!Life]
      /\ 0 \notin Entries
  BY DEF FdsInv, FdsType
<1>3. CASE new
  <2>1. ses = fdsMade + 1 /\ fdsMade + 1 \in Sessions
    BY <1>1, <1>3
  <2>2. fdsMade' = fdsMade + 1
    BY <1>1, <1>2, <2>1 DEF Fds!Max
  <2>3. <<"open">> \o data \in Seq(Fds!S!Event) /\ Fds!S!Told(<<>>, <<"open">> \o data) \in Fds!S!Living
    BY NewIsTold
  <2>4. fdsTold' = Fds!S!Say(fdsTold, fdsMade + 1, <<"open">> \o data)
    BY <1>1, <1>3, <2>1
  <2>5. infos' = Fds!Noted(infos, r.sid, fdsMade + 1)
    BY <1>1, <2>1
  <2>6. QED
    BY <1>2, <1>3, <2>1, <2>2, <2>3, <2>4, <2>5, FdsMakes
<1>4. CASE ~new
  <2>1. ses = infos[r.sid] /\ ses \in Sessions /\ ses \in Entries /\ r.sid \in DOMAIN infos
    BY <1>1, <1>4 DEF Entries
  <2>2. fdsTold[ses] \in Fds!S!Living /\ ses <= fdsMade /\ ses \in Nat
    BY <1>2, <2>1 DEF FdsPlaced
  <2>3. fdsMade' = fdsMade
    BY <1>1, <1>2, <2>2 DEF Fds!Max
  <2>4. infos' = infos /\ Entries' = Entries
    <3>1. /\ DOMAIN infos' = DOMAIN infos
          /\ \A x \in DOMAIN infos : infos'[x] = infos[x]
      BY <1>1, <2>1 DEF Fds!Noted
    <3>2. infos' = [x \in DOMAIN infos' |-> infos'[x]]
      BY <1>1 DEF Fds!Noted
    <3>3. infos = [x \in DOMAIN infos |-> infos[x]]
      BY DEF FdsInv, FdsType
    <3>4. QED
      BY <3>1, <3>2, <3>3 DEF Entries
  <2>5. <<>> \o data = data /\ data \in Seq(Fds!S!Event) /\ Fds!S!Told(fdsTold[ses], data) \in Fds!S!Living
    BY <2>2, MetIsTold
  <2>6. fdsTold' = Fds!S!Say(fdsTold, ses, data)
    BY <1>1, <1>4, <2>5
  <2>7. Fds!S!Told(fdsTold[ses], data) \in Fds!S!Life
    BY <2>5 DEF Fds!S!Life
  <2> HIDE DEF ses
  <2>8. /\ fdsTold' \in [Sessions -> Fds!S!Life] /\ fdsTold'[ses] \in Fds!S!Living /\ Fds!S!Next
        /\ \A s \in Sessions : s # ses => fdsTold'[s] = fdsTold[s]
    BY <1>2, <2>1, <2>5, <2>6, <2>7, Fds!S!SayIsNext
  <2>9. FdsPlaced(Entries', fdsTold', fdsMade')
    <3>1. ses \in Sessions /\ ses \in Entries /\ ses <= fdsMade /\ fdsTold'[ses] \in Fds!S!Living
      BY <2>1, <2>2, <2>8
    <3>2. \A s \in Sessions : s # ses => fdsTold'[s] = fdsTold[s]
      BY <2>8
    <3>3. FdsPlaced(Entries, fdsTold', fdsMade)
      BY <1>2, <3>1, <3>2 DEF FdsPlaced
    <3>4. QED
      BY <2>3, <2>4, <3>3
  <2>10. QED
    BY <1>2, <2>1, <2>3, <2>4, <2>8, <2>9 DEF FdsInv, FdsType
<1>5. QED
  BY <1>3, <1>4

\* A batch begins.
LEMMA FdsSends ==
    ASSUME FdsInv, Fds!SendBatch
    PROVE  FdsInv' /\ Fds!S!Next
<1> USE FdsConstants
<1> DEFINE r == Fds!Rec
           data == IF Fds!Templates(r) = <<>> THEN <<>> ELSE <<"data">>
<1>1. /\ fdsPc = "idle" /\ Fds!Available /\ Fds!Met(r, data)
      /\ msg' = Fds!First(r) /\ taken' = Fds!At /\ unproc' = FALSE /\ fdsPc' = "fill"
      /\ UNCHANGED <<fdsFile, fdsRest>>
  BY DEF Fds!SendBatch
<1>2. r \in Record /\ Fds!At \in Nat \ {0}
  BY <1>1, RecFacts
<1>3. data \in {<<>>, <<"data">>}
  OBVIOUS
<1>4. "recs" \in DOMAIN msg' /\ msg'.recs \in Seq(Record) /\ msg'.recs # <<>> /\ msg'.recs[1] = r
  <2>1. PICK alloc : msg' = Fds!AddRecord(Fds!Empty(alloc), r)
    BY <1>1 DEF Fds!First
  <2>2. "recs" \in DOMAIN Fds!Empty(alloc) /\ Fds!Empty(alloc).recs = <<>>
    BY DEF Fds!Empty
  <2> HIDE DEF r
  <2>3. "recs" \in DOMAIN msg' /\ msg'.recs = Append(<<>>, r)
    BY <2>1, <2>2 DEF Fds!AddRecord
  <2>4. QED
    BY <1>2, <2>3
<1>5. fdsFile \in Seq(Record)
  BY DEF FdsInv, FdsType
<1> HIDE DEF r, data
<1>6. /\ fdsTold' \in [Sessions -> Fds!S!Life] /\ Fds!S!Next /\ fdsMade' \in Nat
      /\ infos' \in [DOMAIN infos' -> Sessions \cup {0}] /\ r.sid \in DOMAIN infos'
      /\ FdsPlaced(Entries', fdsTold', fdsMade') /\ 0 \notin Entries'
  BY <1>1, <1>3, FdsMeets
<1>7. Filling'
  BY <1>4, <1>6 DEF Filling
<1>8. QED
  BY <1>1, <1>2, <1>5, <1>6, <1>7 DEF FdsInv, FdsType

\* It fails, perhaps after the session was noted.
LEMMA FdsFails ==
    ASSUME FdsInv, NEW kind, Fds!SendFails(kind)
    PROVE  FdsInv' /\ (Fds!S!Next \/ UNCHANGED fdsTold)
<1> USE FdsConstants
<1> DEFINE r == Fds!Rec
           new == r.sid \notin DOMAIN infos
<1>1. /\ fdsPc = "idle" /\ taken' = Fds!At /\ unproc' = TRUE /\ fdsPc' = "off" /\ UNCHANGED <<fdsFile, msg>>
      /\ \/ new /\ infos' = Fds!Noted(infos, r.sid, 0) /\ UNCHANGED <<fdsTold, fdsMade>>
         \/ /\ new /\ fdsMade + 1 \in Sessions /\ infos' = Fds!Noted(infos, r.sid, fdsMade + 1)
            /\ fdsMade' = fdsMade + 1 /\ fdsTold' = Fds!S!Say(fdsTold, fdsMade + 1, <<"lost">>)
         \/ \E passed \in {<<>>, <<"data">>} : Fds!Met(r, passed)
  BY DEF Fds!SendFails
<1>2. Fds!At \in Nat \ {0} /\ fdsFile \in Seq(Record)
  BY RecFacts DEF FdsInv, FdsType
<1> HIDE DEF r
<1>3. Filling'
  BY <1>1 DEF Filling
<1>4. SUFFICES /\ fdsMade' \in Nat /\ fdsTold' \in [Sessions -> Fds!S!Life]
               /\ infos' \in [DOMAIN infos' -> Sessions \cup {0}]
               /\ FdsPlaced(Entries', fdsTold', fdsMade') /\ (Fds!S!Next \/ UNCHANGED fdsTold)
  BY <1>1, <1>2, <1>3 DEF FdsInv, FdsType
<1>5. CASE new /\ infos' = Fds!Noted(infos, r.sid, 0) /\ UNCHANGED <<fdsTold, fdsMade>>
  <2>1. /\ DOMAIN infos' = DOMAIN infos \cup {r.sid} /\ infos'[r.sid] = 0
        /\ \A x \in DOMAIN infos : infos'[x] = infos[x]
    BY <1>5 DEF Fds!Noted
  <2>2. infos' = [x \in DOMAIN infos' |-> infos'[x]]
    BY <1>5 DEF Fds!Noted
  <2>3. \A x \in DOMAIN infos' : infos'[x] \in Sessions \cup {0}
    BY <2>1 DEF FdsInv, FdsType
  <2>4. Entries' = Entries \cup {0}
    BY <2>1 DEF Entries
  <2>5. FdsPlaced(Entries', fdsTold', fdsMade')
    BY <1>5, <2>4 DEF FdsPlaced, FdsInv
  <2>6. QED
    BY <1>5, <2>2, <2>3, <2>5 DEF FdsInv, FdsType
<1>6. CASE /\ new /\ fdsMade + 1 \in Sessions /\ infos' = Fds!Noted(infos, r.sid, fdsMade + 1)
           /\ fdsMade' = fdsMade + 1 /\ fdsTold' = Fds!S!Say(fdsTold, fdsMade + 1, <<"lost">>)
  <2>1. <<"lost">> \in Seq(Fds!S!Event) /\ Fds!S!Told(<<>>, <<"lost">>) \in Fds!S!Living
    BY Fds!S!TellFirst DEF Fds!S!Event
  <2>2. QED
    BY <1>6, <2>1, FdsMakes
<1>7. CASE \E passed \in {<<>>, <<"data">>} : Fds!Met(r, passed)
  BY <1>1, <1>7, FdsMeets
<1>8. QED
  BY <1>1, <1>5, <1>6, <1>7

\* A record joins the message, or cannot.
LEMMA FdsFills ==
    ASSUME FdsInv, Fds!Fill \/ Fds!FillFails
    PROVE  FdsInv' /\ UNCHANGED fdsTold
<1>1. /\ fdsPc = "fill" /\ UNCHANGED <<fdsFile, infos, fdsMade, fdsTold>>
      /\ (Fds!Fill => Fds!Available /\ msg' = Fds!AddRecord(msg, Fds!Rec) /\ taken' = Fds!At /\ unproc' = FALSE)
      /\ (~Fds!Fill => fdsPc' = "off" /\ UNCHANGED <<taken, unproc>>)
  BY DEF Fds!Fill, Fds!FillFails
<1>2. Fds!At \in Nat \ {0} /\ (Fds!Available => Fds!Rec \in Record)
  BY RecFacts
<1>3. Filling'
  <2>1. CASE Fds!Fill
    <3>1. "recs" \in DOMAIN msg /\ msg.recs \in Seq(Record) /\ msg.recs # <<>>
          /\ msg.recs[1].sid \in DOMAIN infos
      BY <1>1 DEF FdsInv, Filling
    <3>2. "recs" \in DOMAIN msg' /\ msg'.recs = Append(msg.recs, Fds!Rec)
      BY <1>1, <2>1, <3>1 DEF Fds!AddRecord
    <3>3. /\ Append(msg.recs, Fds!Rec) \in Seq(Record) /\ Append(msg.recs, Fds!Rec) # <<>>
          /\ Append(msg.recs, Fds!Rec)[1] = msg.recs[1]
      BY <1>1, <1>2, <2>1, <3>1
    <3>4. QED
      BY <1>1, <3>1, <3>2, <3>3 DEF Filling
  <2>2. CASE ~Fds!Fill
    BY <1>1, <2>2 DEF Filling
  <2>3. QED
    BY <2>1, <2>2
<1>4. FdsType' /\ Entries' = Entries
  <2>1. taken' \in Nat /\ unproc' \in BOOLEAN /\ (unproc' => taken' > 0)
    <3>1. CASE Fds!Fill
      BY <1>1, <1>2, <3>1
    <3>2. CASE ~Fds!Fill
      BY <1>1, <3>2 DEF FdsInv, FdsType
    <3>3. QED
      BY <3>1, <3>2
  <2>2. QED
    BY <1>1, <2>1 DEF FdsInv, FdsType, Entries
<1>5. 0 \notin Entries
  BY <1>1 DEF FdsInv
<1>6. QED
  BY <1>1, <1>3, <1>4, <1>5 DEF FdsInv

\* The message is passed to its session.
LEMMA FdsPasses ==
    ASSUME FdsInv, Fds!PassMessage
    PROVE  FdsInv' /\ Fds!S!Next
<1> USE FdsConstants
<1> DEFINE ses == infos[msg.recs[1].sid]
<1>1. /\ fdsPc = "fill" /\ fdsPc' = "idle" /\ UNCHANGED <<fdsFile, infos, fdsMade>>
      /\ taken' = (IF Fds!Available THEN Fds!At ELSE taken) /\ unproc' = Fds!Available
      /\ fdsTold' = Fds!S!Say(fdsTold, ses, <<"data">>)
  BY DEF Fds!PassMessage, Fds!Key
<1>2. /\ Fds!At \in Nat \ {0} /\ taken \in Nat /\ fdsFile \in Seq(Record) /\ fdsMade \in Nat
      /\ infos \in [DOMAIN infos -> Sessions \cup {0}] /\ fdsTold \in [Sessions -> Fds!S!Life]
      /\ FdsPlaced(Entries, fdsTold, fdsMade)
  BY RecFacts DEF FdsInv, FdsType
<1>3. ses \in Sessions /\ ses \in Entries
  <2>1. msg.recs[1].sid \in DOMAIN infos /\ 0 \notin Entries
    BY <1>1 DEF FdsInv, Filling
  <2>2. QED
    BY <1>2, <2>1 DEF Entries
<1>4. fdsTold[ses] \in Fds!S!Living /\ ses <= fdsMade
  BY <1>2, <1>3 DEF FdsPlaced
<1> HIDE DEF ses
<1>5. <<"data">> \in Seq(Fds!S!Event) /\ Fds!S!Told(fdsTold[ses], <<"data">>) \in Fds!S!Living
  BY <1>4, Fds!S!TellData DEF Fds!S!Event
<1>6. Fds!S!Told(fdsTold[ses], <<"data">>) \in Fds!S!Life
  BY <1>5 DEF Fds!S!Life
<1>7. /\ fdsTold' \in [Sessions -> Fds!S!Life] /\ fdsTold'[ses] \in Fds!S!Living /\ Fds!S!Next
      /\ \A s \in Sessions : s # ses => fdsTold'[s] = fdsTold[s]
  BY <1>1, <1>2, <1>3, <1>5, <1>6, Fds!S!SayIsNext
<1>8. Entries' = Entries /\ 0 \notin Entries
  BY <1>1 DEF Entries, FdsInv
<1>9. FdsPlaced(Entries', fdsTold', fdsMade')
  BY <1>1, <1>2, <1>3, <1>4, <1>7, <1>8 DEF FdsPlaced
<1>10. Filling' /\ unproc' \in BOOLEAN /\ taken' \in Nat /\ (unproc' => taken' > 0)
  <2>1. Fds!Available \in BOOLEAN
    BY DEF Fds!Available
  <2>2. QED
    BY <1>1, <1>2, <2>1 DEF Filling
<1>11. QED
  BY <1>1, <1>2, <1>7, <1>8, <1>9, <1>10 DEF FdsInv, FdsType

-----------------------------------------------------------------------------
(* The end of a file.                                                        *)

\* The sessions of a file end with it.
LEMMA FdsCloses ==
    ASSUME FdsInv, NEW fails \in BOOLEAN, NEW pc, pc # "fill", Fds!CloseFile(fails, pc),
           fdsFile' \in Seq(Record), taken' \in Nat, unproc' \in BOOLEAN, unproc' => taken' > 0,
           UNCHANGED fdsMade
    PROVE  FdsInv' /\ (Fds!S!Next \/ UNCHANGED fdsTold)
<1> USE FdsConstants
<1>1. /\ fdsMade \in Nat /\ fdsTold \in [Sessions -> Fds!S!Life] /\ Fds!Range(infos) = Entries
      /\ infos \in [DOMAIN infos -> Sessions \cup {0}] /\ FdsPlaced(Entries, fdsTold, fdsMade)
  BY EntriesFacts DEF FdsInv, FdsType
<1>2. CASE fails \/ 0 \in Fds!Range(infos)
  <2>1. fdsPc' = "abort" /\ UNCHANGED <<fdsTold, infos>>
    BY <1>2 DEF Fds!CloseFile
  <2>2. Entries' = Entries /\ Filling'
    BY <2>1 DEF Entries, Filling
  <2>3. QED
    BY <1>1, <2>1, <2>2 DEF FdsInv, FdsType
<1>3. CASE ~(fails \/ 0 \in Fds!Range(infos))
  <2>1. /\ fdsTold' = [s \in Sessions |-> fdsTold[s] \o Fds!Farewell(s)]
        /\ infos' = Fds!Nobody /\ fdsPc' = pc
    BY <1>3 DEF Fds!CloseFile
  <2>2. /\ infos' \in [DOMAIN infos' -> Sessions \cup {0}] /\ Entries' = {}
    BY <2>1 DEF Fds!Nobody, Entries
  <2>3. ASSUME NEW s \in Sessions
        PROVE  /\ fdsTold'[s] \in Fds!S!Life /\ Fds!S!Follows(fdsTold[s], fdsTold'[s])
               /\ (s > fdsMade => fdsTold'[s] = <<>>) /\ (s <= fdsMade => fdsTold'[s] \in Fds!S!Over)
    <3>1. fdsTold'[s] = fdsTold[s] \o Fds!Farewell(s) /\ fdsTold[s] \in Fds!S!Life
      BY <1>1, <2>1
    <3>2. CASE s \in Entries
      <4>1. Fds!Farewell(s) = <<"close", "garbage">>
        BY <3>2 DEF Fds!Farewell, Entries
      <4>2. Fds!Farewell(s) \in Fds!S!Endings
        BY <4>1 DEF Fds!S!Endings
      <4>3. fdsTold[s] \in Fds!S!Living /\ s <= fdsMade
        BY <1>1, <3>2 DEF FdsPlaced
      <4>4. fdsTold'[s] \in Fds!S!Over /\ Fds!Farewell(s) \in Seq(Fds!S!Event)
        BY <3>1, <4>2, <4>3, Fds!S!TellEnd, Fds!S!EndingShape
      <4>5. Fds!S!Follows(fdsTold[s], fdsTold'[s])
        BY <3>1, <4>4 DEF Fds!S!Follows
      <4>6. fdsTold'[s] \in Fds!S!Life
        BY <4>4 DEF Fds!S!Life
      <4>7. ~(s > fdsMade)
        BY <1>1, <4>3
      <4>8. QED
        BY <4>4, <4>5, <4>6, <4>7
    <3>3. CASE s \notin Entries
      <4>1. Fds!Farewell(s) = <<>>
        BY <3>3 DEF Fds!Farewell, Entries
      <4>2. fdsTold[s] \in Seq(Fds!S!Event)
        BY <3>1, Fds!S!LifeOrderly
      <4>3. ASSUME NEW u, u \in Seq(Fds!S!Event) PROVE u \o <<>> = u
        BY <4>3
      <4>4. fdsTold'[s] = fdsTold[s]
        BY <3>1, <4>1, <4>2, <4>3
      <4>5. QED
        BY <1>1, <3>1, <3>3, <4>4, Fds!S!Stays DEF FdsPlaced
    <3>4. QED
      BY <3>2, <3>3
  <2>4. fdsTold' \in [Sessions -> Fds!S!Life]
    <3>1. fdsTold' = [s \in Sessions |-> fdsTold'[s]]
      BY <2>1
    <3>2. QED
      BY <2>3, <3>1
  <2>5. Fds!S!Next
    BY <1>1, <2>3, <2>4, Fds!S!FollowsIsNext
  <2>6. FdsPlaced(Entries', fdsTold', fdsMade')
    BY <2>2, <2>3 DEF FdsPlaced
  <2>7. Filling'
    BY <2>1 DEF Filling
  <2>8. QED
    BY <1>1, <2>2, <2>4, <2>5, <2>6, <2>7 DEF FdsInv, FdsType
<1>4. QED
  BY <1>2, <1>3

\* Every step of the input.
LEMMA FdsMoves ==
    ASSUME FdsInv, Fds!Next \/ UNCHANGED Fds!fdsVars
    PROVE  FdsInv' /\ (Fds!S!Next \/ UNCHANGED fdsTold)
<1>1. CASE Fds!SendBatch
  BY <1>1, FdsSends
<1>2. CASE Fds!Fill \/ Fds!FillFails
  BY <1>2, FdsFills
<1>3. CASE Fds!PassMessage
  BY <1>3, FdsPasses
<1>4. CASE \E kind \in {"session", "open", "data"} : Fds!SendFails(kind)
  BY <1>4, FdsFails
<1>5. CASE \E fails \in BOOLEAN : Fds!FileNext(fails)
  <2>1. PICK fails \in BOOLEAN : Fds!FileNext(fails)
    BY <1>5
  <2>2. fdsFile' \in Seq(Record)
    <3>1. CASE fdsFile' \in Fds!BoundedSeq(Record, FileLen)
      <4>1. PICK n \in 0 .. FileLen : fdsFile' \in [1 .. n -> Record]
        BY <3>1 DEF Fds!BoundedSeq, Fds!SeqOf
      <4>2. n \in Nat
        BY <4>1
      <4>3. QED
        BY <4>1, <4>2
    <3>2. CASE fdsFile' = <<>>
      BY <3>2
    <3>3. QED
      BY <2>1, <3>1, <3>2 DEF Fds!FileNext
  <2>3. PICK pc \in {"idle", "off"} : Fds!CloseFile(fails, pc)
    BY <2>1 DEF Fds!FileNext
  <2>4. taken' = 0 /\ unproc' = FALSE /\ UNCHANGED fdsMade
    BY <2>1 DEF Fds!FileNext
  <2>5. QED
    BY <2>2, <2>3, <2>4, FdsCloses
<1>6. CASE \E fails \in BOOLEAN : Fds!FdsDestroy(fails)
  <2>1. PICK fails \in BOOLEAN : Fds!FdsDestroy(fails)
    BY <1>6
  <2>2. Fds!CloseFile(fails, "gone") /\ UNCHANGED <<fdsFile, taken, unproc, fdsMade>>
    BY <2>1 DEF Fds!FdsDestroy
  <2>3. QED
    BY <2>2, FdsCloses DEF FdsInv, FdsType
<1>7. CASE UNCHANGED Fds!fdsVars
  BY <1>7 DEF Fds!fdsVars, FdsInv, FdsType, Entries, Filling
<1>8. Fds!FdsGone => UNCHANGED Fds!fdsVars
  BY DEF Fds!FdsGone
<1>9. QED
  BY <1>1, <1>2, <1>3, <1>4, <1>5, <1>6, <1>7, <1>8 DEF Fds!Next

\* What the invariant gives.
LEMMA FdsHolds ==
    ASSUME FdsInv
    PROVE  Fds!FdsSessionsOwned
<1>1. FdsPlaced(Entries, fdsTold, fdsMade) /\ Fds!Range(infos) = Entries
  BY EntriesFacts DEF FdsInv
<1>2. ASSUME NEW s \in Sessions
      PROVE  (s <= fdsMade /\ ~Fds!S!Ended(fdsTold[s])) <=> s \in Fds!Range(infos)
  <2>1. CASE s \in Entries
    <3>1. s <= fdsMade /\ fdsTold[s] \in Fds!S!Living
      BY <1>1, <2>1 DEF FdsPlaced
    <3>2. QED
      BY <1>1, <2>1, <3>1, Fds!S!LivingOrderly
  <2>2. CASE s \notin Entries
    <3>1. s <= fdsMade => Fds!S!Ended(fdsTold[s])
      BY <1>1, <2>2, Fds!S!OverOrderly DEF FdsPlaced
    <3>2. QED
      BY <1>1, <2>2, <3>1
  <2>3. QED
    BY <2>1, <2>2
<1>3. QED
  BY <1>2 DEF Fds!FdsSessionsOwned
=============================================================================
