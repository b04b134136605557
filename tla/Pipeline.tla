------------------------------ MODULE Pipeline ------------------------------
(* The running collector: the threads of context.c, the output manager, the  *)
(* message reference counter and the configurator that terminates them.      *)
(*                                                                           *)
(*   input i -> parser i -> inter 1 -> ... -> output manager -> outputs      *)
(*                                                                           *)
(* Instances are connected by rings (RingQueue promises what Ring.tla keeps),*)
(* the configurator writes to each input through its feedback pipe, and      *)
(* everybody writes requests to the one configuration pipe.  Each input has  *)
(* one transport session.  A message is <<type, input, number>>.             *)
EXTENDS Naturals, Sequences, FiniteSets, SequencesExt

CONSTANTS
    NIn,          \* number of inputs, each with its parser
    NInter,       \* number of intermediate plugins before the output manager
    NOut,         \* number of outputs
    RingSize,     \* capacity of a ring
    Wants,        \* for each output, the inputs whose ODID passes its filter
    Failing,      \* instances whose plugin may ask for termination
    MaxData,      \* bound: IPFIX messages per input
    MaxPeriodic,  \* bound: periodic messages
    MaxSignals,   \* bound: termination signals
    AllocFails,   \* ipx_msg_periodic_create() may return NULL
    Asserts       \* built with assertions (the release build has none)

ASSUME SizesAssumption ==
    /\ NIn \in Nat \ {0} /\ NOut \in Nat \ {0} /\ NInter \in Nat
    /\ RingSize \in Nat \ {0}
    /\ MaxData \in Nat /\ MaxPeriodic \in Nat /\ MaxSignals \in 0 .. 2
    /\ AllocFails \in BOOLEAN /\ Asserts \in BOOLEAN
ASSUME WantsAssumption == Wants \in [1 .. NOut -> SUBSET (1 .. NIn)]

Inputs == 1 .. NIn
Outputs == 1 .. NOut

(* Instances. The output manager is the last of the intermediates.           *)
In(i) == <<"in", i>>
Parser(i) == <<"parser", i>>
Inter(k) == <<"inter", k>>
Out(o) == <<"out", o>>
Mgr == Inter(NInter + 1)

InNodes == {In(i) : i \in Inputs}
Parsers == {Parser(i) : i \in Inputs}
Inters == {Inter(k) : k \in 1 .. NInter + 1}
OutNodes == {Out(o) : o \in Outputs}
Movers == Parsers \cup Inters                   \* run by thread_intermediate
Readers == Movers \cup OutNodes                 \* have a ring to read
Nodes == InNodes \cup Readers

\* The instance behind the ring an instance writes to.
Succ(n) == CASE n \in InNodes -> Parser(n[2])
             [] n \in Parsers -> Inter(1)
             [] n \in Inters  -> Inter(n[2] + 1)

(* Messages: IPFIX, session close, garbage (the session, its templates, the  *)
(* parser), periodic, terminate.                                             *)
Data(i, k) == <<"ipfix", i, k>>
Close(i) == <<"close", i, 0>>
SessionGarbage(i) == <<"garbage", i, 1>>
TemplateGarbage(i) == <<"garbage", i, 2>>
ParserGarbage(i) == <<"garbage", i, 3>>
Periodic(i, s) == <<"periodic", i, s>>
Stray(i, s) == <<"stray", i, s>>   \* a periodic message that not every input gets
Term(i, k) == <<"term", i, k>>
Type(m) == m[1]
IsPeriodic(m) == Type(m) \in {"periodic", "stray"}

Msgs == {Data(i, k) : i \in Inputs, k \in 1 .. MaxData}
   \cup {Close(i) : i \in Inputs}
   \cup {SessionGarbage(i) : i \in Inputs} \cup {TemplateGarbage(i) : i \in Inputs}
   \cup {ParserGarbage(i) : i \in Inputs}
   \cup {Periodic(i, s) : i \in Inputs, s \in 0 .. MaxPeriodic - 1}
   \cup {Stray(i, s) : i \in Inputs, s \in 0 .. MaxPeriodic - 1}
   \cup {Term(i, k) : i \in Inputs, k \in 1 .. 2}
NoMsg == <<"none", 0, 0>>

\* Messages the plugins are subscribed to (the output manager takes everything);
\* an instance whose processing is disabled drops them.
IsData(m) == Type(m) \in {"ipfix", "close"}

VARIABLES
    ring,      \* ring of each reader
    processing,\* en_processing of each instance
    pc,        \* where the thread of each instance is
    cur,       \* the message a thread works on
    out,       \* pushes the thread still has to do: <<instance, message>>
    rc,        \* what the plugin's callback returns when they are done
    termCnt,   \* term_msg_cnt of the first intermediate
    waiting,   \* waiting_for_seq of each mover
    made,      \* IPFIX messages an input has produced
    open,      \* the input's session is open
    knows,     \* the parser has a record of the session
    fpipe,     \* feedback pipe of each input
    cpipe,     \* configuration pipe: <<type, instance>>
    state,     \* m_state
    termSent,  \* m_term_sent
    stops,     \* instances the configurator is about to disable, in order
    periods,   \* periodic sequence number
    cpc,       \* where the configurator is
    signals,   \* signals received
    live,      \* messages allocated and not destroyed
    refs,      \* reference counter of messages passed to outputs
    seen,      \* history: <<instance, IPFIX or close message>> processed
    askers     \* history: instances that asked for termination

threads == <<ring, pc, cur, out, rc, termCnt, waiting, made, open, knows, refs, seen>>
config == <<state, termSent, stops, periods, cpc>>
vars == <<threads, askers, processing, config, fpipe, cpipe, signals, live>>

Init ==
    /\ ring = [n \in Readers |-> <<>>]
    /\ processing = [n \in Nodes |-> TRUE]
    /\ pc = [n \in Nodes |-> "loop"]
    /\ cur = [n \in Nodes |-> NoMsg]
    /\ out = [n \in Nodes |-> <<>>]
    /\ rc = [n \in Nodes |-> "ok"]
    /\ termCnt = NIn
    /\ waiting = [n \in Movers |-> 0]
    /\ made = [i \in Inputs |-> 0]
    /\ open = [i \in Inputs |-> TRUE]
    /\ knows = [i \in Inputs |-> FALSE]
    /\ fpipe = [i \in Inputs |-> <<>>]
    /\ cpipe = <<>>
    /\ state = "running" /\ termSent = 0 /\ stops = <<>> /\ periods = 0 /\ cpc = "run"
    /\ signals = 0
    /\ live = {}
    /\ refs = [m \in Msgs |-> 0]
    /\ seen = {}
    /\ askers = {}

-----------------------------------------------------------------------------
(* Parts of the threads' loops.                                              *)

Push(n, ms) == [k \in 1 .. Len(ms) |-> <<Succ(n), ms[k]>>]

\* Return codes a plugin's callback may return.
Codes(n) == IF n \in Failing THEN {"ok", "slow", "fast"} ELSE {"ok"}

\* thread_handle_rc: disable own processing and ask for termination.
HandleRc(n, code) ==
    IF code = "ok" THEN UNCHANGED <<processing, cpipe, askers>>
    ELSE /\ processing' = [processing EXCEPT ![n] = FALSE]
         /\ cpipe' = Append(cpipe, <<code, n>>)
         /\ askers' = askers \cup {n}

\* ipx_msg_header_cnt_dec: the caller was the last user of the message.
MUT_LastUser(m) == refs[m] <= 2
LastUser(m) == refs[m] = 1

\* ipx_msg_destroy; the destructor of a terminate message notifies the configurator.
Destroy(m) ==
    /\ live' = live \ {m}
    /\ cpipe' = IF Type(m) = "term" THEN Append(cpipe, <<"done", NoMsg>>) ELSE cpipe

\* Where a thread goes when all is pushed; a terminate message was its last one,
\* and an input that has passed a message of its feedback pipe calls its getter.
After(n, m, code) ==
    CASE code # "ok" -> "handle"
      [] code = "ok" /\ Type(m) = "term" -> "exit"
      [] code = "ok" /\ n \in InNodes /\ IsPeriodic(m) -> "get"
      [] OTHER -> "loop"

\* The thread of n has pushes to do before it goes on.
Start(n, m, pushes, code) ==
    /\ pc' = [pc EXCEPT ![n] = IF pushes = <<>> THEN After(n, m, code) ELSE "push"]
    /\ cur' = [cur EXCEPT ![n] = IF pushes = <<>> THEN NoMsg ELSE m]
    /\ out' = [out EXCEPT ![n] = pushes]
    /\ rc' = [rc EXCEPT ![n] = code]

-----------------------------------------------------------------------------
(* thread_input.                                                             *)

\* What the plugin's destructor passes on: its session is closed and freed.
MUT_CloseAll(i) == IF open[i] THEN <<SessionGarbage(i), Close(i)>> ELSE <<>>
CloseAll(i) == IF open[i] THEN <<Close(i), SessionGarbage(i)>> ELSE <<>>

\* thread_input_process_pipe has read a message.
InputPipe(i) ==
    /\ pc[In(i)] = "loop" /\ fpipe[i] # <<>>
    /\ fpipe' = [fpipe EXCEPT ![i] = Tail(@)]
    /\ LET m == Head(fpipe[i]) IN
       IF Type(m) = "term"
       THEN /\ Start(In(i), m, Push(In(i), CloseAll(i) \o <<m>>), "ok")
            /\ live' = live \cup ToSet(CloseAll(i))
            /\ open' = [open EXCEPT ![i] = FALSE]
       ELSE /\ Start(In(i), m, Push(In(i), <<m>>), "ok")
            /\ UNCHANGED <<live, open>>
    /\ UNCHANGED <<askers, ring, processing, termCnt, waiting, made, knows, cpipe, config, signals, refs, seen>>

\* The plugin's getter: an IPFIX message, the end of the session, or a return code.
\* It is called after each look into the feedback pipe.
InputGet(i) ==
    /\ pc[In(i)] = "get" \/ (pc[In(i)] = "loop" /\ fpipe[i] = <<>>)
    /\ processing[In(i)]
    /\ \/ /\ open[i] /\ made[i] < MaxData
          /\ Start(In(i), NoMsg, Push(In(i), <<Data(i, made[i] + 1)>>), "ok")
          /\ made' = [made EXCEPT ![i] = @ + 1]
          /\ live' = live \cup {Data(i, made[i] + 1)}
          /\ seen' = seen \cup {<<In(i), Data(i, made[i] + 1)>>}
          /\ UNCHANGED open
       \/ /\ open[i] /\ made[i] = MaxData
          /\ Start(In(i), NoMsg, Push(In(i), CloseAll(i)), "ok")
          /\ open' = [open EXCEPT ![i] = FALSE]
          /\ live' = live \cup ToSet(CloseAll(i))
          /\ UNCHANGED <<made, seen>>
       \/ /\ \E code \in Codes(In(i)) : Start(In(i), NoMsg, <<>>, code)
          /\ UNCHANGED <<made, live, seen, open>>
    /\ UNCHANGED <<askers, ring, processing, termCnt, waiting, knows, fpipe, cpipe, config, signals, refs>>

\* A disabled input only looks into its feedback pipe.
InputSkip(i) ==
    /\ pc[In(i)] = "get" /\ ~processing[In(i)]
    /\ pc' = [pc EXCEPT ![In(i)] = "loop"]
    /\ UNCHANGED <<askers, ring, processing, cur, out, rc, termCnt, waiting, made, open, knows,
                   refs, seen, config, fpipe, cpipe, signals, live>>

-----------------------------------------------------------------------------
(* thread_intermediate.                                                      *)

\* Outputs that want a message from the output manager.
Destinations(m) == {o \in Outputs : Type(m) = "ipfix" => m[2] \in Wants[o]}

MUT_DestCount(m) == NOut
MUT_DestCountLess(m) == 1
DestCount(m) == Cardinality(Destinations(m))

\* A terminate message that is not the last one of the first intermediate.
MUT_IsEarlyTerm(n, m) == FALSE
IsEarlyTerm(n, m) == n = Inter(1) /\ Type(m) = "term" /\ termCnt > 1

IsOldPeriodic(n, m) == IsPeriodic(m) /\ m[3] # waiting[n]

\* pop, the terminate and periodic counters, and the first look at en_processing.
MoverPop(n) ==
    /\ pc[n] = "loop" /\ ring[n] # <<>>
    /\ ring' = [ring EXCEPT ![n] = Tail(@)]
    /\ LET m == Head(ring[n]) IN
       /\ termCnt' = IF IsEarlyTerm(n, m) THEN termCnt - 1 ELSE termCnt
       /\ waiting' = IF IsPeriodic(m) /\ ~IsOldPeriodic(n, m)
                     THEN [waiting EXCEPT ![n] = @ + 1] ELSE waiting
       /\ IF \/ IsEarlyTerm(n, m) \/ IsOldPeriodic(n, m)
             \/ (~processing[n] /\ IsData(m))
          THEN Destroy(m) /\ UNCHANGED <<pc, cur>>
          ELSE /\ pc' = [pc EXCEPT ![n] = "decide"]
               /\ cur' = [cur EXCEPT ![n] = m]
               /\ UNCHANGED <<live, cpipe>>
    /\ UNCHANGED <<askers, processing, out, rc, made, open, knows, fpipe, config, signals, refs, seen>>

\* Not for the plugin, or the plugin is disabled: the message moves on as it is.
MoverPass(n) ==
    /\ pc[n] = "decide" /\ n # Mgr /\ Type(cur[n]) # "term"
    /\ ~(processing[n] /\ IsData(cur[n]))
    /\ Start(n, cur[n], Push(n, <<cur[n]>>), "ok")
    /\ UNCHANGED <<askers, ring, processing, termCnt, waiting, made, open, knows, refs, seen,
                   config, fpipe, cpipe, signals, live>>

\* parser_plugin_process_session: what becomes garbage is passed after the message.
MUT_ParserOutput(m, garbage) == garbage \o <<m>>
ParserOutput(m, garbage) == <<m>> \o garbage

\* ipx_plugin_parser_process: the parser learns a session from its first message
\* and frees its templates after the close message has been passed.
ParserProcess(i) ==
    LET n == Parser(i)
        m == cur[n]
        garbage == IF Type(m) = "close" /\ knows[i] THEN <<TemplateGarbage(i)>> ELSE <<>>
    IN
    /\ pc[n] = "decide" /\ processing[n] /\ IsData(m)
    /\ Start(n, m, Push(n, ParserOutput(m, garbage)), "ok")
    /\ knows' = [knows EXCEPT ![i] = Type(m) = "ipfix"]
    /\ live' = live \cup ToSet(garbage)
    /\ seen' = seen \cup {<<n, m>>}
    /\ UNCHANGED <<askers, ring, processing, termCnt, waiting, made, open, refs, config, fpipe, cpipe, signals>>

\* An intermediate plugin passes its result on and may ask for termination.
InterProcess(n) ==
    /\ n # Mgr
    /\ pc[n] = "decide" /\ processing[n] /\ IsData(cur[n])
    /\ \E code \in Codes(n) : Start(n, cur[n], Push(n, <<cur[n]>>), code)
    /\ seen' = seen \cup {<<n, cur[n]>>}
    /\ UNCHANGED <<askers, ring, processing, termCnt, waiting, made, open, knows, refs, config,
                   fpipe, cpipe, signals, live>>

\* The outputs of a set in the order of the list of outputs (there is one such).
InOrder(S) == {d \in [1 .. Cardinality(S) -> S] :
                  Range(d) = S /\ \A j, k \in DOMAIN d : j < k => d[j] < d[k]}

\* ipx_plugin_output_mgr_process: the destinations are counted before the first push.
ManagerProcess ==
    LET m == cur[Mgr] IN
    /\ pc[Mgr] = "decide"
    /\ \E dest \in InOrder(Destinations(m)) :
           Start(Mgr, m, [k \in 1 .. Len(dest) |-> <<Out(dest[k]), m>>], "ok")
    /\ refs' = [refs EXCEPT ![m] = DestCount(m)]
    /\ IF Destinations(m) = {} THEN Destroy(m) ELSE UNCHANGED <<live, cpipe>>
    /\ UNCHANGED <<askers, ring, processing, termCnt, waiting, made, open, knows, seen, config, fpipe, signals>>

\* The last terminate message: the plugin is destroyed, then the message moves on.
MoverTerm(n) ==
    LET garbage == IF n \in Parsers THEN <<ParserGarbage(n[2])>> ELSE <<>> IN
    /\ pc[n] = "decide" /\ n # Mgr /\ Type(cur[n]) = "term"
    /\ Start(n, cur[n], Push(n, garbage \o <<cur[n]>>), "ok")
    /\ live' = live \cup ToSet(garbage)
    /\ UNCHANGED <<askers, ring, processing, termCnt, waiting, made, open, knows, refs, seen,
                   config, fpipe, cpipe, signals>>

-----------------------------------------------------------------------------
(* Inputs and movers: ipx_ring_push blocks while the ring is full.           *)

PushOne(n) ==
    LET to == Head(out[n])[1]
        m == Head(out[n])[2]
    IN
    /\ pc[n] = "push"
    /\ Len(ring[to]) < RingSize
    /\ ring' = [ring EXCEPT ![to] = Append(@, m)]
    /\ Start(n, cur[n], Tail(out[n]), rc[n])
    /\ UNCHANGED <<askers, processing, termCnt, waiting, made, open, knows, refs, seen,
                   config, fpipe, cpipe, signals, live>>

\* thread_handle_rc, when the callback has asked for termination.
HandleCode(n) ==
    /\ pc[n] = "handle"
    /\ HandleRc(n, rc[n])
    /\ pc' = [pc EXCEPT ![n] = "loop"]
    /\ rc' = [rc EXCEPT ![n] = "ok"]
    /\ UNCHANGED <<ring, cur, out, termCnt, waiting, made, open, knows, refs, seen,
                   config, fpipe, signals, live>>

-----------------------------------------------------------------------------
(* thread_output.                                                            *)

OutPop(n) ==
    LET m == Head(ring[n])
        process == processing[n] /\ IsData(m)
    IN
    /\ pc[n] = "loop" /\ ring[n] # <<>>
    /\ ring' = [ring EXCEPT ![n] = Tail(@)]
    /\ pc' = [pc EXCEPT ![n] = "release"]
    /\ cur' = [cur EXCEPT ![n] = m]
    /\ \E code \in Codes(n) : HandleRc(n, IF process THEN code ELSE "ok")
    /\ seen' = IF process THEN seen \cup {<<n, m>>} ELSE seen
    /\ UNCHANGED <<out, rc, termCnt, waiting, made, open, knows, refs, config, fpipe, signals, live>>

\* The last user destroys the message.
OutRelease(n) ==
    LET m == cur[n] IN
    /\ pc[n] = "release"
    /\ pc' = [pc EXCEPT ![n] = IF Type(m) = "term" THEN "destroy" ELSE "loop"]
    /\ cur' = [cur EXCEPT ![n] = NoMsg]
    /\ refs' = [refs EXCEPT ![m] = @ - 1]
    /\ IF LastUser(m) THEN Destroy(m) ELSE UNCHANGED <<live, cpipe>>
    /\ UNCHANGED <<askers, ring, processing, out, rc, termCnt, waiting, made, open, knows, seen,
                   config, fpipe, signals>>

OutDestroy(n) ==
    /\ pc[n] = "destroy"
    /\ pc' = [pc EXCEPT ![n] = "exit"]
    /\ UNCHANGED <<askers, ring, processing, cur, out, rc, termCnt, waiting, made, open, knows, refs, seen,
                   config, fpipe, cpipe, signals, live>>

-----------------------------------------------------------------------------
(* The configurator.                                                         *)

\* termination_stop_all disables every instance, in this order.
StopAll ==
    [k \in 1 .. 2 * NIn |-> IF k % 2 = 1 THEN In((k + 1) \div 2) ELSE Parser(k \div 2)]
        \o [k \in 1 .. NInter + 1 |-> Inter(k)] \o [o \in Outputs |-> Out(o)]

\* termination_stop_partly disables the instances up to the one that asked.
MUT_StopPartly(n) == StopAll
StopPartly(n) ==
    LET ins == [i \in Inputs |-> In(i)]
        parsers == [i \in Inputs |-> Parser(i)]
        inters(to) == [k \in 1 .. to |-> Inter(k)]
    IN CASE n = NoMsg -> <<>>
         [] n \in InNodes -> ins
         [] n \in Parsers -> ins \o parsers
         [] n \in Inters -> ins \o parsers \o inters(n[2])
         [] n \in OutNodes -> ins \o parsers \o inters(NInter + 1) \o [o \in Outputs |-> Out(o)]

\* termination_send_msg: a terminate message to each input.
TermTo(i) == Term(i, IF Term(i, 1) \in live THEN 2 ELSE 1)
TerminationSend(pipes) ==
    IF termSent = 0 \/ ~Asserts
    THEN /\ fpipe' = [i \in Inputs |-> Append(pipes[i], TermTo(i))]
         /\ live' = live \cup UNION {ToSet(fpipe'[i]) : i \in Inputs}
         /\ termSent' = NIn
         /\ UNCHANGED cpc
    ELSE /\ cpc' = "abort"
         /\ UNCHANGED <<fpipe, live, termSent>>

\* periodic_send_msg: a periodic message to each input; when one cannot be
\* created, the collector is to terminate, or is ended by an assertion when it
\* is terminating already (bound: without assertions this happens only once, and
\* before any other request has sent terminate messages).
PeriodicSend ==
    LET upTo(k) == [i \in Inputs |-> IF i <= k THEN Append(fpipe[i], Stray(i, periods))
                                     ELSE fpipe[i]]
    IN
    \/ /\ fpipe' = [i \in Inputs |-> Append(fpipe[i], Periodic(i, periods))]
       /\ live' = live \cup {Periodic(i, periods) : i \in Inputs}
       /\ periods' = periods + 1
       /\ UNCHANGED <<termSent, cpc>>
    \/ /\ AllocFails /\ (termSent = 0 \/ Asserts)
       /\ \E k \in 0 .. NIn - 1 : TerminationSend(upTo(k))
       /\ UNCHANGED periods

\* A request for fast termination is never taken back.
MUT_NextState(type) == IF type = "fast" THEN "stop_fast" ELSE state
NextState(type) == IF state = "stop_fast" \/ type = "fast" THEN "stop_fast" ELSE "stop_slow"

\* termination_handle, for a request.
HandleRequest(type, n) ==
    /\ stops' = CASE state = "stop_fast" -> <<>>
                  [] state # "stop_fast" /\ type = "fast" -> StopAll
                  [] OTHER -> StopPartly(n)
    /\ state' = NextState(type)
    /\ IF state = "running" THEN TerminationSend(fpipe)
       ELSE UNCHANGED <<fpipe, live, termSent, cpc>>

\* The last terminate message is gone.
MUT_LastDone == termSent >= 1
LastDone == termSent = 1

\* termination_handle, for the notification that a terminate message is gone.
HandleDone ==
    /\ termSent' = IF state = "running" \/ termSent = 0 THEN termSent ELSE termSent - 1
    /\ cpc' = CASE state = "running" -> "run"
                [] state # "running" /\ termSent = 0 -> "abort"
                [] state # "running" /\ LastDone -> "join"
                [] OTHER -> "run"
    /\ UNCHANGED <<fpipe, live, state, stops>>

\* ipx_cpipe_receive waits for the timer, queues a periodic request and takes the
\* oldest request (bound: after MaxPeriodic messages the timer is silent).
Receive ==
    LET tick == IF periods < MaxPeriodic THEN <<<<"periodic", NoMsg>>>> ELSE <<>>
        queue == cpipe \o tick
        req == Head(queue)
    IN
    /\ cpc = "run" /\ stops = <<>> /\ queue # <<>>
    /\ cpipe' = Tail(queue)
    /\ CASE req[1] = "periodic" -> /\ IF periods < MaxPeriodic THEN PeriodicSend
                                      ELSE UNCHANGED <<fpipe, live, termSent, periods, cpc>>
                                   /\ UNCHANGED <<state, stops>>
         [] req[1] = "done" -> HandleDone /\ UNCHANGED periods
         [] OTHER -> HandleRequest(req[1], req[2]) /\ UNCHANGED periods
    /\ UNCHANGED <<threads, askers, processing, signals>>

\* The instances are disabled one after the other.
StopNext ==
    /\ stops # <<>>
    /\ processing' = [processing EXCEPT ![Head(stops)] = FALSE]
    /\ stops' = Tail(stops)
    /\ UNCHANGED <<threads, askers, state, termSent, periods, cpc, fpipe, cpipe, signals, live>>

\* cleanup: the threads are joined, then what is left in the pipes is destroyed.
Cleanup ==
    /\ cpc = "join" /\ stops = <<>>
    /\ \A n \in Nodes : pc[n] = "exit"
    /\ live' = live \ UNION {ToSet(fpipe[i]) : i \in Inputs}
    /\ fpipe' = [i \in Inputs |-> <<>>]
    /\ cpc' = "done"
    /\ UNCHANGED <<threads, askers, processing, state, termSent, stops, periods, cpipe, signals>>

\* termination_handler: the first signal asks for a slow termination, the second
\* for a fast one.
Signal ==
    /\ signals < MaxSignals
    /\ cpc # "done"
    /\ signals' = signals + 1
    /\ cpipe' = Append(cpipe, <<IF signals = 0 THEN "slow" ELSE "fast", NoMsg>>)
    /\ UNCHANGED <<threads, askers, processing, config, fpipe, live>>

\* The process has ended, or nobody has asked it to.
Idle == (cpc \in {"done", "abort"} \/ state = "running") /\ UNCHANGED vars

-----------------------------------------------------------------------------
InputThread(i) == InputPipe(i) \/ InputGet(i) \/ InputSkip(i) \/ PushOne(In(i)) \/ HandleCode(In(i))
MoverThread(n) ==
    \/ MoverPop(n) \/ MoverPass(n) \/ MoverTerm(n) \/ PushOne(n) \/ HandleCode(n)
    \/ n \in Parsers /\ ParserProcess(n[2])
    \/ n \in Inters /\ InterProcess(n)
    \/ n = Mgr /\ ManagerProcess
OutThread(n) == OutPop(n) \/ OutRelease(n) \/ OutDestroy(n)
Configurator == Receive \/ StopNext \/ Cleanup

Next ==
    \/ \E i \in Inputs : InputThread(i)
    \/ \E n \in Movers : MoverThread(n)
    \/ \E n \in OutNodes : OutThread(n)
    \/ cpc # "abort" /\ Configurator
    \/ Signal
    \/ Idle

Spec == Init /\ [][Next]_vars

(* Every thread is scheduled and no callback of a plugin runs forever; the   *)
(* timer of the configuration pipe keeps ticking.  Signals need not come.    *)
Fairness ==
    /\ \A i \in Inputs : WF_vars(InputThread(i))
    /\ \A n \in Movers : WF_vars(MoverThread(n))
    /\ \A n \in OutNodes : WF_vars(OutThread(n))
    /\ WF_vars(Configurator)
FairSpec == Spec /\ Fairness

-----------------------------------------------------------------------------
(* Properties.                                                               *)

TypeOK ==
    /\ ring \in [Readers -> BoundedSeq(Msgs, RingSize)]
    /\ processing \in [Nodes -> BOOLEAN]
    /\ pc \in [Nodes -> {"loop", "get", "decide", "push", "handle", "release", "destroy", "exit"}]
    /\ cur \in [Nodes -> Msgs \cup {NoMsg}]
    /\ \A n \in Nodes : \A k \in DOMAIN out[n] : out[n][k] \in Readers \X Msgs
    /\ rc \in [Nodes -> {"ok", "slow", "fast"}]
    /\ termCnt \in 0 .. NIn /\ termSent \in 0 .. NIn
    /\ waiting \in [Movers -> 0 .. MaxPeriodic]
    /\ made \in [Inputs -> 0 .. MaxData]
    /\ open \in [Inputs -> BOOLEAN] /\ knows \in [Inputs -> BOOLEAN]
    /\ \A i \in Inputs : ToSet(fpipe[i]) \subseteq Msgs
    /\ state \in {"running", "stop_slow", "stop_fast"}
    /\ ToSet(stops) \subseteq Nodes
    /\ periods \in 0 .. MaxPeriodic
    /\ cpc \in {"run", "join", "done", "abort"}
    /\ signals \in 0 .. MaxSignals
    /\ live \subseteq Msgs
    /\ refs \in [Msgs -> 0 .. NOut]

\* Messages in the rings, in the hands of a thread, or about to be pushed.
\* (A thread that still has to push has given away what it has pushed.)
Holding(n) == IF pc[n] \in {"decide", "release"} THEN {cur[n]} ELSE {}
Pending(n) == {out[n][k][2] : k \in DOMAIN out[n]}
InRing(n) == IF n \in Readers THEN ToSet(ring[n]) ELSE {}
InFlight == UNION {Holding(n) \cup Pending(n) \cup InRing(n) : n \in Nodes}

(* Nobody holds, or will receive, a message that has been destroyed: the      *)
(* output manager counts the destinations before its first push and the last *)
(* output destroys.                                                          *)
NoUseAfterFree == InFlight \subseteq live

(* The reference counter of a message on its way to the outputs is the       *)
(* number of outputs that still have to release it; so at the end every      *)
(* message has been destroyed.                                               *)
CountIsUsers ==
    /\ \A m \in live : refs[m] > 0 =>
          refs[m] = Cardinality({o \in Outputs :
                        \/ m \in InRing(Out(o)) \cup Holding(Out(o))
                        \/ \E k \in DOMAIN out[Mgr] : out[Mgr][k] = <<Out(o), m>>})
    /\ cpc = "done" => live = {}

(* A terminate message is the last message an instance gets: nothing is left *)
(* in the ring of a thread that has ended, and nothing will be pushed there. *)
NothingAfterTerm ==
    \A n \in Readers : (pc[n] \in {"destroy", "exit"} \/ Type(cur[n]) = "term") =>
        /\ ring[n] = <<>>
        /\ \A w \in Nodes : \A k \in DOMAIN out[w] : out[w][k][1] # n

(* Garbage is destroyed only when no IPFIX message and no close message of   *)
(* the same session is left in the pipeline: those refer to the session, to  *)
(* its templates and to the parser (message_garbage.h).                      *)
Garbages == {m \in Msgs : Type(m) = "garbage"}
GarbageIsLast ==
    [][\A m \in Garbages : m \in live /\ m \notin live' =>
           \A d \in live : ~(IsData(d) /\ d[2] = m[2])]_vars

(* When the configurator is told that the termination is complete, every     *)
(* instance has passed its terminate message on, all terminate messages are  *)
(* gone, and it never meets a terminate message it does not expect.          *)
DoneIsComplete ==
    /\ cpc \in {"join", "done"} =>
          /\ \A n \in Nodes : pc[n] \in {"destroy", "exit"}
          /\ \A i \in Inputs, k \in 1 .. 2 : Term(i, k) \notin live
    /\ cpc # "abort"

(* A slow termination loses nothing that has passed the instances that asked *)
(* for it: an IPFIX message that got through every instance up to the last   *)
(* one that asked is processed by every output that wants it.                *)
Place(n) == CASE n \in InNodes -> 1 [] n \in Parsers -> 2
              [] n \in Inters -> 2 + n[2] [] OTHER -> NInter + 4
UpToAskers == {n \in Nodes : \E a \in askers : Place(n) <= Place(a)}
Path(m) == {In(m[2]), Parser(m[2])} \cup (Inters \ {Mgr})
SlowKeepsData ==
    cpc = "done" /\ state = "stop_slow" /\ askers \cap OutNodes = {} =>
        \A m \in Msgs, o \in Outputs :
            /\ Type(m) = "ipfix" /\ <<In(m[2]), m>> \in seen
            /\ m[2] \in Wants[o]
            /\ \A n \in Path(m) \cap UpToAskers : <<n, m>> \in seen
            => <<Out(o), m>> \in seen

(* Every request for termination ends the collector: all threads have been   *)
(* joined.                                                                   *)
Terminates == (\E k \in DOMAIN cpipe : cpipe[k][1] \in {"slow", "fast"}) ~> cpc = "done"
=============================================================================
