------------------------------- MODULE Startup -------------------------------
(* Start and end of the collector, configurator.cpp with instance_*.cpp and   *)
(* plugin_mgr.cpp: instances are created, connected, initialised and started  *)
(* phase by phase.  Any step may fail; then, and at the end, all instances    *)
(* are destroyed in an order of their own, by the configurator's thread,      *)
(* while the threads of other instances may still run.                        *)
(*                                                                            *)
(* An instance has a context with a ring that it reads; an input has a second *)
(* context, its parser, with the ring between them and the feedback pipe.     *)
EXTENDS Naturals, Sequences, FiniteSets, SequencesExt

CONSTANTS NIn, NInter, NOut

Kind(kind, n) == [i \in 1 .. n |-> <<kind, i>>]
Outputs == Kind("out", NOut)
Inters == Kind("inter", NInter)
Inputs == Kind("in", NIn)
Manager == <<"mgr", 1>>
Parser(i) == <<"parser", i[2]>>
Input(p) == <<"in", p[2]>>
WithParsers(seq) == FlattenSeq([k \in DOMAIN seq |-> <<Parser(seq[k]), seq[k]>>])
Parsers == {Parser(i) : i \in ToSet(Inputs)}
Ctx == ToSet(Outputs \o Inters \o <<Manager>> \o WithParsers(Inputs))
Instance == Ctx \ Parsers
Chain == Inters \o <<Manager>>             \* the output manager is the last one
Plugin == {"in", "inter", "out"}           \* the parser and the manager are built in

VARIABLES
    phase,         \* of startup() or the end of the collector
    todo,          \* what is left of this phase
    ctx,           \* "none", "new", "init", "running", "ended", "joined", "gone"
    ring,          \* contexts whose source ring exists, with what the instance owns
    dst,           \* pairs <<context, a ring it writes to>>
    multi,         \* rings in the mode for multiple writers
    cnt,           \* terminate messages a context waits for
    refs,          \* references to a plugin
    perms,         \* what a context may do: "pass" messages, "sub"scribe to types
    selected,      \* types of messages that a context is subscribed to
    inited, ended, \* ghosts: contexts initialised, destructors called
    early,        \* ghost: contexts whose ring got a message without their thread
    asked,         \* terminate messages have been sent
    handed,         \* connections over which the last terminate message has been pushed
    released       \* outputs that have given up their share of it

rights == <<perms, selected, early>>
ending == <<asked, handed, released>>
vars == <<phase, todo, ctx, ring, dst, multi, cnt, refs, rights, inited, ended, ending>>

Init ==
    /\ phase = "create" /\ todo = Outputs \o Inters \o Inputs \o <<Manager>>
    /\ ctx = [c \in Ctx |-> "none"]
    /\ ring = {} /\ dst = {} /\ multi = {} /\ cnt = [c \in Ctx |-> 1]
    /\ refs = [p \in Plugin |-> 0]
    /\ perms = [c \in Ctx |-> {}] /\ selected = [c \in Ctx |-> {}] /\ early = {}
    /\ inited = {} /\ ended = [c \in Ctx |-> 0] /\ asked = FALSE
    /\ handed = {} /\ released = {}

\* The vectors of instances go from the last to the first that was declared,
\* each from its beginning; an input's own context goes before its parser.
DestroyOrder ==
    FlattenSeq([k \in DOMAIN Inputs |-> <<Inputs[k], Parser(Inputs[k])>>]) \o Chain \o Outputs
Existing == SelectSeq(DestroyOrder, LAMBDA c : ctx[c] # "none")

\* An exception: the instances that there are go out of scope.
Unwind == phase' = "unwind" /\ todo' = Existing

\* The contexts of an instance.
Parts(i) == IF i[1] = "in" THEN {i, Parser(i)} ELSE {i}
UsesPlugin(c) == c[1] \in Plugin

-----------------------------------------------------------------------------
\* Phase 1: the plugin is found and loaded, the instance allocates its parts.
create ==
    /\ phase = "create" /\ todo # <<>>
    /\ \/ /\ Unwind /\ UNCHANGED <<ctx, ring, refs>>
       \/ /\ todo' = Tail(todo) /\ UNCHANGED phase
          /\ ctx' = [c \in Ctx |-> IF c \in Parts(Head(todo)) THEN "new" ELSE ctx[c]]
          /\ ring' = ring \cup Parts(Head(todo))
          /\ refs' = [p \in Plugin |-> refs[p] + IF p = Head(todo)[1] THEN 1 ELSE 0]
    /\ UNCHANGED <<dst, multi, cnt, rights, inited, ended, ending>>

\* Phase 2: connect_to().  A filter of an output may be malformed.
Connections ==
    {<<i, Parser(i)>> : i \in ToSet(Inputs)} \cup {<<p, Head(Chain)>> : p \in Parsers}
    \cup {<<Chain[k], Chain[k + 1]>> : k \in 1 .. NInter} \cup {<<Manager, o>> : o \in ToSet(Outputs)}
\* No context may wait for no terminate message at all.
TermCntSet(c, n) == IF n = 0 THEN cnt ELSE [cnt EXCEPT ![c] = n]
MUT_TermCount == 1
TermCount == NIn
connect ==
    /\ phase = "create" /\ todo = <<>>
    /\ \/ /\ Unwind /\ UNCHANGED <<multi, cnt>>
          /\ dst' = {d \in Connections : d[1] # Manager}
       \/ /\ phase' = "init" /\ todo' = Outputs \o <<Manager>> \o Inters \o WithParsers(Inputs)
          /\ dst' = Connections
          /\ multi' = IF NIn > 1 THEN {Head(Chain)} ELSE {}
          /\ cnt' = TermCntSet(Head(Chain), TermCount)
    /\ UNCHANGED <<ctx, ring, refs, rights, inited, ended, ending>>

\* What a context of a type must have (of an input, ring stands for the feedback
\* pipe); the output manager has no ring of its own to write to.
HasTarget(c) == \E d \in dst : d[1] = c
CheckInput(c) == c \in ring /\ HasTarget(c)
CheckIntermediate(c) == c \in ring /\ (HasTarget(c) \/ c = Manager)
CheckOutput(c) == c \in ring
Checks(c) ==
    CASE c[1] = "in" -> CheckInput(c)
      [] c[1] = "out" -> CheckOutput(c)
      [] OTHER -> CheckIntermediate(c)

Type == {"ipfix", "session", "periodic", "garbage", "terminate"}
Allowed(c) == IF c = Manager THEN Type ELSE {"ipfix", "session", "periodic"}
Selected(c) == IF c[1] = "in" THEN {} ELSE IF c = Manager THEN Type ELSE {"ipfix"}
Permissions(c) ==
    (IF c[1] \in {"in", "inter", "parser"} THEN {"pass"} ELSE {}) \cup (IF c[1] # "in" THEN {"sub"} ELSE {})

\* What plugins ask for; the parser and the manager ask for what they need.
Wishes(c) ==
    CASE c = Manager -> {Type}
      [] c \in Parsers -> {{"ipfix", "session"}}
      [] OTHER -> {{}, {"session", "garbage"}, {"ipfix", "session", "periodic"}}
subscribe(c, wish) ==
    IF "sub" \in Permissions(c) /\ wish \subseteq Allowed(c) THEN wish ELSE Selected(c)

\* A message that is passed on lies unread if the thread behind does not run.
MsgPass(c, perm, connected) ==
    early' = early \cup
        {d[2] : d \in {d \in dst : "pass" \in perm /\ connected /\ d[1] = c /\ ctx[d[2]] # "running"}}

\* Phase 3: the constructors, which may try to pass messages on.  What fails, a
\* check or the constructor, leaves the context as it was.
MUT_InConstructor(c) == Permissions(c)
InConstructor(c) == Permissions(c) \ {"pass"}
ctx_init(c) ==
    /\ Checks(c)
    /\ ctx' = [ctx EXCEPT ![c] = "init"]
    /\ perms' = [perms EXCEPT ![c] = Permissions(c)]
    /\ \E wish \in Wishes(c) : selected' = [selected EXCEPT ![c] = subscribe(c, wish)]
    /\ MsgPass(c, InConstructor(c), TRUE)
initialise ==
    /\ phase = "init" /\ todo # <<>>
    /\ \/ Unwind /\ UNCHANGED <<ctx, rights, inited>>
       \/ /\ todo' = Tail(todo) /\ UNCHANGED phase
          /\ ctx_init(Head(todo)) /\ inited' = inited \cup {Head(todo)}
    /\ UNCHANGED <<ring, dst, multi, cnt, refs, ended, ending>>

\* Phase 4: the extensions are resolved (see Extensions).
extensions ==
    /\ phase = "init" /\ todo = <<>>
    /\ Unwind \/ (phase' = "start" /\ todo' = Outputs \o Chain \o WithParsers(Inputs))
    /\ UNCHANGED <<ctx, ring, dst, multi, cnt, refs, rights, inited, ended, ending>>

\* Phase 5; a context whose thread cannot be created is what it was.
ctx_run(c) == ctx[c] = "init" /\ ctx' = [ctx EXCEPT ![c] = "running"]
start ==
    /\ phase = "start" /\ todo # <<>>
    /\ \/ Unwind /\ UNCHANGED ctx
       \/ todo' = Tail(todo) /\ UNCHANGED phase /\ ctx_run(Head(todo))
    /\ UNCHANGED <<ring, dst, multi, cnt, refs, rights, inited, ended, ending>>

started ==
    /\ phase = "start" /\ todo = <<>>
    /\ phase' = "running"
    /\ UNCHANGED <<todo, ctx, ring, dst, multi, cnt, refs, rights, inited, ended, ending>>

\* A terminate message for every input.
terminate ==
    /\ phase = "running" /\ ~asked /\ asked' = TRUE
    /\ UNCHANGED <<phase, todo, ctx, ring, dst, multi, cnt, refs, rights, inited, ended, handed, released>>

\* A context has got the terminate message of every one that writes to it, an
\* input its own from the feedback pipe.
Writers(c) == {d[1] : d \in {d \in dst : d[2] = c}}
GotLast(c) ==
    IF c[1] = "in" THEN asked
    ELSE Cardinality({w \in Writers(c) : <<w, c>> \in handed}) >= cnt[c]

\* The manager still processes its last message: it goes from one output to
\* the next, each of which may have a full ring.
HandOver(o) ==
    /\ ctx[Manager] = "running" /\ GotLast(Manager) /\ <<Manager, o>> \notin handed
    /\ \A b \in 1 .. o[2] - 1 : <<Manager, <<"out", b>>>> \in handed
    /\ handed' = handed \cup {<<Manager, o>>}
    /\ UNCHANGED <<phase, todo, ctx, ring, dst, multi, cnt, refs, rights, inited, ended, asked, released>>

\* An output gives up its share; the last one that does destroys the message.
Release(o) ==
    /\ ctx[o] = "running" /\ GotLast(o) /\ o \notin released
    /\ released' = released \cup {o}
    /\ UNCHANGED <<phase, todo, ctx, ring, dst, multi, cnt, refs, rights, inited, ended, asked, handed>>

\* A thread ends: it calls the destructor of its plugin, then passes the
\* message on, if it has not yet.
ThreadEnds(c) ==
    /\ ctx[c] = "running" /\ GotLast(c)
    /\ c = Manager => \A o \in ToSet(Outputs) : <<c, o>> \in handed
    /\ c[1] = "out" => c \in released
    /\ ctx' = [ctx EXCEPT ![c] = "ended"]
    /\ ended' = [ended EXCEPT ![c] = @ + 1]
    /\ MsgPass(c, perms[c], TRUE)
    /\ handed' = handed \cup {d \in dst : d[1] = c}
    /\ UNCHANGED <<phase, todo, ring, dst, multi, cnt, refs, perms, selected, inited, asked, released>>

\* All terminate messages are destroyed, which the first of the chain has done
\* with all but the last: the manager and the outputs may be still at work.
finish ==
    /\ phase = "running" /\ released = ToSet(Outputs)
    /\ phase' = "cleanup" /\ todo' = Existing
    /\ UNCHANGED <<ctx, ring, dst, multi, cnt, refs, rights, inited, ended, ending>>

\* ipx_ctx_destroy() joins the thread, or calls the destructor if there was
\* none, which is then connected to nothing; after the last context of an instance
\* its rings and its plugin go.
MUT_IsLast(c) == c \notin Parsers
IsLast(c) == c[1] # "in"
MUT_CallsDestructor(c) == ctx[c] # "new"
CallsDestructor(c) == ctx[c] = "init"
MUT_Connected == TRUE
Connected == FALSE
destroy ==
    /\ phase \in {"unwind", "cleanup"} /\ todo # <<>>
    /\ LET c == Head(todo)
           own == IF c \in Parsers THEN {c, Input(c)} ELSE {c}
       IN /\ ctx[c] # "running"
          /\ ended' = [ended EXCEPT ![c] = IF CallsDestructor(c) THEN @ + 1 ELSE @]
          /\ MsgPass(c, IF CallsDestructor(c) THEN perms[c] ELSE {}, Connected)
          /\ ctx' = [ctx EXCEPT ![c] = IF @ = "ended" THEN "joined" ELSE "gone"]
          /\ ring' = IF IsLast(c) THEN ring \ own ELSE ring
          /\ refs' = [p \in Plugin |->
                refs[p] - IF IsLast(c) /\ p \in {o[1] : o \in own} THEN 1 ELSE 0]
    /\ todo' = Tail(todo)
    /\ UNCHANGED <<phase, dst, multi, cnt, perms, selected, inited, ending>>

exit ==
    /\ phase \in {"unwind", "cleanup"} /\ todo = <<>>
    /\ phase' = "exit"
    /\ UNCHANGED <<todo, ctx, ring, dst, multi, cnt, refs, rights, inited, ended, ending>>

\* Nobody ends the threads that run when another cannot be started.
Stuck == phase = "unwind" /\ todo # <<>> /\ ctx[Head(todo)] = "running" /\ UNCHANGED vars
Done == phase = "exit" /\ UNCHANGED vars

Next ==
    \/ create \/ connect \/ initialise \/ extensions \/ start \/ started
    \/ terminate \/ (\E c \in Ctx : ThreadEnds(c)) \/ (\E o \in ToSet(Outputs) : HandOver(o) \/ Release(o))
    \/ finish \/ destroy \/ exit
    \/ Stuck \/ Done

Spec == Init /\ [][Next]_vars

-----------------------------------------------------------------------------
(* A thread never runs without what it uses: its ring, the rings it writes to *)
(* (and the ODID filters with them), the feedback pipe, its plugin's code.     *)
NoUseAfterDestroy ==
    \A c \in Ctx : ctx[c] = "running" =>
        /\ c \in ring /\ (c \in Parsers => Input(c) \in ring)
        /\ \A d \in dst : d[1] = c => d[2] \in ring
        /\ UsesPlugin(c) => refs[c[1]] > 0

(* Nobody ends before everything that writes to it has handed its last        *)
(* message over, behind its destructor unless it is the manager, which may     *)
(* still be at the ring of another output; and when the configurator joins    *)
(* the threads, each of them has got all that it needs to end.                *)
EndsInOrder ==
    /\ \A d \in dst : ctx[d[2]] = "ended" =>
          d \in handed /\ (d[1] # Manager => ctx[d[1]] \in {"ended", "joined"})
    /\ phase = "cleanup" => \A c \in Ctx : ctx[c] = "running" => GotLast(c)

(* No constructor, destructor or ending thread puts a message where no thread *)
(* takes it; the checks of a context never refuse what the configurator has    *)
(* connected; and no plugin but the output manager is given garbage or         *)
(* terminate messages, whatever it asks for.                                   *)
NothingUnread ==
    /\ early = {}
    /\ phase = "init" => \A c \in ToSet(todo) : Checks(c)
    /\ \A c \in Ctx \ {Manager} : selected[c] \cap {"garbage", "terminate"} = {}
    /\ \A c \in inited : c[1] \in {"parser", "mgr"} => {"ipfix", "session"} \subseteq selected[c]

(* Whichever step fails: every plugin that was initialised is destroyed, once *)
(* only, and nothing is left of the instances.                                *)
DestroyedOnce ==
    /\ \A c \in Ctx : ended[c] <= IF c \in inited THEN 1 ELSE 0
    /\ phase = "exit" =>
          /\ \A c \in inited : ended[c] = 1
          /\ ring = {} /\ \A p \in Plugin : refs[p] = 0
          /\ \A c \in Ctx : ctx[c] \in {"none", "joined", "gone"}
=============================================================================
