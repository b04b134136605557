------------------------------ MODULE Extensions ------------------------------
(* Extensions of data records, extensions.cpp, extension.c, context.c and the *)
(* record array of message_ipfix.c: plugin instances register what they add   *)
(* to a record and what they depend on, the configurator lays the extensions  *)
(* out behind each other, and the instances use them through their handles.   *)
(*                                                                            *)
(* A handle points into an array of the context that is reallocated when more *)
(* is registered.  A call that is refused changes nothing.                    *)
EXTENDS Integers, Sequences, FiniteSets, SequencesExt

CONSTANTS
    NInter,        \* intermediate instances, in the order of the pipeline
    NOut,          \* outputs, all at the end of it
    Ext,           \* extensions, numbered in the order of the map
    Sizes,         \* sizes they may have, in bytes
    Bits,          \* of the mask: 64
    RecDef,        \* records in a new wrapper, REC_DEF_CNT: 64
    MaxRecs, MaxItems

Inter == 1 .. NInter
Inst == 1 .. NInter + NOut
Position(i) == IF i \in Inter THEN i ELSE NInter + 1

VARIABLES
    items,         \* ctx->cfg_extension.items of an instance
    address,       \* of this array
    handle,        \* the array that an instance's handles point into
    phase,         \* of the configurator: "init", "resolved", "failed"
    running,       \* instances that are up to date and have started
    recs,          \* records of the message in the pipeline: [mask, mem]
    done,          \* instances that have processed it
    filled,        \* ghost: what the producers have filled in a record
    wrong          \* ghost: "stale", "unfilled", "torn", "lost", "early"

vars == <<items, address, handle, phase, running, recs, done, filled, wrong>>

Init ==
    /\ items = [i \in Inst |-> <<>>]
    /\ address = [i \in Inst |-> 0]
    /\ handle = [i \in Inst |-> <<>>]
    /\ phase = "init" /\ running = {} /\ recs = <<>> /\ done = {}
    /\ filled = <<>> /\ wrong = {}

-----------------------------------------------------------------------------
\* The constructors run one after another, those of the outputs first.
Initialised(i, j) == IF (i \in Inter) = (j \in Inter) THEN i < j ELSE j \in Inter

\* ipx_ctx_ext_create(): one more item, maybe in another place.
Create(i, etype, e, size) ==
    /\ phase = "init" /\ Len(items[i]) < MaxItems
    /\ \A j \in Inst : Initialised(i, j) => items[j] = <<>>
    /\ \A k \in DOMAIN items[i] : items[i][k].name # e
    /\ items' = [items EXCEPT ![i] = Append(@,
                    [etype |-> etype, name |-> e, size |-> size, offset |-> 0, mask |-> {}])]
    /\ \E moved \in {0, 1} :
          /\ items[i] = <<>> => moved = 0
          /\ address' = [address EXCEPT ![i] = @ + moved]
    /\ handle' = [handle EXCEPT ![i] = Append(@, address'[i])]
    /\ UNCHANGED <<phase, running, recs, done, filled, wrong>>

Producer(i, e) == i \in Inter /\ \E size \in Sizes : Create(i, "producer", e, size)
Consumer(i, e) == Create(i, "consumer", e, 0)

-----------------------------------------------------------------------------
\* The plugins that produce or depend on an extension, as <<instance, item>>.
Plugins(e, etype) ==
    {<<i, k>> \in Inst \X (1 .. MaxItems) :
        k \in DOMAIN items[i] /\ items[i][k].name = e /\ items[i][k].etype = etype}
Names == {e \in Ext : Plugins(e, "producer") \cup Plugins(e, "consumer") # {}}
ProducerOf(e) == CHOOSE p \in Plugins(e, "producer") : TRUE

MUT_check_dependencies(e) == Cardinality(Plugins(e, "producer")) = 1
check_dependencies(e) ==
    /\ Cardinality(Plugins(e, "producer")) = 1
    /\ \A c \in Plugins(e, "consumer") : Position(ProducerOf(e)[1]) <= Position(c[1])

\* The layout: sizes are rounded up to multiples of 8, bits go up one by one.
SizeOf(e) == LET p == ProducerOf(e) IN items[p[1]][p[2]].size
MUT_Aligned(n) == (n \div 8) * 8
Aligned(n) == IF n % 8 = 0 THEN n ELSE (n \div 8 + 1) * 8
Before(e) == SetToSeq({f \in Names : f < e})
Offset(e) == FoldLeft(LAMBDA n, f : n + Aligned(SizeOf(f)), 0, Before(e))
Mask(e) == {Len(Before(e)) + 1} \cap 1 .. Bits
Total == FoldLeft(LAMBDA n, f : n + Aligned(SizeOf(f)), 0, SetToSeq(Names))

resolve ==
    /\ phase = "init"
    /\ phase' = IF Cardinality(Names) <= Bits /\ \A e \in Names : check_dependencies(e)
                THEN "resolved" ELSE "failed"
    /\ UNCHANGED <<items, address, handle, running, recs, done, filled, wrong>>

\* Phase 5 of the start: outputs before intermediate instances.
update_instance(i) ==
    /\ phase = "resolved" /\ i \notin running
    /\ i \in Inter => Inst \ Inter \subseteq running
    /\ items' = [items EXCEPT ![i] = [k \in DOMAIN items[i] |->
                    LET e == items[i][k].name
                    IN [items[i][k] EXCEPT !.size = SizeOf(e), !.offset = Offset(e),
                                           !.mask = Mask(e)]]]
    /\ running' = running \cup {i}
    /\ UNCHANGED <<address, handle, phase, recs, done, filled, wrong>>

-----------------------------------------------------------------------------
\* The parser adds records: those of a wrapper that has grown are not cleared.
Message ==
    /\ running = Inst /\ Names # {} /\ recs = <<>>
    /\ \E n \in 1 .. MaxRecs, junk \in SUBSET (1 .. Bits) :
          recs' = [r \in 1 .. n |-> [mask |-> IF r <= RecDef THEN {} ELSE junk,
                                     mem |-> [b \in 1 .. Total |-> 0]]]
    /\ filled' = [r \in DOMAIN recs' |-> {}]
    /\ UNCHANGED <<items, address, handle, phase, running, done, wrong>>

Bytes(x) == x.offset + 1 .. x.offset + x.size
Valid(i, k) == handle[i][k] = address[i]

\* ipx_ctx_ext_get(), by a consumer, of record r.
Get(r, x) ==
    LET found == recs[r].mask \cap x.mask # {}
    IN CASE ProducerOf(x.name)[1] \notin done -> {"early"}
         [] found /\ x.name \notin filled[r] -> {"unfilled"}
         [] found /\ \E b \in Bytes(x) : b \notin 1 .. Total -> {"torn"}
         [] found /\ \E b \in Bytes(x) : recs[r].mem[b] # x.name -> {"torn"}
         [] ~found /\ x.name \in filled[r] -> {"lost"}
         [] OTHER -> {}

\* An instance gets what it depends on in each record, and fills what it
\* likes with ipx_ctx_ext_set_filled().  What a stale handle does is open.
Process(i) ==
    LET ks == {k \in DOMAIN items[i] : Valid(i, k)}
        Of(etype) == {items[i][k] : k \in {k \in ks : items[i][k].etype = etype}}
    IN
    /\ recs # <<>> /\ i \notin done
    /\ \A j \in Inter : j < i => j \in done
    /\ \E F \in [DOMAIN recs -> SUBSET Of("producer")] :
          /\ recs' = [r \in DOMAIN recs |->
                [mask |-> recs[r].mask \cup UNION {x.mask : x \in F[r]},
                 mem |-> [b \in 1 .. Total |->
                            IF \E x \in F[r] : b \in Bytes(x)
                            THEN (CHOOSE x \in F[r] : b \in Bytes(x)).name ELSE recs[r].mem[b]]]]
          /\ filled' = [r \in DOMAIN recs |-> filled[r] \cup {x.name : x \in F[r]}]
    /\ wrong' = wrong \cup UNION {Get(r, x) : r \in DOMAIN recs, x \in Of("consumer")}
                      \cup IF ks # DOMAIN items[i] THEN {"stale"} ELSE {}
    /\ done' = done \cup {i}
    /\ UNCHANGED <<items, address, handle, phase, running>>

Done == (phase = "failed" \/ done = Inst \/ (running = Inst /\ Names = {})) /\ UNCHANGED vars

Next ==
    \/ \E i \in Inst, e \in Ext : Producer(i, e) \/ Consumer(i, e)
    \/ resolve
    \/ \E i \in Inst : update_instance(i) \/ Process(i)
    \/ Message
    \/ Done

Spec == Init /\ [][Next]_vars

-----------------------------------------------------------------------------
(* An instance gets an extension whole, after its one producer and exactly if *)
(* it was filled, unless its handle is stale or the record is one that the    *)
(* wrapper has grown by.                                                      *)
ExtensionsWhole ==
    /\ wrong \subseteq {"stale", "unfilled"}
    /\ "unfilled" \in wrong => Len(recs) > RecDef

(* plugins.h: what has not been filled is not found, and an instance may      *)
(* register more than one extension.                                          *)
OnlyWhatWasFilled == wrong \cap {"stale", "unfilled"} = {}
=============================================================================
