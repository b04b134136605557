----------------------------- MODULE Aggregation -----------------------------
(* fdsdump, aggregation by several threads: workers take files from a shared *)
(* list and aggregate the flows in tables of their own, the run thread hears *)
(* of their states by a channel and merges the tables when all have finished, *)
(* and the main thread polls its state and prints the result; and the hash   *)
(* table in which each of them aggregates.                                   *)
EXTENDS Naturals, Sequences, FiniteSets, FiniteSetsExt, SequencesExt

CONSTANTS Worker,       \* a sequence: threads in the order they are started
          FileLists,    \* lists of files: [flows, opens, sound]
          NoFile

VARIABLES flist,        \* the files given, and whether the tables are sorted:
          sorts,        \* an order and a limit were given
          todo,         \* the files no worker has taken
          reading,      \* of each worker: its file and the flows read from it
          table,        \* of each worker: the flows it has aggregated
          wstate, wpc,  \* of each worker: the state it shows, where it is
          cancelled, started,
          told,         \* the channel from the workers to the run thread
          runPc, merged,
          state,        \* m_aggregator_state, which main reads without a lock
          mainPc
given == <<flist, sorts>>
files == <<todo, reading, table>>
workVars == <<files, wstate, wpc>>
vars == <<given, workVars, cancelled, started, told, runPc, merged, state, mainPc>>

Workers == ToSet(Worker)

Init ==
    /\ flist \in FileLists /\ sorts \in BOOLEAN
    /\ todo = [i \in DOMAIN flist |-> i]
    /\ reading = [w \in Workers |-> [file |-> NoFile, pos |-> 0]]
    /\ table = [w \in Workers |-> <<>>]
    /\ wstate = [w \in Workers |-> "none"] /\ wpc = [w \in Workers |-> "start"]
    /\ cancelled = FALSE /\ started = 0 /\ told = <<>>
    /\ runPc = "spawn" /\ merged = <<>> /\ state = "started" /\ mainPc = "wait"

-----------------------------------------------------------------------------
(* thread_worker.  A state is shown first and told of later.                 *)
Show(w, s, pc) == wstate' = [wstate EXCEPT ![w] = s] /\ wpc' = [wpc EXCEPT ![w] = pc]

Begin(w) == wpc[w] = "start" /\ Show(w, "aggregating", "tell") /\ UNCHANGED <<files, told>>

After == [aggregating |-> "read", sorting |-> "sort", errored |-> "gone", finished |-> "gone"]
Tell(w) ==
    /\ wpc[w] = "tell"
    /\ told' = Append(told, w)
    /\ wpc' = [wpc EXCEPT ![w] = After[wstate[w]]]
    /\ UNCHANGED <<files, wstate>>

\* The file a worker reads; one that cannot be opened is passed over.
Opened(w) == reading[w].file # NoFile /\ flist[reading[w].file].opens
HasFlow(w) == Opened(w) /\ reading[w].pos < flist[reading[w].file].flows
Broken(w) == Opened(w) /\ ~HasFlow(w) /\ ~flist[reading[w].file].sound

\* next_record throws, and the worker shows that it has failed.
Fail(w) ==
    /\ wpc[w] = "read" /\ Broken(w)
    /\ Show(w, "errored", "tell") /\ UNCHANGED <<files, told>>

\* The flag is looked at with each flow, and when there is none.
Quit(w) ==
    /\ cancelled
    /\ \/ wpc[w] = "read" /\ ~Broken(w)
       \/ wpc[w] = "read all" /\ sorts
    /\ Show(w, "finished", "tell") /\ UNCHANGED <<files, told>>

Process(w) ==
    /\ wpc[w] = "read" /\ HasFlow(w) /\ ~cancelled
    /\ reading' = [reading EXCEPT ![w].pos = @ + 1]
    /\ table' = [table EXCEPT ![w] = Append(@, <<reading[w].file, reading[w].pos + 1>>)]
    /\ UNCHANGED <<todo, wstate, wpc, told>>

\* Under the mutex: the front of the list is taken, unless it is empty.
TakeFile(w) ==
    /\ wpc[w] = "read" /\ ~HasFlow(w) /\ ~Broken(w) /\ ~cancelled
    /\ IF todo = <<>>
       THEN wpc' = [wpc EXCEPT ![w] = "read all"] /\ UNCHANGED <<todo, reading>>
       ELSE /\ reading' = [reading EXCEPT ![w] = [file |-> Head(todo), pos |-> 0]]
            /\ todo' = Tail(todo) /\ UNCHANGED wpc
    /\ UNCHANGED <<table, wstate, told>>

Sort(w) == wpc[w] = "read all" /\ sorts /\ ~cancelled /\ Show(w, "sorting", "tell") /\ UNCHANGED <<files, told>>
Finish(w) ==
    /\ wpc[w] = "sort" \/ (wpc[w] = "read all" /\ ~sorts)
    /\ Show(w, "finished", "tell") /\ UNCHANGED <<files, told>>

WorkerStep(w) ==
    /\ w \in {Worker[i] : i \in 1 .. started}
    /\ \/ Begin(w) \/ Tell(w) \/ Fail(w) \/ Quit(w)
       \/ Process(w) \/ TakeFile(w) \/ Sort(w) \/ Finish(w)
    /\ UNCHANGED <<given, cancelled, started, runPc, merged, state, mainPc>>

-----------------------------------------------------------------------------
(* run.                                                                      *)
Spawn ==
    /\ runPc = "spawn"
    /\ IF started < Len(Worker)
       THEN started' = started + 1 /\ UNCHANGED <<runPc, state>>
       ELSE runPc' = "listen" /\ state' = "aggregating" /\ UNCHANGED started
    /\ UNCHANGED <<told, cancelled, merged>>

\* The first worker to finish is enough.
MUT_AllIn(S) == \E w \in Workers : wstate[w] \in S

AllIn(S) == \A w \in Workers : wstate[w] \in S

\* The state looked at is the one the worker shows now, not when it told.
Hear ==
    /\ runPc = "listen" /\ told # <<>>
    /\ LET s == wstate[Head(told)]
       IN /\ runPc' = IF s = "errored" THEN "cancel"
                      ELSE IF s = "finished" /\ AllIn({"finished"}) THEN "merge" ELSE "listen"
          /\ state' = IF s = "errored" THEN "errored"
                      ELSE IF s = "sorting" /\ AllIn({"sorting", "finished"}) THEN "sorting" ELSE state
    /\ told' = Tail(told)
    /\ UNCHANGED <<started, cancelled, merged>>

\* After an error run returns and leaves the workers to the flag.
CancelAll ==
    /\ runPc = "cancel" /\ runPc' = "returned" /\ cancelled' = TRUE
    /\ UNCHANGED <<started, told, merged, state>>

MergeTables ==
    /\ runPc = "merge" /\ runPc' = "merged" /\ state' = "sorting"
    /\ merged' = FlattenSeq([i \in DOMAIN Worker |-> table[Worker[i]]])
    /\ UNCHANGED <<started, told, cancelled>>
FinishRun ==
    /\ runPc = "merged" /\ runPc' = "join" /\ state' = "finished"
    /\ UNCHANGED <<started, told, cancelled, merged>>
JoinWorkers ==
    /\ runPc = "join" /\ runPc' = "returned"
    /\ \A w \in Workers : wpc[w] = "gone"
    /\ UNCHANGED <<started, told, cancelled, merged, state>>

RunStep ==
    /\ Spawn \/ Hear \/ CancelAll \/ MergeTables \/ FinishRun \/ JoinWorkers
    /\ UNCHANGED <<given, workVars, mainPc>>

-----------------------------------------------------------------------------
(* mode_aggregate looks at the state when told and every second, so at any   *)
(* time.  An error is rethrown past threads that no one joins: the program is *)
(* aborted.                                                                   *)
Look ==
    /\ mainPc = "wait" /\ state \in {"errored", "finished"}
    /\ mainPc' = IF state = "errored" THEN "aborted" ELSE "join"
Report == mainPc = "join" /\ runPc = "returned" /\ mainPc' = "printed"
MainStep == (Look \/ Report) /\ UNCHANGED <<given, workVars, cancelled, started, told, runPc, merged, state>>
Ended == mainPc \in {"printed", "aborted"} /\ UNCHANGED vars

Next ==
    \/ mainPc # "aborted" /\ (RunStep \/ \E w \in Workers : WorkerStep(w))
    \/ MainStep \/ Ended
Spec == Init /\ [][Next]_vars

-----------------------------------------------------------------------------
Readable(i) == IF flist[i].opens THEN {<<i, n>> : n \in 1 .. flist[i].flows} ELSE {}

(* What is printed has each flow of the readable files exactly once, and none *)
(* of them was broken; the tables are merged when no worker uses its own, and *)
(* nothing is printed while a worker runs (threadedAggregator.cpp, mode.cpp).  *)
AggregationExact ==
    /\ mainPc = "printed" =>
          /\ IsInjective(merged)
          /\ ToSet(merged) = UNION {Readable(i) : i \in DOMAIN flist}
          /\ \A i \in DOMAIN flist : flist[i].opens => flist[i].sound
          /\ \A w \in Workers : wpc[w] = "gone"
    /\ runPc \in {"merge", "merged"} => AllIn({"finished"})
-----------------------------------------------------------------------------
(* The hash table of aggregated records: blocks of slots, each with a tag of *)
(* seven bits of the hash, probed from the block the hash names to the first *)
(* one with an empty slot; a full table is doubled.                          *)
CONSTANTS Key,          \* keys of records: [tag, home], what is left of the hash
          Slots,        \* slots of a block; 16
          FirstBlocks,  \* blocks at first; 4096
          NoTag         \* the tag of an empty slot

VARIABLES blocks,       \* a function of 0 .. n - 1 to sequences of slots, [tag, item]
          listed        \* the keys in the order they were created
tableVars == <<blocks, listed>>

EmptySlot == [tag |-> NoTag, item |-> NoTag]
Fresh(n) == [b \in 0 .. n - 1 |-> [s \in 1 .. Slots |-> EmptySlot]]

TableInit == blocks = Fresh(FirstBlocks) /\ listed = <<>>

-----------------------------------------------------------------------------
BlockCount(t) == Cardinality(DOMAIN t)
BlockAt(t, key, i) == (key.home + i) % BlockCount(t)
EmptyIn(block) == {s \in 1 .. Slots : block[s].tag = NoTag}
\* Keys of the same tag are taken for equal.
MUT_Matches(block, key) == {s \in 1 .. Slots : block[s].tag = key.tag}

Matches(block, key) == {s \in 1 .. Slots : block[s].tag = key.tag /\ block[s].item = key}

\* The probe ends at the first block that has the key or an empty slot.
Ends(t, key) == {i \in 0 .. BlockCount(t) - 1 : LET b == t[BlockAt(t, key, i)] IN Matches(b, key) # {} \/ EmptyIn(b) # {}}
Block(t, key) == BlockAt(t, key, Min(Ends(t, key)))

Put(t, key) ==
    [t EXCEPT ![Block(t, key)][Min(EmptyIn(t[Block(t, key)]))] = [tag |-> key.tag, item |-> key]]

\* The items are put to a table of twice the blocks, in their order.
Expand(t, items) == FoldLeft(LAMBDA u, key : Put(u, key), Fresh(2 * BlockCount(t)), items)
IsFull(t, items) == 100 * Len(items) >= 95 * Slots * BlockCount(t)

Found(t, key) == Matches(t[Block(t, key)], key) # {}

\* A key that is found, or was not created, changes nothing.
FindOrCreate(key) ==
    /\ ~Found(blocks, key)
    /\ listed' = Append(listed, key)
    /\ blocks' = IF IsFull(Put(blocks, key), listed') THEN Expand(blocks, listed')
                 ELSE Put(blocks, key)

TableDone == (\A key \in Key : Found(blocks, key)) /\ UNCHANGED tableVars
TableNext == (\E key \in Key : FindOrCreate(key)) \/ TableDone

-----------------------------------------------------------------------------
(* The table is a set of keys however they collide and however often it      *)
(* grows: a key that was created is found, no other is, no key has two       *)
(* records, and a probe ends (FastHashTable::lookup, expand).                *)
TableIsSet ==
    /\ IsInjective(listed)
    /\ \A key \in Key : Ends(blocks, key) # {} /\ (Found(blocks, key) <=> key \in ToSet(listed))
    /\ MapThenSumSet(LAMBDA b : Slots - Cardinality(EmptyIn(blocks[b])), DOMAIN blocks) = Len(listed)
=============================================================================
