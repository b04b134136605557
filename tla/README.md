# A formal model of IPFIXcol2

IPFIXcol2 is a collector of flow records: input plugins receive IPFIX or NetFlow
messages, a parser resolves their templates, intermediate plugins change records,
and output plugins store or send them.  Every instance of a plugin is a thread,
and instances hand each other *pointers*: nothing but the order of messages and a
reference counter says when a message, a template or a transport session may be
freed.  That discipline is the heart of this project; around it are the plugins
themselves, the configuration and start of the collector, and two tools of the
repository, `fdsdump` and `ipfixsend`.

Everything is checked with TLC on small instances; the ring, the feedback pipe, the
running pipeline, the sessions of the parser and the sessions of the inputs are proved
with TLAPS for instances of any size.

Paths below are relative to the repository (`src/core/...`).

## 1. Inventory

```
 source --> input --ring--> parser --ring--> inter 1 --ring--> ... --> output manager
              ^  ^            |                                          |   |
              |  +---fpipe----+ (close this session)                    ring ring
              +------fpipe------ configurator <--cpipe-- everybody       |   |
                       (periodic, terminate)                            out out
```

The core:

| Part | State | Operations | What makes it hard | Correct when |
|---|---|---|---|---|
| Ring (`ring.c`) | slots, private cursors of reader and writers, a pair of shared cursors, a spin lock | `ipx_ring_push`, `ipx_ring_pop`, `ipx_ring_mw_mode` | cursors are published once per block of messages and *stolen* by an idle reader; 32-bit wrap-around; several writers | it is a bounded FIFO queue; no slot is overwritten early; the reader and a single writer always get on |
| Feedback pipe (`fpipe.c`) | kernel pipe, counter under a spin lock | `ipx_fpipe_write`, `ipx_fpipe_read` | the message is visible before it is counted; two threads write | it is a FIFO queue whose read never blocks |
| Configuration pipe (`configurator/cpipe.c`) | kernel pipe | `ipx_cpipe_send_term`, `_send_done`, `ipx_cpipe_receive` | written from signal handlers and from all threads | no request is lost |
| Instances (`context.c`) | a thread, `en_processing`, the terminate counter, the expected periodic number | `thread_input`, `thread_intermediate`, `thread_output` | two looks at a flag another thread clears; termination; merging of several inputs | nothing used after it is freed, nothing lost, every thread ends |
| Output manager (`plugin_output_mgr.c`) | list of outputs with ODID filters | `ipx_plugin_output_mgr_process` | one message shared by several outputs | each message is destroyed once, by its last user |
| Configurator (`configurator/configurator.cpp`) | state, number of terminate messages under way, periodic number | start, `termination_handle`, `periodic_send_msg`, main loop | requests, notifications and timer race; allocation may fail | each request ends the collector |
| Parser (`parser.c`, `plugin_parser.c`) | a record per session and ODID: template manager, converter, sequence numbers, block flag | process, session remove, session block | sessions known by an address that is reused; requests to close travel by another way than messages | templates outlive every message parsed with them and never serve another session |
| NetFlow converters (`netflow2ipfix/`) | translated templates, sequence numbers, refresh of templates | `ipx_nf5_conv_process`, `ipx_nf9_conv_process` | a template manager beside it that sees only what passes the parser; counters modulo 2^32 | converter and template manager agree; numbers follow the records |
| Messages (`message_*.c`) | the message, reference counter, containers of garbage | create, add a set or a record, destroy | arrays that move when they grow | (part of the modules that pass them) |
| Extensions of records (`configurator/extensions.cpp`, `extension.c`) | producers, consumers, offset and mask of each extension | register, resolve, update, get, set filled | 64 bits of a mask; order of instances; handles into an array that moves | no overlap; produced before consumed |
| ODID filters (`odid_range.c`) | sorted intervals | parse, test | borders of 32 bits, early end of the search | membership is that of the expression |
| Start-up (`configurator/instance*.cpp`, `context.c`) | states of an instance | connect, init, start, destroy | failure when half the threads run | every started thread is joined, everything that was made is destroyed once |
| Plugin manager (`configurator/plugin_mgr.cpp`) | cache of files, loaded plugins with references | search, load, unload, list | files change between two looks | a plugin stays while an instance uses it |
| Configuration (`configurator/model.cpp`, `controller_file.cpp`, `config.c` of each plugin) | the model of instances, a configuration per plugin | parse, check, create | defaults, optional elements, checks that differ from the documents | what is accepted can be run; order of elements does not matter |

Inputs and outputs (`src/plugins`, `extra_plugins`):

| Part | State | Operations | What makes it hard | Correct when |
|---|---|---|---|---|
| Input UDP | sockets, sources with their sessions, timer | `process_socket`, `process_timer`, listener | sources without a connection; a sort and a cut by time-out; the clock is read twice | a session is closed once, and only when silent for too long |
| Input TCP | connections, acceptor thread, decoders | accept, receive, close | a list changed by two threads; messages cut anywhere, with or without LZ4 | pointers of the getter live; messages are framed exactly |
| Inputs IPFIX file, FDS file | list of files, buffered reader; sessions and messages rebuilt from records | getter, session close | truncated and corrupted files; sizes of messages | messages whole and in order |
| Output ClickHouse | blocks of rows, inserter threads, two queues | process, insert, stop | blocks wander between threads; a thread may die | no row is lost while an inserter lives |
| Output forwarder | hosts, connections, transfers, connector thread | forward, advance, reconnect | partial transfers; templates sent again after a reconnection; sockets handed over by another thread | each host can decode what it gets |
| Output IPFIX file, FDS, LNF | files by window, owners, template stores, snapshots by address | process, rotation | an address that comes back as another session | what is in a file is understood alone |
| Output JSON: print, file, server, send, syslog, Kafka | window thread, acceptor thread, connections, buffers | process, reconnect, poll | partial writes; buffers kept over a reconnection | texts arrive whole; what is lost is counted |
| Output UniRec | registry of fields shared by the instances, tables | initialise, translate | global state of a library | records have the fields of their template |
| Small plugins: dummy, filter, anonymization, dummy output, timecheck, viewer, overview | a message at a time | process | messages rebuilt record by record | records kept, fields replaced |

Tools:

| Part | State | Operations | What makes it hard | Correct when |
|---|---|---|---|---|
| `fdsdump` aggregation | channel of files, table per thread, merge | workers, main thread | channel closed while threads wait; threshold merge; tables that grow | each flow counted once, top list exact |
| `fdsdump` listing | sorted storage with a limit | list | an order by several fields and directions | the list is the first of the sorted records |
| `ipfixsend` | position, rewritten headers | send limited, real time, loops | headers read twice; serial numbers | the receiver sees one stream |

How the parts interact: along the pipeline only by pushing pointers into the next
ring; backwards only by the feedback pipe of an input (the parser asks to close a
session; the configurator sends periodic and terminate messages) and by the
configuration pipe (any instance, a signal handler or a destroyed terminate
message notifies the configurator).  The configurator also clears the flag
`en_processing` of an instance directly.  `PROJECT.json` lists all the components
and, under `hazards`, what can go wrong at which line.

## 2. Modules

One module per component.  `MC*` modules make instances for TLC and put components
side by side in one run: a behaviour is one of *one* of them, chosen in `Init`, and
the variables of the others stay as they are.  Operators named `MUT_...` are plausible
errors (a dropped guard, a forgotten update, a swapped order) of the definition that
follows; nothing uses them in the models, they show that each property can fail.

### 2.1 The core

| Module | Models | Uses |
|---|---|---|
| `RingQueue` | what a ring or a pipe promises: a bounded FIFO queue with calls that may block | |
| `Ring`, `Ring_proof` | `ring.c` | refines `RingQueue` |
| `FeedbackPipe` (with its proofs) | `fpipe.c` | refines `RingQueue` |
| `Pipeline`, `Pipeline_proof`, `PipelineEnd_proof` | threads of `context.c`, output manager, configurator, both pipes as queues | what `RingQueue` promises |
| `ParserSessions`, `ParserSessions_proof` | records of `parser.c`, decisions of `plugin_parser.c`, the input and the end of the pipeline around them | |
| `NetFlow`, `ParserStream` | the converters and what the parser does with one stream | |
| `Extensions`, `OdidFilter` | `configurator/extensions.cpp` with `extension.c`, `odid_range.c` | |
| `Startup`, `PluginMgr`, `CollectorConfig` | phases of the start and the end, plugins, the configuration and all `config.c` | |

**Ring.** State: the three structures of `ring.c` one by one: `data_idx`, `write_idx` or
`read_idx`, `exchange_idx` and `commit_idx` are `wData, wWrite, wExch, wCommit` and
`rData, rRead, rExch, rCommit` (with `last`), the shared pair is `sWrite, sRead`.
A critical section of the mutex is one action, every access outside of it an
action of its own; the timed waits of 10 ms may end at any moment.  The lines of
`ipx_ring_push` are `PushCall`, `PushLock`, the check and reload of the cursor,
the store, the commit and its publication; those of `ipx_ring_pop` are `PopCall`,
`PopSync`, `PopTake`, `PopWait`, `PopWake`, `PopNothing`, `PopSteal`.
Cursors wrap modulo `IdxMod` (2^32 in the code).  Not modelled: change of
`mw_mode` while running (the code does it only while it builds the pipeline), the
warning of `ipx_ring_destroy`.

**FeedbackPipe.** `fd` is the content of the kernel's pipe (at most `PipeCap` pointers),
`cnt` the counter; loading and storing the counter are separate actions so that the spin
lock has something to protect.  `write()` and `read()` fail only by `EINTR`, after
which the code tries again.

**Pipeline.** Each thread has a control state `pc`, a message `cur` and a list `out` of
pushes it still has to make, so a thread can block between two pushes of one message,
which is when the reference counter matters.  `InputPipe`, `InputGet` and `InputSkip` are
a turn of `thread_input`; `MoverPop`, `MoverPass` (the second look at `en_processing`),
`ParserProcess`, `InterProcess`, `ManagerProcess`, `MoverTerm` are `thread_intermediate`
with the three kinds of plugins it runs; `OutPop`, `OutRelease`, `OutDestroy` are
`thread_output`.  The configurator is `Receive` (one tick: append a periodic request,
take one request, handle it), `StopNext` (clear the flags one instance at a time) and
`Cleanup`.  `Wants` gives the result of the ODID filters.  `Failing` are the plugins that
may return an error or the end of their data; `AllocFails` lets `ipx_msg_periodic_create`
fail; `Asserts` chooses a build with or without `assert`.  With assertions it may fail at
any tick, and a second sending of terminate messages stops the collector (`abort`);
without them it may fail once, before any other request has sent them: the case that
`MergedDoneIsComplete` leaves out anyway, as the counter is wrong from then on.  The runs
have this second case only; the first is in the reach of the proofs.

**ParserSessions.** A session is the address of its structure: `<<a, g>>` is the g-th
session that was allocated at address `a`, and the code, like `OfSession` and `Poll`,
compares only `a`.  The records are an array sorted by session and ODID, found by binary
search, grown by doubling and sorted again, as in the code.  `Kind` says what happens to a
message: well formed, malformed, or one of three allocations fails (the record, something
while parsing, the request to close).  `ParseMessage` is `parser_plugin_process_ipfix`
with `ipx_parser_process`: record found or made, blocked, dropped (UDP), or the session is
blocked and the input asked to close it, or, without feedback or memory, forgotten at
once.  The input polls its feedback pipe before each call of its getter, as in
`thread_input`.  The rest of the pipeline is a FIFO whose end destroys messages and
garbage.

**NetFlow, ParserStream.** One stream: one session, ODID and stream.  Messages wander
through a network that loses, delays and (UDP) reorders them (`Arrive`, `Lose`, `Delay`,
`ArriveLate`), the exporter may start again (`Restart`), and `Process` is
`ipx_parser_process`: the type of the stream, the converter (allocated after the type is
set), the sequence number, the sets with the template manager, and the message converted.
After a failure the record of the stream is blocked (TCP), kept (UDP) or, when memory ran
out over UDP, removed with its converter and templates (`SessionRemove`).
`NetFlow` holds the converters as operators on their state: `Process` for version 9 with
its templates, `V5Process` with the template it sends again when it is due.  The template
manager is libfds: external.

**Extensions, OdidFilter.** `Create` is `ipx_ctx_ext_producer/consumer` with the array
that moves, `Names`, `Offset`, `Mask` and `Total` are `resolve`, `Process` lets the
instances get, use and fill what their handles say.  In `OdidFilter` the tokens of an
expression are read one after another (`Parse`), sorted by their
borders (`Sort`), and searched with the early end (`Selects`).

**Startup, PluginMgr, CollectorConfig.** `Startup` goes through the phases of
`configurator.cpp` (create, connect, init, permissions, start), each of which may throw;
then, and at the end, instances are destroyed in their order while threads of others may
run.  In between a terminate message goes down the chain: a thread calls the destructor of
its plugin and then passes the message on (`ThreadEnds`), except for the output manager,
which gives it to one output after another while it still processes it (`HandOver`) and
ends only afterwards, so an output may be done (`Release`, `ThreadEnds`) while the manager
is at the ring of the next; the last share released lets the configurator join
(`finish`).  `PluginMgr` searches files that change, loads what an instance needs and counts
references.  `CollectorConfig` reads a document (an ordered tree of elements): the tables
of arguments, the parser, the defaults and the checks of every plugin, then the file
itself, the model and its checks.

### 2.2 Inputs and outputs

| Module | Models |
|---|---|
| `SessionStream` | what every input promises: a session is announced, has messages, is closed and then freed; lemmas on such lives |
| `Inputs` | the four inputs below side by side, their invariants and proofs |
| `UdpInput` | listener, sources, timer of `udp.c` |
| `TcpInput`, `TcpDecoder` | connections, acceptor thread and getter; the decoders of `DecoderFactory`, `IpfixDecoder`, `Lz4Decoder`, `DecodeBuffer` |
| `IpfixStream` | how a stream is cut into messages, and what a reader learns of its templates |
| `FileInput`, `FdsInput` | `ipfix.c` with its buffered reader; `Reader.cpp` and `Builder.cpp` of FDS files |
| `ClickHouse` | blocks between the plugin and its inserters, both queues |
| `Forwarder`, `Connector` | sender, hosts, connections, transfers; tasks and requests of the connector's thread |
| `IpfixOutput`, `FdsOutput`, `LnfStore` | files by window with owners, contexts, templates; LNF file and Bloom filter index |
| `JsonOutput`, `SyslogOutput`, `KafkaOutput` | file, server, sender and storage; syslog connections; queue and reports of librdkafka |
| `UniRec` | registry, mappings, tables and translation of records |
| `RecordPlugins` | dummy input, filter, anonymization, dummy output and timecheck in one chain |

The inputs refine `SessionStream` by `told`, the life of each session as the pipeline
hears of it.  In `UdpInput` a source is an element of the array `active`; `Datagram` and
`Malformed` are `process_socket`, `Timer` is `process_timer` with its second look at the
clock, `Sorted` all orders that `qsort` may give to equal sources.  In `TcpInput` the
getter holds `batch`, the pointers of one `epoll_wait`, while `Accept` adds to the list.
`TcpDecoder`, `FileInput` and `FdsInput` are checked against what they read:
`Framed` says which messages a stream of bytes holds.  The outputs are checked against a
reader that knows only what it was sent (`Receive`, `Learn`): a host of the forwarder, the
reader of a file, a client.

### 2.3 Tools

`Aggregation` (workers, run thread and main thread of `fdsdump`, and the hash table of one
of them), `FlowFields` and `Grouping` (keys, values and views), `TopK` (threshold merge),
`FlowLister` (files, filter, sorted storage) and `Replay` (`ipfixsend`: reader, groups,
loops, partial sends).  Each is compared with a reference: the sum of the flows of a key,
the first records in the order, the messages of the file one after the other.

## 3. Runs

| Run | Question | Bounds |
|---|---|---|
| `ring_one` | With one writer: queue, exclusive stores, committed reads, both calls end | 16 slots (blocks of 2, the smallest with a block larger than 1), cursors modulo 32: all cursors wrap |
| `queues` | The feedback pipe: FIFO queue, a reader that never blocks, writers that get on; the ring with two writers: the same safety, and the reader never starves | two writers (parser, configurator), a pipe of two pointers so that it fills; a ring of 3 slots, cursors modulo 6 |
| `pipeline_chain` | Reference counts, custody, garbage and a slow termination | one input, an intermediate and two outputs that take different messages; plugins in the middle and at the end may end the collector; one IPFIX message, rings of 1: every push can block |
| `pipeline_merge` | Is the last terminate message really last, and is TERM_DONE counted right? | two inputs in one ring, a signal; with memory, and in a release build without |
| `pipeline_live` | Does every request of an input end the collector? | one message, one period, one signal |
| `parser_sessions` | Sessions, records, templates and garbage of a parser | one address used twice, two ODIDs, three messages; TCP, UDP and files: a record left behind, a late request and a second ODID all occur |
| `inputs` | Do the inputs keep their contract, pass what they read, and does the parser follow the stream? | three sessions, two sources, a time-out of one second; streams of three messages; NetFlow 9, NetFlow 5 and IPFIX |
| `outputs` | Has everything one owner, can receivers decode, is nothing forgotten? | two blocks and inserters; two hosts (and one host with two ODIDs); three or four records; two windows |
| `core` | Extensions, filters, start and end, configuration; `fdsdump` and `ipfixsend` | a filter of three tokens; two inputs, two intermediates and, in `Startup`, two outputs; each plugin's document with one element changed; two worker threads; three loops |
| `parser_block` | (violated) does a blocked session stay blocked? | three messages |
| `parser_reuse` | (violated) does a request close the session it was written for? | one address used twice |
| `ext_filled` | (violated) does a record have only what was filled? | two extensions of one instance |

What each property says is written above it in its module.  Those that matter most:

* `ImplementsQueue` (ring and feedback pipe): refinement of `RingQueue`, with the
  fetch-and-add of the commit as the moment of a push.
* `NoUseAfterFree`, `CountIsUsers`: the reference counter of the output manager is the
  number of outputs that still have to release, whatever they do while the manager is
  blocked between two pushes, and nothing is left at the end.
* `GarbageIsLast`: garbage (session, templates, parser) is destroyed only when
  nothing in the whole pipeline can refer to it.
* `NothingAfterTerm`, `MergedDoneIsComplete`, `SlowKeepsData`, `Terminates`: termination
  is ordered, complete, keeps what it promises to keep, and happens.
* `RefersToLiving`, `NoStaleRecord`, `ContextsAccounted`, `TemplatesOutliveClose`: a parsed
  message refers to a session and a template manager that are alive when it is processed;
  the record of a session never survives to the next session at its address; no template
  manager is lost or destroyed twice.
* `InputsKeepContract`, `SessionsAreOwned`, `DataIsIntact`, `StreamInStep`,
  `NumbersFollow`: the inputs and the stream behind them.
* `OutputsOwn`, `ReceiversDecode`, `NothingForgotten`: conjunctions of what the outputs
  must keep; each part is stated in the module of its output.
* `ExtensionsWhole`, `FiltersExact`, `OrderlyEnd`, `ConfigurationHolds` (what is accepted
  starts whole, is usable, does not depend on the order of elements and has the documented
  defaults), `AggregationExact`, `OutputExact`.

`OrderlyEnd` is the start and end as a whole.  Its part `EndsInOrder` says that a thread has
ended only when all that write to it have handed over their last message, each behind its
destructor except the output manager, and that the configurator joins only threads that
have been given all they need to end.

Where the code has a known limit that breaks a property outside its assumptions, the
property names it as an exception of its own; section 6 lists them.  Those that cut
something off a hazard are these, and the hazard's note in `PROJECT.json` repeats it:

| Property | Leaves out | By |
|---|---|---|
| `DataIsIntact` | a block of LZ4 that ends right behind the header of a message | `blind` |
| `StreamInStep` | what follows a NetFlow 9 message dropped after it defined a template | `rejected` |
| `ReceiversDecode` | an ODID whose context is gone and was refused to sessions that go on | `forgotten` |
| `ReceiversDecode` | an address freed and used again while a file's contexts rely on it | `reused` |
| `OrderlyEnd` | the join that never returns when a thread cannot be started | `Stuck` |
| `NothingForgotten` | the plugin that waits when all inserters have died | `Abandoned` |
| `OutputExact` | orders that compare seconds with nanoseconds | `SecondsDiffer` |
| `ExtensionsWhole` | handles into a moved array: `OnlyWhatWasFilled` is the property for them | |

Why small bounds are enough: identities of messages are not compared by the
code, so one message per kind and place exposes each order; capacity 1 of a ring gives
every blocking a larger ring can give; the proofs cover the queues, the pipeline, the
sessions of the parser and those of the inputs for all sizes.  The number of outputs (2)
is what the counter needs to be shared, the number of inputs (2) what the merging of
terminate messages needs.  Two sources and three sessions let one source be sorted before
another, time out, and come back.  Numbers wrap at small powers of two, so that every
counter wraps.  No run of the list says `CHECK_DEADLOCK FALSE`: where a part really stops,
the model has an action of its own for the end (`UdpDone`, `Ended`, ...).

## 4. Fairness

* `Ring`: the reader and each writer that are inside the code go on (weak fairness).
  Writers are never forced to call push.  `PushEnds` is stated with one writer: the
  spin lock of the multiple writer mode is not fair and nothing in the code makes it.
* `FeedbackPipe`: the input polls for ever, which `thread_input` does; a writer that has
  begun goes on.  Getting the spin lock and a place in the pipe are strongly fair:
  the reader holds the lock for a few instructions every turn and between two polls it
  calls the getter.
* `Pipeline`: every thread goes on if it can (weak fairness per thread), as the
  scheduler of the system gives; signals, data and failures are never forced.
* `ParserSessions`: the input, the parser and the end of the pipeline go on, and the
  poll of the feedback pipe is fair because it comes at every turn of the loop.

The other modules state safety only.

## 5. Proofs

All theorems hold for every value of the constants that meets the named assumptions of
the module.  Every invariant was checked by TLC on the runs' instances before it was
proved.  `PROJECT.json` lists the theorems under `theorems`.

**Ring** (any number of writers, any size, any cursor width; assumptions: `Size > 0`,
`Size < IdxMod`, one writer unless `MwMode`).  `TypeOK`, `StoreIsExclusive` and
`ReadsOnlyCommitted` are not inductive: they say nothing of the copies of
cursors the two sides hold.  `IInv` adds `Order` — measured from the last published
cursor of the reader, the cursors lie in the order
`rRead <= rExch <= sRead <= wWrite <= wExch <= Size`, which is why a stale copy is
always on the safe side, also after the wrap — `SlotOrder` (slot indices follow the
cursors), `LockOK` (the lock is held exactly inside the call), `WriterOK`, `ReaderOK`
and `Filled` (slots between the heads hold messages).  Lemmas on the modular
arithmetic (`SubDiff`, `SubSucc`, `AddShift`, `SlotApart`, ...) turn cursors into
distances; then one lemma per action.  `RingIsQueue` maps the slots between the heads
to the queue and shows each action to be a step of `RingQueue` or a stutter.

**FeedbackPipe** (any set of writers, any capacity).  `ReadNeverBlocks` needs the
global count `CountInv`: the pipe holds what is counted, plus one message per writer
between its write and its count, plus the one the reader has counted off
and not read.  With `LockInv` (whoever has loaded the counter holds the lock and the
counter has not changed) it is inductive.  `CountIsExact` is a corollary, `PipeIsQueue`
the refinement.

**Pipeline** (any number of inputs, intermediates and outputs, any filters, any size of
the rings, any instances that ask for the end), in two modules.

* `Pipeline_proof`: `TypeCorrect`, then *custody*: every live message is in exactly one
  place — a feedback pipe, a ring, the hands of a thread, a push that is still to be made —
  where the outputs are lanes of their own, because they share messages.  Beside it:
  the reference counter of a message is the number of outputs that have not released it;
  a message that is nowhere is free; numbers of messages are fresh; messages come from
  where they can come from.  `UseIsSafe` (`NoUseAfterFree`) follows.
* `PipelineEnd_proof`: `TermInv` splits the merged stream in lanes, one per writer: in each
  lane nothing follows its terminate message, and the terminate counter of an instance is
  the number of its lanes that are unfinished (`TerminateIsLast`).  `EndInv` says where the
  threads are once the configurator joins them, and `NothingLeaks` (`CountIsUsers`)
  follows with custody.  `TellInv`: terminate messages plus notifications under way are
  what the configurator has sent, provided that periodic messages can be allocated
  (assumption `~AllocFails`; without it the statement is false, see `pipeline_merge`), hence
  `MergedDoneIsTold`.  `OrderInv`: nothing overtakes — in a ring, among the pushes of a
  message, from level to level, in the lane of another output — hence `GarbageComesLast`
  (`GarbageIsLast`).  `DataInv` is `StopInv` (whoever is disabled, or is about to be, has
  an instance behind it that asked, unless a fast termination has begun), `SeenInv`
  (what is processed was made and has been left behind by all in front) and `DeliverInv`
  (data that an output wants is on its way, has arrived, or was missed in front of an
  asker), hence `SlowLosesNothing` (`SlowKeepsData`).

**ParserSessions** (any number of addresses, sessions, ODIDs and messages, any size of the
first array).  `Table`: the array is sorted and has one record per session and ODID, so the
binary search is exact, and sorting an array that has grown keeps the records.  `InStep`
says what the input, the messages and the records know of a session at the same time;
`Traffic` orders what is in the pipeline; `Owned`: every template manager belongs to a
record, a garbage message or nobody; `Numbered`: generations of an address.
`ParsedIsSafe`, `RecordsAreFresh`, `EachHasAPlace` and `CloseComesFirst` are
`RefersToLiving`, `NoStaleRecord`, `ContextsAccounted` and `TemplatesOutliveClose`.

**Inputs** (any number of sessions, sources, local addresses, connections, files and
records; any batch, time-out and sizes).  Assumptions: `Sessions` is `1 .. n`, because a session is
numbered when it is made; `Timeout` and `Batch` are positive, as `config.c` and
`ClientManager` have them; there is an address to listen on, whose name is not that of
another descriptor.  `SessionStream` promises only prefixes of orderly
lives, so its lemmas describe lives by their shape: `Living` is what a session that
goes on was told, `Over` what one that has ended, and one word more leads from one to the other
(`TellFirst`, `TellData`, `TellEnd`).  `Inputs` puts the four inputs side by side and has an
inductive invariant for each.  All of them say *where a session is*: made and held by one
place and then `Living`, or made, held by none and `Over`, or not made and told nothing
(`UdpPlaced`, `TcpPlaced`, `FilePlaced`, `FdsPlaced`); the properties alone are not inductive, as
they do not say which words a session can still be told.  Beside it:

* `UdpInv`: `Timely` bounds the times of every source (none was silent too long when the
  timer last looked, and one with messages since has a counter), so what the timer cuts off
  the sorted array is exactly what is silent (`TimeoutIsExact`), for every order
  `qsort` may give; `Listening` says what is open at each step of the initialisation.
* `TcpInv`: `Held`, the batch of the getter and the connection it is about to close are
  in the list, each once; closing swaps the last connection into the hole and disturbs
  no other (`WithoutFacts`), while the acceptor only appends (`PointersLive`).
* `FileInv`: only the session of the open file lives.
* `FdsInv`: the sessions in the map live, an entry without one is left behind only by an
  exception, and a message that is filled has a first record whose session is in the map.

`MCInputs` composes them (`InputsStayWhole`) and concludes `SessionsStayOwned`
(`SessionsAreOwned`) and, as each step of an input is a step of `SessionStream` or a
stutter, `ContractIsKept` (`InputsKeepContract`).  What the sessions carry
(`DataIsIntact`) stays with TLC.

What stays with TLC:

* liveness (`ReaderNotStuck`, `PushEnds`, `WriteEnds`, `TwoWriters`, `Terminates`,
  `BadSessionCloses`), as it needs `ENABLED` and fairness;
* what recursive definitions and folds compute: the decoders, converters, the
  configuration, sorting and merging in the tools, the templates of the outputs
  (`DataIsIntact`, `StreamInStep`, `NumbersFollow`, `ReceiversDecode`, `FiltersExact`,
  `AggregationExact`, `OutputExact`, `ConfigurationHolds`): induction over data is beyond
  this prover;
* the outputs' and the core's conjunctions (`OutputsOwn`, `NothingForgotten`,
  `ExtensionsWhole`, `OrderlyEnd`), whose parts rest on such data.

## 6. Findings

Runs that show a disagreement between the code and its own words:

* `parser_block`: blocking a session marks the records it has; a message with an ODID
  not seen before gets a fresh record, is parsed and passed.
* `parser_reuse`: a request to close holds an address.  When the input itself closes
  the session and accepts another one at the same address before it looks into the
  feedback pipe, the wrong session is closed.
* `ext_filled`: an instance with several extensions keeps handles into an array that
  has moved (`context.c:460`), and records added to a grown message have masks that were
  never cleared (`message_ipfix.c:172-194`): an extension that nobody filled is there.

Seen while modelling, without a run of their own:

*Core.*
* The termination may be sent twice: `periodic_send_msg` (`configurator.cpp:580`) calls
  `termination_send_msg` from inside when memory is short, against its comment (:551) and
  assertion (:556); with assertions the collector aborts, a release build may never end
  (part of `pipeline_merge`).
* An exception while threads are started destroys contexts of threads that wait for ever
  (`instance_input.cpp:138` has a FIXME; `Stuck`, a step where the model waits like the code,
  so `OrderlyEnd` does not see it).
  Intermediates are started from front to back, so for a moment a ring has no reader.
* TERM_DONE is sent before the destructors of the outputs have run, while `cpipe.h` wants
  it after the termination of all instances.
* An instance disabled between its two looks at `en_processing` passes an IPFIX message on
  unprocessed; while a parser or intermediate is disabled it drops a session's close
  message and passes its garbage.
* Without feedback the templates of a session become garbage although no close message has
  been sent.
* The warning of `ipx_ring_destroy` adds what it should subtract.
* The mask `1ULL << i` of the output manager covers 64 outputs (`plugin_output_mgr.c:205`).
* Plugin manager: `plugin_list` compares `cache_entry.name` with itself
  (`plugin_mgr.cpp:333`); `version_check` may throw `std::invalid_argument`, which nobody
  catches there; unused plugins are never unloaded.
* A plugin named `"ns:"` passes `check_common` and fails only when it is created.
* NetFlow 5 over UDP with a template life time below 3: refresh 0 means never.  When the
  32-bit uptime wraps, timestamps are wrong by 2^32 ms.  A NetFlow 9 message dropped after
  it defined a template leaves the converter ahead of the template manager
  (`netflow9.c` with `plugin_parser.c:276`).

*Inputs.*
* TCP: `Connection.cpp:45` reads the local address with `getpeername`; a connection whose
  first bytes (below 2 or 4) arrive alone is refused by `DecoderFactory`; messages
  decoded before an exception in the same call are lost; a block that ends right behind the
  header of a message is framed wrongly (`DecodeBuffer.cpp:88`).
* IPFIX file: `memcpy` of overlapping regions (`ipfix.c:395`).  FDS file: an exception of
  the destructor of `Reader` ends the program.
* Dummy: without memory for a session message it passes NULL.

*Outputs.*
* Forwarder: a `ConnectionError` in the periodic message (`Host.cpp:146`) makes the plugin
  return DENIED and ends the collector, against `reconnectSecs` of its README; sequence
  numbers are not increased then; a snapshot is recognised by an address that may have been
  used again.  The connector keeps one connection more than asked
  (`count > m_nb_premade_connections`), polls tasks that have not begun with descriptor 0,
  and does not tell the plugin when its thread dies.
* ClickHouse: in blocking mode the plugin waits for ever if all inserters have died
  (`plugin.cpp:196`, exception `Abandoned`); zero inserters or blocks are accepted.
* IPFIX file: templates may be written late (`IPFIXOutput.cpp:502-504` and its comment in
  the header; `TemplatesBeforeData` states what holds).
* FDS: with `outputSelection` a record of an Options Template cannot be written and closes
  the window (`Storage.cpp:362`); sessions of files are refused (throw); a file that failed loses
  its `.tmp` suffix all the same; `new_t_size == 0` is never true.
* LNF: the suffix mask of names makes aligned windows collide after a restart; if
  `stg_basic_create` fails, the configuration is freed and used; a record exactly at the
  next aligned boundary goes to the old file; a forward direction with nothing converted
  skips the reverse one; a failed window is not tried again; a clock set back keeps it.
* JSON: the sender keeps the rest of a record over a reconnection (`Sender.cpp:255-257`,
  `JsonStaysValid`); windows below a minute share a file name; two instances race in
  `dir_create`; a window that is late catches up one window at a time.  JSON Kafka:
  `convert_tset` empties the buffer behind a template instead of before it (:288-290), so
  the first template of a message is given behind the last data record again (exception of
  `TextsExact`).  Syslog: a record that fails while it is sent is counted neither as sent
  nor as dropped; the comment says one reconnection per second, the constant five.  Kafka:
  errors of the last second are never printed.
* UniRec: `map_sort_fn` (`map.c:486-491`) makes "A" and "A/B" compare equal, so a duplicate
  may go undetected (exception of `MappedOnce`); `_internal_dbf_` beside a mapping of
  `ingressInterface` gives two entries of a key (`Ambiguous`); a list that occurs twice is
  concatenated; `array_mac` of a wrong size leaves the array half filled; an empty
  basicList uses a field info that was never set; a failed initialisation leaves its fields.
* Filter: an error passes nothing and frees nothing; copied records lose their extensions
  (`ext_mask` unset), padding and unknown data sets are dropped; a refused expression
  destroys a context without configuration (`filter.c:116-118`).  Anonymization: a refused
  configuration is freed and returned (`config.c:209-213`); `anonymize_v6`
  (`panonymizer.c:211,221`) does not keep prefixes inside a byte; the keys of two instances
  are one static.  Viewer: `config.c:118-122` goes on after it has freed its configuration.

*Configuration and documents.* JSON `timeWindow` has neither the minimum 60 nor the default
300 of its README; UDP's README gives defaults for elements the schema requires; TCP's
lists optional ones as mandatory; overview's example has `skipOptionTemplates`, the code
knows `skipOptionsTemplates`; the forwarder stores 64-bit numbers in `unsigned int`; port 0
and empty paths are accepted by several plugins; of two Kafka properties with one key the
first is kept.

*fdsdump.* A worker's error makes `run` return with joinable threads and `main` rethrow
past an unjoined one: `std::terminate`; the state is a plain variable read by two threads.
The threshold merge has an empty threshold when all tables end with a full queue
(`thresholdAlgorithm.cpp:225-235`), and is unsound for sums over both directions, some
orders of two fields and signed sums.  Seconds are compared with nanoseconds
(`storageSorter.cpp:255,291`; exception `SecondsDiffer`); an unordered list may exceed its
limit by one; zero threads hang; `channel.get` with a time-out throws even with an item.
Views: a prefix length is cut to eight bits (280 is 24), a window in milliseconds overflows,
a subnet key without a direction is dereferenced as null with values of both directions, a
field with a "/" cannot be ordered by, any name that begins with "in" or "out" loses it.

*ipfixsend.* A message above 65000 bytes is split into two datagrams; an empty file is an
error in real time and spins with endless loops; several ODIDs may overlap in sequence
numbers; a cut header leaves the group before it unsent; the exit code is 0 after an error.

## 7. Not modelled

Of the repository: containers of messages (`message_*.c`, part of the modules that pass
them), constructors of transport sessions, program entry, logging and utilities, the
outputs viewer and overview, `fdsdump` statistics, options and printers, `pcap2flow`, the
plugins of the tests.  Partly modelled: TCP input (binding of addresses), JSON outputs
(formatting), `fdsdump` (output formats).  Outside of it: libfds (templates, filters,
files, XML), LZ4, librdkafka, libnf and libbfindex, TRAP and UniRec, the kernel's sockets and
pipes beyond order, capacity and failure.  The ciphers of the anonymization are any
function from blocks to bits.

The configuration pipe of `Pipeline` has no limit; its non-blocking writes, whose loss the
code ignores, are left out.  A failed allocation of a garbage message in `ParserSessions` is
lost garbage, the deliberate leak of the code.
