-------------------------------- MODULE Ring --------------------------------
(* The ring buffer between two instances of the pipeline, ring.c.            *)
(*                                                                           *)
(* One reader and one or more writers.  The reader and the writers keep      *)
(* private cursors and exchange them rarely, through a structure that a      *)
(* mutex protects: a cursor is published only once per block of DivBlock     *)
(* messages.  A critical section of that mutex is one action.  The 10 ms     *)
(* timed waits are states a thread may leave at any moment (signal, timeout  *)
(* or spurious wake-up make no difference to the code).  Cursors wrap modulo *)
(* IdxMod (2^32 in the code).                                                *)
EXTENDS Naturals, Sequences, FiniteSets

CONSTANTS
    Producers,   \* writer threads
    NSeq,        \* a writer numbers its messages modulo NSeq
    NoMsg,       \* "no pointer"
    NoOne,       \* "the spin lock is free"
    Size,        \* number of slots
    IdxMod,      \* range of the cursors
    MwMode       \* multiple writers mode

ASSUME SizeAssumption == Size \in Nat /\ Size > 0
ASSUME IdxAssumption == IdxMod \in Nat /\ Size < IdxMod
ASSUME SeqAssumption == NSeq \in Nat /\ NSeq > 0
ASSUME ModeAssumption ==
    /\ MwMode \in BOOLEAN
    /\ ~MwMode => \A p, q \in Producers : p = q
    /\ NoOne \notin Producers
ASSUME NoMsgAssumption == NoMsg \notin Producers \X (0 .. NSeq - 1)

\* Publish own cursor after this many messages.
DivBlock == Size \div 8

Message == Producers \X (0 .. NSeq - 1)
Idx == 0 .. IdxMod - 1
Slots == 0 .. Size - 1

\* Unsigned arithmetic on cursors, and the wrap of a slot index.
IdxAdd(a, b) == IF a + b < IdxMod THEN a + b ELSE a + b - IdxMod
IdxSub(a, b) == IF a >= b THEN a - b ELSE a + IdxMod - b
MUT_SlotAdd(a, b) == IF a + b <= Size THEN a + b ELSE a + b - Size
SlotAdd(a, b) == IF a + b < Size THEN a + b ELSE a + b - Size

VARIABLES
    data,          \* the slots
    wData, wWrite, wExch, wCommit,          \* struct ring_writer
    rData, rRead, rExch, rCommit, last,     \* struct ring_reader
    sWrite, sRead, \* struct ring_sync
    lock,          \* writer_lock: its owner
    wpc,           \* where each writer is in ipx_ring_push
    msg,           \* the argument of that call
    seq,           \* number of the next message of a writer
    rpc,           \* where the reader is in ipx_ring_pop
    got            \* result of the reader's last call

wvars == <<wData, wWrite, wExch, wCommit>>
rvars == <<rData, rRead, rExch, rCommit, last>>
svars == <<sWrite, sRead>>
calls == <<lock, wpc, msg, seq>>
vars == <<data, wvars, rvars, svars, calls, rpc, got>>

Init ==
    /\ data = [i \in Slots |-> NoMsg]
    /\ wData = 0 /\ wWrite = 0 /\ wExch = Size /\ wCommit = 0
    /\ rData = 0 /\ rRead = 0 /\ rExch = 0 /\ rCommit = 0 /\ last = 0
    /\ sWrite = Size /\ sRead = 0
    /\ lock = NoOne
    /\ wpc = [p \in Producers |-> "idle"]
    /\ msg = [p \in Producers |-> NoMsg]
    /\ seq = [p \in Producers |-> 0]
    /\ rpc = "out"
    /\ got = NoMsg

-----------------------------------------------------------------------------
(* Writers: ipx_ring_push = spin lock, ipx_ring_begin, the store,            *)
(* ipx_ring_commit, unlock.                                                  *)

Goto(p, here, there) == wpc[p] = here /\ wpc' = [wpc EXCEPT ![p] = there]

PushCall(p) ==
    /\ Goto(p, "idle", "enter")
    /\ msg' = [msg EXCEPT ![p] = <<p, seq[p]>>]
    /\ seq' = [seq EXCEPT ![p] = IF @ + 1 = NSeq THEN 0 ELSE @ + 1]
    /\ UNCHANGED <<data, wvars, rvars, svars, lock, rpc, got>>

MUT_PushLock(p) ==
    /\ Goto(p, "enter", "begin")
    /\ lock' = p
    /\ UNCHANGED <<data, wvars, rvars, svars, msg, seq, rpc, got>>

PushLock(p) ==
    /\ Goto(p, "enter", "begin")
    /\ IF MwMode THEN lock = NoOne /\ lock' = p ELSE UNCHANGED lock
    /\ UNCHANGED <<data, wvars, rvars, svars, msg, seq, rpc, got>>

BeginHasSpace(p) ==
    /\ IdxSub(wExch, wWrite) > 0
    /\ Goto(p, "begin", "store")
    /\ UNCHANGED <<data, wvars, rvars, svars, lock, msg, seq, rpc, got>>

MUT_AfterReload(p) == "store"

\* Where the writer goes once it has reloaded the reader's published cursor.
AfterReload(p) == IF IdxSub(sWrite, wWrite) = 0 THEN "full" ELSE "store"

BeginSync(p) ==
    /\ IdxSub(wExch, wWrite) = 0
    /\ Goto(p, "begin", AfterReload(p))
    /\ wExch' = sWrite
    /\ UNCHANGED <<data, wData, wWrite, wCommit, rvars, svars, lock, msg, seq, rpc, got>>

\* The timed wait on cond_writer ends and the predicate is evaluated again.
FullWake(p) ==
    /\ Goto(p, "full", AfterReload(p))
    /\ wExch' = sWrite
    /\ UNCHANGED <<data, wData, wWrite, wCommit, rvars, svars, lock, msg, seq, rpc, got>>

Store(p) ==
    /\ Goto(p, "store", "commit")
    /\ data' = [data EXCEPT ![wData] = msg[p]]
    /\ UNCHANGED <<wvars, rvars, svars, lock, msg, seq, rpc, got>>

\* The fetch-and-add on write_idx: from here on the reader may steal the message.
Commit(p) ==
    LET new == IdxAdd(wWrite, 1) IN
    /\ Goto(p, "commit", IF IdxSub(new, wCommit) >= DivBlock THEN "sync" ELSE "unlock")
    /\ wData' = SlotAdd(wData, 1)
    /\ wWrite' = new
    /\ msg' = [msg EXCEPT ![p] = NoMsg]
    /\ UNCHANGED <<data, wExch, wCommit, rvars, svars, lock, seq, rpc, got>>

CommitSync(p) ==
    /\ Goto(p, "sync", "unlock")
    /\ sRead' = wWrite
    /\ wExch' = sWrite
    /\ wCommit' = wWrite
    /\ UNCHANGED <<data, wData, wWrite, rvars, sWrite, lock, msg, seq, rpc, got>>

PushUnlock(p) ==
    /\ Goto(p, "unlock", "idle")
    /\ lock' = NoOne
    /\ UNCHANGED <<data, wvars, rvars, svars, msg, seq, rpc, got>>

Writer(p) ==
    \/ PushCall(p) \/ PushLock(p)
    \/ BeginHasSpace(p) \/ BeginSync(p) \/ FullWake(p)
    \/ Store(p) \/ Commit(p) \/ CommitSync(p) \/ PushUnlock(p)

-----------------------------------------------------------------------------
(* The reader: ipx_ring_pop.                                                 *)

RGoto(here, there) == rpc \in here /\ rpc' = there

\* The slots whose message the reader knows of but has not returned.
MUT_Avail == IF rExch > rRead THEN rExch - rRead ELSE 0
Avail == IdxSub(rExch, rRead)

\* The previous message is confirmed by the next call.
PopCall ==
    /\ rData' = SlotAdd(rData, last)
    /\ rRead' = IdxAdd(rRead, last)
    /\ last' = 0
    /\ RGoto({"out"}, IF IdxSub(rRead', rCommit) >= DivBlock THEN "sync" ELSE "check")
    /\ got' = NoMsg
    /\ UNCHANGED <<data, wvars, rExch, rCommit, svars, calls>>

MUT_PopSyncExchange ==
    /\ RGoto({"sync"}, "check")
    /\ sWrite' = IdxAdd(sWrite, IdxSub(rExch, rCommit))
    /\ rExch' = sRead
    /\ rCommit' = rRead
    /\ UNCHANGED <<data, wvars, rData, rRead, last, sRead, calls, got>>

MUT_PopSyncNoPublish ==
    /\ RGoto({"sync"}, "check")
    /\ rExch' = sRead
    /\ rCommit' = rRead
    /\ UNCHANGED <<data, wvars, rData, rRead, last, svars, calls, got>>

PopSync ==
    /\ RGoto({"sync"}, "check")
    /\ sWrite' = IdxAdd(sWrite, IdxSub(rRead, rCommit))
    /\ rExch' = sRead
    /\ rCommit' = rRead
    /\ UNCHANGED <<data, wvars, rData, rRead, last, sRead, calls, got>>

MUT_PopTake ==
    /\ RGoto({"check", "woken", "stolen"}, "out")
    /\ last' = 1
    /\ got' = data[rData]
    /\ UNCHANGED <<data, wvars, rData, rRead, rExch, rCommit, svars, calls>>

PopTake ==
    /\ RGoto({"check", "woken", "stolen"}, "out")
    /\ Avail > 0
    /\ last' = 1
    /\ got' = data[rData]
    /\ UNCHANGED <<data, wvars, rData, rRead, rExch, rCommit, svars, calls>>

PopWait ==
    /\ RGoto({"check", "stolen"}, "wait")
    /\ Avail = 0
    /\ UNCHANGED <<data, wvars, rvars, svars, calls, got>>

\* The timed wait on cond_reader ends; the writers' published cursor is loaded.
PopWake ==
    /\ RGoto({"wait"}, "woken")
    /\ rExch' = sRead
    /\ UNCHANGED <<data, wvars, rData, rRead, rCommit, last, svars, calls, got>>

PopNothing ==
    /\ RGoto({"woken"}, "steal")
    /\ Avail = 0
    /\ UNCHANGED <<data, wvars, rvars, svars, calls, got>>

MUT_PopSteal ==
    /\ RGoto({"steal"}, "stolen")
    /\ UNCHANGED <<data, wvars, rvars, svars, calls, got>>

\* The reader takes what the writers committed but have not published yet.
PopSteal ==
    /\ RGoto({"steal"}, "stolen")
    /\ sRead' = wWrite
    /\ rExch' = wWrite
    /\ UNCHANGED <<data, wvars, rData, rRead, rCommit, last, sWrite, calls, got>>

ReaderStep ==
    \/ PopCall \/ PopSync \/ PopTake \/ PopWait
    \/ PopWake \/ PopNothing \/ PopSteal

Next == ReaderStep \/ \E p \in Producers : Writer(p)

Spec == Init /\ [][Next]_vars

(* A thread inside a call keeps running, the timed waits end after 10 ms,    *)
(* and the thread that owns the reading end calls pop in a loop.  Nobody has *)
(* to push, and the spin lock is not fair among its waiters.                 *)
WriterStep(p) == Writer(p) /\ wpc[p] # "idle"
FairSpec ==
    /\ Spec
    /\ WF_vars(ReaderStep)
    /\ \A p \in Producers : WF_vars(WriterStep(p))

-----------------------------------------------------------------------------
(* Properties.                                                               *)

WriterPcs == {"idle", "enter", "begin", "full", "store", "commit", "sync", "unlock"}
ReaderPcs == {"out", "sync", "check", "wait", "woken", "steal", "stolen"}

TypeOK ==
    /\ data \in [Slots -> Message \cup {NoMsg}]
    /\ wData \in Slots /\ wWrite \in Idx /\ wExch \in Idx /\ wCommit \in Idx
    /\ rData \in Slots /\ rRead \in Idx /\ rExch \in Idx /\ rCommit \in Idx
    /\ last \in {0, 1}
    /\ sWrite \in Idx /\ sRead \in Idx
    /\ lock \in Producers \cup {NoOne}
    /\ wpc \in [Producers -> WriterPcs]
    /\ msg \in [Producers -> Message \cup {NoMsg}]
    /\ seq \in [Producers -> 0 .. NSeq - 1]
    /\ rpc \in ReaderPcs
    /\ got \in Message \cup {NoMsg}

Inside(p) == wpc[p] \notin {"idle", "enter"}

\* Committed messages the reader has not confirmed, and those it has not got.
Unconfirmed == IdxSub(wWrite, rRead)
Unread == IdxSub(wWrite, IdxAdd(rRead, last))

(* The store of ipx_ring_push never hits a slot whose message has not been   *)
(* returned and confirmed, although both sides work with stale copies of the *)
(* other side's cursor; and two writers are never between begin and commit.  *)
StoreIsExclusive ==
    \A p \in Producers : wpc[p] = "store" =>
        /\ \A k \in 0 .. Size - 1 : k < Unconfirmed => SlotAdd(rData, k) # wData
        /\ \A q \in Producers : Inside(q) => q = p

(* Every slot between the reader's head and write_idx holds a message some   *)
(* producer has stored, and what pop is about to return is one of those.     *)
ReadsOnlyCommitted ==
    /\ rpc # "out" => Avail <= Unconfirmed
    /\ \A k \in 0 .. Size - 1 : k < Unconfirmed => data[SlotAdd(rData, k)] # NoMsg

\* The messages pushed and not yet returned, oldest first.
Waiting == [i \in 1 .. Unread |-> data[SlotAdd(rData, last + i - 1)]]

(* The ring buffer implements the bounded FIFO queue: a push takes effect at *)
(* its fetch-and-add, a pop when it returns.                                 *)
Q == INSTANCE RingQueue WITH
        Msg <- Message,
        queue <- Waiting,
        pending <- msg,
        held <- got
ImplementsQueue == Q!QSpec

(* A message that has been committed is returned although its writer may     *)
(* never push again, i.e. never publish its last block: the reader steals.   *)
ReaderNotStuck == (Unread > 0) ~> (rpc = "out" /\ last = 1)

(* A push ends when there is one writer: the reader gives slots back.        *)
PushEnds == \A p \in Producers : (wpc[p] # "idle") ~> (wpc[p] = "idle")
=============================================================================
