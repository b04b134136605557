----------------------------- MODULE ClickHouse -----------------------------
(* The ClickHouse output (extra_plugins/output/clickhouse): the plugin fills *)
(* blocks with rows (plugin.cpp), threads insert them into the database      *)
(* (inserter.cpp on worker.h), and the blocks go round through two locked    *)
(* queues (syncqueue.h).  Rows are numbered; what they hold does not matter. *)
EXTENDS Naturals, Sequences, FiniteSets, SequencesExt, FiniteSetsExt

CONSTANTS
    Block,       \* the blocks, made once
    Inserter,    \* the threads
    Threshold,   \* rows after which a block is sent
    MaxRows,     \* bound: rows
    Null         \* no block

VARIABLES
    nonblocking, \* configured: rather drop a message than wait for a block
    cur,         \* m_current_block
    avail,       \* m_avail_blocks
    filled,      \* m_filled_blocks
    rows,        \* the rows in each block
    ins,         \* inserters: [pc, blk]
    made,        \* rows made so far
    stored,      \* rows the database has
    pending,     \* rows of the message the plugin waits with for a block
    stopping,    \* m_stop_signal
    late,        \* more than STOP_TIMEOUT_SECS ago
    report,      \* rows reported as dropped
    chPc         \* the plugin: "run", "wait", "failed", "wake", "join", "done"

chVars == <<nonblocking, cur, avail, filled, rows, ins, made, stored, pending,
            stopping, late, report, chPc>>

Init ==
    /\ nonblocking \in BOOLEAN
    /\ cur = Null /\ avail = SetToSeq(Block) /\ filled = <<>>
    /\ rows = [b \in Block |-> {}]
    /\ ins = [i \in Inserter |-> [pc |-> "start", blk |-> Null]]
    /\ made = 0 /\ stored = {} /\ pending = 0
    /\ stopping = FALSE /\ late = FALSE /\ report = 0 /\ chPc = "run"

-----------------------------------------------------------------------------
(* The plugin's thread.                                                      *)

Errored == \E i \in Inserter : ins[i].pc = "error"

\* After every message: send the block if it is time, then look for errors.
Sent(b, full) ==
    /\ cur' = IF full THEN Null ELSE b
    /\ filled' = IF full THEN Append(filled, b) ELSE filled
    /\ chPc' = IF Errored THEN "failed" ELSE "run"
    /\ UNCHANGED <<nonblocking, ins, stored, stopping, late, report>>

\* The delay since the last insertion is over, or not.
Due(b, inB) == IF b = Null \/ inB = {} THEN {FALSE}
               ELSE IF Cardinality(inB) >= Threshold THEN {TRUE} ELSE BOOLEAN

\* n rows of a message into block b.
WriteRows(b, n) ==
    LET new == (made + 1) .. (made + n)
    IN  /\ made' = made + n
        /\ rows' = [rows EXCEPT ![b] = @ \cup new]
        /\ \E full \in Due(b, rows[b] \cup new) : Sent(b, full)

TakeAvail(n) ==
    /\ avail # <<>>
    /\ avail' = Tail(avail) /\ WriteRows(Head(avail), n)

IpfixMessage(n) ==
    /\ chPc = "run" /\ made + n <= MaxRows
    /\ \/ cur # Null /\ WriteRows(cur, n) /\ UNCHANGED <<avail, pending>>
       \/ cur = Null /\ TakeAvail(n) /\ UNCHANGED pending
       \/ cur = Null /\ avail = <<>> /\ nonblocking      \* the message is dropped
          /\ Sent(Null, FALSE) /\ UNCHANGED <<avail, rows, made, pending>>
       \/ cur = Null /\ avail = <<>> /\ ~nonblocking     \* m_avail_blocks.get()
          /\ pending' = n /\ chPc' = "wait"
          /\ UNCHANGED <<nonblocking, cur, avail, filled, rows, ins, made, stored, stopping,
                         late, report>>

GotBlock == chPc = "wait" /\ TakeAvail(pending) /\ pending' = 0

\* A message of SCTP; the block it may have taken stays the current one.
SctpMessage ==
    /\ chPc = "run" /\ (cur # Null \/ avail # <<>>)
    /\ cur' = IF cur # Null THEN cur ELSE Head(avail)
    /\ avail' = IF cur # Null THEN avail ELSE Tail(avail)
    /\ chPc' = "failed"
    /\ UNCHANGED <<nonblocking, filled, rows, ins, made, stored, pending, stopping, late, report>>

\* Messages about sessions, and periodic ones.
OtherMessage ==
    /\ chPc = "run"
    /\ \E full \in Due(cur, IF cur = Null THEN {} ELSE rows[cur]) : Sent(cur, full)
    /\ UNCHANGED <<avail, rows, made, pending>>

Stop ==
    /\ chPc \in {"run", "failed"}
    /\ IF cur # Null /\ rows[cur] # {}
       THEN filled' = Append(filled, cur) /\ cur' = Null
       ELSE UNCHANGED <<filled, cur>>
    /\ stopping' = TRUE /\ chPc' = "wake"
    /\ UNCHANGED <<nonblocking, avail, rows, ins, made, stored, pending, late, report>>

WakeUp ==
    /\ chPc = "wake"
    /\ filled' = filled \o [k \in 1 .. Cardinality(Inserter) |-> Null]
    /\ chPc' = "join"
    /\ UNCHANGED <<nonblocking, cur, avail, rows, ins, made, stored, pending, stopping, late, report>>

Left == FoldSet(LAMBDA b, n : n + Cardinality(rows[b]), 0, Block)

JoinAll ==
    /\ chPc = "join" /\ \A i \in Inserter : ins[i].pc \in {"end", "error"}
    /\ report' = Left /\ chPc' = "done"
    /\ UNCHANGED <<nonblocking, cur, avail, filled, rows, ins, made, stored, pending, stopping, late>>

-----------------------------------------------------------------------------
(* The inserters.                                                            *)

insOnly == <<nonblocking, cur, made, pending, stopping, late, report, chPc>>

\* The connection and the schema of the table; an exception ends the thread.
Connect(i) ==
    /\ ins[i].pc = "start"
    /\ \E pc \in {"get", "error"} : ins' = [ins EXCEPT ![i].pc = pc]
    /\ UNCHANGED <<avail, filled, rows, stored, insOnly>>

TakeFilled(i) ==
    /\ ins[i].pc = "get" /\ filled # <<>>
    /\ filled' = Tail(filled)
    /\ ins' = [ins EXCEPT ![i] =
           [pc |-> IF Head(filled) = Null \/ (stopping /\ late) THEN "end" ELSE "insert",
            blk |-> Head(filled)]]
    /\ UNCHANGED <<avail, rows, stored, insOnly>>

MUT_Emptied(b) == rows   \* the block keeps its rows

\* What is cleared, and goes back to the plugin.
Emptied(b) == [rows EXCEPT ![b] = {}]

Insert(i) ==
    /\ ins[i].pc = "insert"
    /\ stored' = stored \cup rows[ins[i].blk]
    /\ rows' = Emptied(ins[i].blk)
    /\ avail' = Append(avail, ins[i].blk)
    /\ ins' = [ins EXCEPT ![i] = [pc |-> "get", blk |-> Null]]
    /\ UNCHANGED <<filled, insOnly>>

\* The database fails before or after it has stored the block: try again,
\* maybe elsewhere, until it is too late.
InsertFails(i) ==
    /\ ins[i].pc = "insert"
    /\ stored' \in {stored, stored \cup rows[ins[i].blk]}
    /\ ins' = [ins EXCEPT ![i].pc = IF stopping /\ late THEN "end" ELSE "insert"]
    /\ UNCHANGED <<avail, filled, rows, insOnly>>

TimePasses ==
    /\ stopping /\ ~late /\ late' = TRUE
    /\ UNCHANGED <<nonblocking, cur, avail, filled, rows, ins, made, stored, pending,
                   stopping, report, chPc>>

\* All threads died before a block was free again: the plugin waits for ever.
Abandoned ==
    /\ chPc = "wait" /\ \A i \in Inserter : ins[i].pc = "error" /\ UNCHANGED chVars
Done == chPc = "done" /\ UNCHANGED chVars

Next ==
    \/ \E n \in 0 .. 2 : IpfixMessage(n)
    \/ GotBlock \/ SctpMessage \/ OtherMessage \/ Stop \/ WakeUp \/ JoinAll
    \/ \E i \in Inserter : Connect(i) \/ TakeFilled(i) \/ Insert(i) \/ InsertFails(i)
    \/ TimePasses \/ Abandoned \/ Done

-----------------------------------------------------------------------------
(* A block is in one place: with the plugin, in a queue or with an inserter, *)
(* and a free one holds no rows of before.                                   *)
Places(b) == Cardinality({x \in {0} : cur = b})
             + Cardinality({k \in DOMAIN avail : avail[k] = b})
             + Cardinality({k \in DOMAIN filled : filled[k] = b})
             + Cardinality({i \in Inserter : ins[i].blk = b})
BlocksOwned ==
    /\ \A b \in Block : Places(b) = 1
    /\ \A k \in DOMAIN avail : rows[avail[k]] = {}

(* A row is in one block at most, in one at least until the database has it, *)
(* and the number that is reported in the end is of those it may lack; it is *)
(* zero if the inserters worked and had the time.                            *)
RowsAccounted ==
    /\ \A a, b \in Block : a # b => rows[a] \cap rows[b] = {}
    /\ (1 .. made) \ stored \subseteq UNION {rows[b] : b \in Block}
    /\ chPc = "done" =>
           /\ report >= Cardinality((1 .. made) \ stored)
           /\ (~late /\ \E i \in Inserter : ins[i].pc = "end") => report = 0
=============================================================================
