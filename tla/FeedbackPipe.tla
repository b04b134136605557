---------------------------- MODULE FeedbackPipe ----------------------------
(* The feedback pipe of an input (fpipe.c): a pipe of the kernel and, beside *)
(* it, a counter under a spin lock that lets the reader return at once when  *)
(* there is nothing to read.  Several threads write, one reads.              *)
EXTENDS Naturals, Sequences, FiniteSets, FiniteSetTheorems, SequenceTheorems, TLAPS

CONSTANTS
    Writers,    \* threads that write
    Reader,     \* the thread of the input
    Msg,        \* messages
    NoMsg,      \* NULL
    NoOne,      \* nobody holds the lock
    PipeCap     \* pointers the pipe of the kernel can hold

ASSUME CapAssumption == PipeCap \in Nat \ {0}
ASSUME ReaderAssumption == Reader \notin Writers /\ NoOne \notin Writers \cup {Reader}
ASSUME WritersAssumption == IsFiniteSet(Writers)
ASSUME NoMsgAssumption == NoMsg \notin Msg

Threads == Writers \cup {Reader}

VARIABLES
    fd,      \* messages in the pipe of the kernel, oldest first
    cnt,     \* "records in the pipe"
    lock,    \* holder of the spin lock
    pc,      \* where each thread is
    val,     \* the value of cnt a thread has loaded
    msg,     \* the message each writer writes
    got      \* what the reader works on

vars == <<fd, cnt, lock, pc, val, msg, got>>

Init ==
    /\ fd = <<>> /\ cnt = 0 /\ lock = NoOne
    /\ pc = [t \in Threads |-> "idle"]
    /\ val = [t \in Threads |-> 0]
    /\ msg = [w \in Writers |-> NoMsg]
    /\ got = NoMsg

Goto(t, from, to) == pc[t] = from /\ pc' = [pc EXCEPT ![t] = to]

-----------------------------------------------------------------------------
(* The spin lock and the counter it protects.                                *)

MUT_LockFree == TRUE
LockFree == lock = NoOne

Lock(t) ==
    /\ Goto(t, "lock", "load")
    /\ LockFree
    /\ lock' = t
    /\ UNCHANGED <<fd, cnt, val, msg, got>>

Load(t) ==
    /\ Goto(t, "load", "store")
    /\ val' = [val EXCEPT ![t] = cnt]
    /\ UNCHANGED <<fd, cnt, lock, msg, got>>

-----------------------------------------------------------------------------
(* ipx_fpipe_write: the message goes into the pipe before it is counted.     *)

CallWrite(w, m) ==
    /\ Goto(w, "idle", "write")
    /\ msg' = [msg EXCEPT ![w] = m]
    /\ UNCHANGED <<fd, cnt, lock, val, got>>

\* write() blocks while the pipe is full.
MUT_Put(w) == fd' = IF Len(fd) < PipeCap THEN Append(fd, msg[w]) ELSE fd
Put(w) ==
    /\ Len(fd) < PipeCap
    /\ fd' = Append(fd, msg[w])

Write(w) ==
    /\ Goto(w, "write", "lock")
    /\ Put(w)
    /\ msg' = [msg EXCEPT ![w] = NoMsg]
    /\ UNCHANGED <<cnt, lock, val, got>>

\* The message is never counted.
MUT_Count(w) ==
    /\ Goto(w, "store", "idle")
    /\ lock' = NoOne
    /\ UNCHANGED <<fd, cnt, val, msg, got>>
Count(w) ==
    /\ Goto(w, "store", "idle")
    /\ cnt' = val[w] + 1
    /\ lock' = NoOne
    /\ UNCHANGED <<fd, val, msg, got>>

-----------------------------------------------------------------------------
(* ipx_fpipe_read: a counted message is taken from the counter, then read.   *)

CallRead ==
    /\ Goto(Reader, "idle", "lock")
    /\ got' = NoMsg
    /\ UNCHANGED <<fd, cnt, lock, val, msg>>

MUT_HasMessage == TRUE
HasMessage == val[Reader] > 0

MUT_Taken == IF HasMessage THEN val[Reader] ELSE 0
MUT_TakenUnchecked == val[Reader] - 1
Taken == IF HasMessage THEN val[Reader] - 1 ELSE 0

Uncount ==
    /\ Goto(Reader, "store", IF HasMessage THEN "read" ELSE "idle")
    /\ cnt' = Taken
    /\ lock' = NoOne
    /\ UNCHANGED <<fd, val, msg, got>>

\* read() blocks while the pipe is empty.
Read ==
    /\ Goto(Reader, "read", "idle")
    /\ fd # <<>>
    /\ got' = Head(fd)
    /\ fd' = Tail(fd)
    /\ UNCHANGED <<cnt, lock, val, msg>>

-----------------------------------------------------------------------------
WriterStep(w) ==
    \/ \E m \in Msg : CallWrite(w, m)
    \/ Write(w) \/ Lock(w) \/ Load(w) \/ Count(w)
ReaderStep == CallRead \/ Lock(Reader) \/ Load(Reader) \/ Uncount \/ Read

Next == (\E w \in Writers : WriterStep(w)) \/ ReaderStep

Spec == Init /\ [][Next]_vars

(* A thread that has begun a write finishes it unless the pipe stays full;   *)
(* an input polls its pipe for ever.  Spinning is fair enough for the lock   *)
(* (strong fairness): the holders do not ask for it again at once for ever.  *)
FairSpec ==
    /\ Spec
    /\ WF_vars(ReaderStep) /\ SF_vars(Lock(Reader))
    /\ \A w \in Writers : WF_vars(Load(w)) /\ WF_vars(Count(w))
    /\ \A w \in Writers : SF_vars(Write(w)) /\ SF_vars(Lock(w))

-----------------------------------------------------------------------------
(* Properties.                                                               *)

TypeOK ==
    /\ fd \in Seq(Msg) /\ Len(fd) <= PipeCap
    /\ cnt \in Nat
    /\ lock \in Threads \cup {NoOne}
    /\ pc \in [Threads -> {"idle", "write", "lock", "load", "store", "read"}]
    /\ pc[Reader] # "write" /\ \A w \in Writers : pc[w] # "read"
    /\ val \in [Threads -> Nat]
    /\ msg \in [Writers -> Msg \cup {NoMsg}]
    /\ got \in Msg \cup {NoMsg}

(* fpipe.h: reading is non-blocking.  The reader calls read() only when the  *)
(* pipe of the kernel holds a message.                                       *)
ReadNeverBlocks == pc[Reader] = "read" => fd # <<>>

(* When no call is in progress the counter says what is in the pipe, so that *)
(* ipx_fpipe_destroy() finds all that is left.                               *)
CountIsLength ==
    (\A t \in Threads : pc[t] = "idle") => cnt = Len(fd)

(* The pipe is a bounded FIFO queue: nothing is lost, doubled or overtaken.  *)
Q == INSTANCE RingQueue WITH
        Producers <- Writers, Size <- PipeCap + 1,
        queue <- fd, pending <- msg, held <- got
ImplementsQueue == Q!QSpec

(* A write ends.                                                             *)
WriteEnds == \A w \in Writers : pc[w] = "write" ~> pc[w] = "idle"

-----------------------------------------------------------------------------
(* Proofs, for every set of writers and every size of the pipe.              *)
(* The inductive invariant.                                                  *)

\* The threads between Lock and the release hold the lock, and what they have
\* loaded is what the counter still holds.
Holds(t) == pc[t] \in {"load", "store"}
LockInv ==
    /\ \A t \in Threads : Holds(t) <=> lock = t
    /\ \A t \in Threads : pc[t] = "store" => val[t] = cnt

\* A writer has a message in hand exactly until it is in the pipe, and the
\* reader holds none during a call.
MsgInv ==
    /\ \A w \in Writers : msg[w] # NoMsg <=> pc[w] = "write"
    /\ pc[Reader] # "idle" => got = NoMsg

\* What is in the pipe is counted, or about to be by its writer, or about to
\* be read.
Uncounted == {w \in Writers : pc[w] \in {"lock", "load", "store"}}
Reading == IF pc[Reader] = "read" THEN 1 ELSE 0
CountInv == Len(fd) = cnt + Cardinality(Uncounted) + Reading

IInv == TypeOK /\ LockInv /\ MsgInv /\ CountInv

-----------------------------------------------------------------------------
LEMMA UncountedFinite == IsFiniteSet(Uncounted) /\ Cardinality(Uncounted) \in Nat
<1>1. Uncounted \subseteq Writers
  BY DEF Uncounted
<1>2. QED
  BY <1>1, WritersAssumption, FS_Subset, FS_CardinalityType

LEMMA InitInv == Init => IInv
<1>1. SUFFICES ASSUME Init PROVE IInv
  OBVIOUS
<1>2. TypeOK
  BY <1>1, CapAssumption, ReaderAssumption DEF Init, TypeOK, Threads
<1>3. LockInv
  BY <1>1, ReaderAssumption DEF Init, LockInv, Holds, Threads
<1>4. MsgInv
  BY <1>1, ReaderAssumption DEF Init, MsgInv, Threads
<1>5. CountInv
  <2>1. Uncounted = {}
    BY <1>1 DEF Init, Uncounted, Threads
  <2>2. Cardinality(Uncounted) = 0
    BY <2>1, FS_EmptySet
  <2>3. Reading = 0 /\ Len(fd) = 0 /\ cnt = 0
    BY <1>1 DEF Init, Reading, Threads
  <2>4. QED
    BY <2>2, <2>3 DEF CountInv
<1>6. QED
  BY <1>2, <1>3, <1>4, <1>5 DEF IInv

LEMMA LockStep ==
    ASSUME IInv, NEW t \in Threads, Lock(t)
    PROVE  IInv'
<1>1. pc[t] = "lock" /\ pc' = [pc EXCEPT ![t] = "load"]
  BY DEF Lock, Goto
<1>2. TypeOK'
  BY <1>1 DEF IInv, TypeOK, Lock, Threads
<1>3. LockInv'
  BY <1>1, ReaderAssumption DEF IInv, TypeOK, LockInv, Holds, Lock, LockFree, Threads
<1>4. MsgInv'
  BY <1>1 DEF IInv, TypeOK, MsgInv, Lock, Threads
<1>5. Uncounted' = Uncounted /\ Reading' = Reading
  BY <1>1 DEF IInv, TypeOK, Uncounted, Reading, Threads
<1>6. QED
  BY <1>2, <1>3, <1>4, <1>5 DEF IInv, CountInv, Lock

LEMMA LoadStep ==
    ASSUME IInv, NEW t \in Threads, Load(t)
    PROVE  IInv'
<1>1. pc[t] = "load" /\ pc' = [pc EXCEPT ![t] = "store"]
  BY DEF Load, Goto
<1>2. TypeOK'
  BY <1>1 DEF IInv, TypeOK, Load, Threads
<1>3. LockInv'
  BY <1>1 DEF IInv, TypeOK, LockInv, Holds, Load, Threads
<1>4. MsgInv'
  BY <1>1 DEF IInv, TypeOK, MsgInv, Load, Threads
<1>5. Uncounted' = Uncounted /\ Reading' = Reading
  BY <1>1 DEF IInv, TypeOK, Uncounted, Reading, Threads
<1>6. QED
  BY <1>2, <1>3, <1>4, <1>5 DEF IInv, CountInv, Load

LEMMA CallWriteStep ==
    ASSUME IInv, NEW w \in Writers, NEW m \in Msg, CallWrite(w, m)
    PROVE  IInv'
<1>1. pc[w] = "idle" /\ pc' = [pc EXCEPT ![w] = "write"] /\ w # Reader /\ m # NoMsg
  BY ReaderAssumption, NoMsgAssumption DEF CallWrite, Goto
<1>2. TypeOK'
  BY <1>1 DEF IInv, TypeOK, CallWrite, Threads
<1>3. LockInv'
  BY <1>1 DEF IInv, TypeOK, LockInv, Holds, CallWrite, Threads
<1>4. MsgInv'
  BY <1>1 DEF IInv, TypeOK, MsgInv, CallWrite, Threads
<1>5. Uncounted' = Uncounted /\ Reading' = Reading
  BY <1>1 DEF IInv, TypeOK, Uncounted, Reading, Threads
<1>6. QED
  BY <1>2, <1>3, <1>4, <1>5 DEF IInv, CountInv, CallWrite

LEMMA WriteStep ==
    ASSUME IInv, NEW w \in Writers, Write(w)
    PROVE  IInv'
<1>1. pc[w] = "write" /\ pc' = [pc EXCEPT ![w] = "lock"] /\ w # Reader
  BY ReaderAssumption DEF Write, Put, Goto
<1>2. msg[w] \in Msg
  BY <1>1 DEF IInv, TypeOK, MsgInv
<1>3. fd' \in Seq(Msg) /\ Len(fd') = Len(fd) + 1
  BY <1>2 DEF IInv, TypeOK, Write, Put
<1>4. TypeOK'
  BY <1>1, <1>3, CapAssumption DEF IInv, TypeOK, Write, Put, Threads
<1>5. LockInv'
  BY <1>1 DEF IInv, TypeOK, LockInv, Holds, Write, Put, Threads
<1>6. MsgInv'
  BY <1>1 DEF IInv, TypeOK, MsgInv, Write, Put, Threads
<1>7. Uncounted' = Uncounted \cup {w} /\ w \notin Uncounted /\ Reading' = Reading
  BY <1>1 DEF IInv, TypeOK, Uncounted, Reading, Threads
<1>8. Cardinality(Uncounted') = Cardinality(Uncounted) + 1
  BY <1>7, UncountedFinite, FS_AddElement
<1>9. CountInv'
  BY <1>3, <1>7, <1>8, UncountedFinite DEF IInv, TypeOK, CountInv, Reading, Write, Put
<1>10. QED
  BY <1>4, <1>5, <1>6, <1>9 DEF IInv

LEMMA CountStep ==
    ASSUME IInv, NEW w \in Writers, Count(w)
    PROVE  IInv'
<1>1. pc[w] = "store" /\ pc' = [pc EXCEPT ![w] = "idle"] /\ w # Reader /\ w \in Threads
  BY ReaderAssumption DEF Count, Goto, Threads
<1>2. val[w] = cnt /\ lock = w
  BY <1>1 DEF IInv, LockInv, Holds
<1>3. TypeOK'
  BY <1>1, <1>2 DEF IInv, TypeOK, Count, Threads
<1>4. LockInv'
  BY <1>1, <1>2, ReaderAssumption DEF IInv, TypeOK, LockInv, Holds, Count, Threads
<1>5. MsgInv'
  BY <1>1 DEF IInv, TypeOK, MsgInv, Count, Threads
<1>6. Uncounted' = Uncounted \ {w} /\ w \in Uncounted /\ Reading' = Reading
  BY <1>1 DEF IInv, TypeOK, Uncounted, Reading, Threads
<1>7. Cardinality(Uncounted') = Cardinality(Uncounted) - 1
  BY <1>6, UncountedFinite, FS_RemoveElement
<1>8. CountInv'
  BY <1>2, <1>6, <1>7, UncountedFinite DEF IInv, TypeOK, CountInv, Reading, Count
<1>9. QED
  BY <1>3, <1>4, <1>5, <1>8 DEF IInv

LEMMA CallReadStep ==
    ASSUME IInv, CallRead
    PROVE  IInv'
<1>1. pc[Reader] = "idle" /\ pc' = [pc EXCEPT ![Reader] = "lock"] /\ Reader \in Threads
  BY DEF CallRead, Goto, Threads
<1>2. TypeOK'
  BY <1>1 DEF IInv, TypeOK, CallRead, Threads
<1>3. LockInv'
  BY <1>1 DEF IInv, TypeOK, LockInv, Holds, CallRead, Threads
<1>4. MsgInv'
  BY <1>1, ReaderAssumption DEF IInv, TypeOK, MsgInv, CallRead, Threads
<1>5. Uncounted' = Uncounted /\ Reading' = Reading
  BY <1>1, ReaderAssumption DEF IInv, TypeOK, Uncounted, Reading, Threads
<1>6. QED
  BY <1>2, <1>3, <1>4, <1>5 DEF IInv, CountInv, CallRead

LEMMA UncountStep ==
    ASSUME IInv, Uncount
    PROVE  IInv'
<1>1. /\ pc[Reader] = "store" /\ Reader \in Threads
      /\ pc' = [pc EXCEPT ![Reader] = IF HasMessage THEN "read" ELSE "idle"]
  BY DEF Uncount, Goto, Threads
<1>2. val[Reader] = cnt /\ lock = Reader /\ cnt \in Nat
  BY <1>1 DEF IInv, TypeOK, LockInv, Holds
<1>3. TypeOK'
  BY <1>1, <1>2, ReaderAssumption DEF IInv, TypeOK, Uncount, Taken, HasMessage, Threads
<1>4. LockInv'
  BY <1>1, <1>2, ReaderAssumption DEF IInv, TypeOK, LockInv, Holds, Uncount, Threads
<1>5. MsgInv'
  BY <1>1, ReaderAssumption DEF IInv, TypeOK, MsgInv, Uncount, Threads
<1>6. Uncounted' = Uncounted
  BY <1>1, ReaderAssumption DEF IInv, TypeOK, Uncounted, Threads
<1>7. Reading = 0 /\ cnt = cnt' + Reading'
  BY <1>1, <1>2 DEF IInv, TypeOK, Reading, Uncount, Taken, HasMessage
<1>8. CountInv'
  BY <1>2, <1>3, <1>6, <1>7, UncountedFinite DEF IInv, TypeOK, CountInv, Reading, Uncount
<1>9. QED
  BY <1>3, <1>4, <1>5, <1>8 DEF IInv

LEMMA ReadStep ==
    ASSUME IInv, Read
    PROVE  IInv'
<1>1. pc[Reader] = "read" /\ pc' = [pc EXCEPT ![Reader] = "idle"] /\ Reader \in Threads
  BY DEF Read, Goto, Threads
<1>2. Head(fd) \in Msg /\ fd' \in Seq(Msg) /\ Len(fd') = Len(fd) - 1
  BY HeadTailProperties DEF IInv, TypeOK, Read
<1>3. TypeOK'
  BY <1>1, <1>2, CapAssumption DEF IInv, TypeOK, Read, Threads
<1>4. LockInv'
  BY <1>1 DEF IInv, TypeOK, LockInv, Holds, Read, Threads
<1>5. MsgInv'
  BY <1>1, ReaderAssumption DEF IInv, TypeOK, MsgInv, Read, Threads
<1>6. Uncounted' = Uncounted /\ Reading = 1 /\ Reading' = 0
  BY <1>1, ReaderAssumption DEF IInv, TypeOK, Uncounted, Reading, Threads
<1>7. CountInv'
  BY <1>2, <1>6, UncountedFinite DEF IInv, TypeOK, CountInv, Read
<1>8. QED
  BY <1>3, <1>4, <1>5, <1>7 DEF IInv

\* Every step keeps the invariant.
LEMMA NextInv == IInv /\ [Next]_vars => IInv'
<1>1. SUFFICES ASSUME IInv, [Next]_vars PROVE IInv'
  OBVIOUS
<1>2. ASSUME NEW w \in Writers, WriterStep(w) PROVE IInv'
  BY <1>1, <1>2, CallWriteStep, WriteStep, LockStep, LoadStep, CountStep DEF WriterStep, Threads
<1>3. ASSUME ReaderStep PROVE IInv'
  BY <1>1, <1>3, CallReadStep, LockStep, LoadStep, UncountStep, ReadStep DEF ReaderStep, Threads
<1>4. CASE UNCHANGED vars
  BY <1>1, <1>4 DEF vars, IInv, TypeOK, LockInv, Holds, MsgInv, CountInv, Uncounted, Reading
<1>5. QED
  BY <1>1, <1>2, <1>3, <1>4 DEF Next

THEOREM Invariance == Spec => []IInv
<1>1. QED
  BY InitInv, NextInv, PTL DEF Spec

-----------------------------------------------------------------------------
(* The values and positions of all threads stay in their ranges, and the     *)
(* pipe of the kernel never holds more than it can (TypeOK of fpipe.c).      *)
THEOREM TypeCorrect == Spec => []TypeOK
<1>1. IInv => TypeOK
  BY DEF IInv
<1>2. QED
  BY <1>1, Invariance, PTL

(* ipx_fpipe_read() never calls read() on an empty pipe: it is non-blocking. *)
THEOREM ReadIsNonBlocking == Spec => []ReadNeverBlocks
<1>1. IInv => ReadNeverBlocks
  <2>1. SUFFICES ASSUME IInv, pc[Reader] = "read" PROVE fd # <<>>
    BY DEF ReadNeverBlocks
  <2>2. Len(fd) > 0
    BY <2>1, UncountedFinite DEF IInv, TypeOK, CountInv, Reading
  <2>3. QED
    BY <2>2
<1>2. QED
  BY <1>1, Invariance, PTL

(* With no call in progress the counter is the number of messages in the     *)
(* pipe: ipx_fpipe_destroy() finds all of them.                              *)
THEOREM CountIsExact == Spec => []CountIsLength
<1>1. IInv => CountIsLength
  <2>1. SUFFICES ASSUME IInv, \A t \in Threads : pc[t] = "idle" PROVE cnt = Len(fd)
    BY DEF CountIsLength
  <2>2. Uncounted = {} /\ Reading = 0
    BY <2>1 DEF Uncounted, Reading, Threads
  <2>3. QED
    BY <2>1, <2>2, FS_EmptySet DEF IInv, TypeOK, CountInv
<1>2. QED
  BY <1>1, Invariance, PTL

(* The pipe implements the bounded FIFO queue.                               *)
THEOREM PipeIsQueue == Spec => ImplementsQueue
<1>1. Init => Q!QInit
  BY DEF Init, Q!QInit
<1>2. ASSUME IInv, [Next]_vars PROVE [Q!QNext]_Q!qvars
  <2>1. ASSUME NEW w \in Writers, NEW m \in Msg, CallWrite(w, m) PROVE Q!CallPush(w, m)
    BY <1>2, <2>1 DEF CallWrite, Goto, Q!CallPush, IInv, MsgInv
  <2>2. ASSUME NEW w \in Writers, Write(w) PROVE Q!Enqueue(w)
    BY <1>2, <2>2, CapAssumption DEF Write, Put, Goto, Q!Enqueue, IInv, TypeOK, MsgInv
  <2>3. ASSUME CallRead PROVE [Q!QNext]_Q!qvars
    BY <2>3 DEF CallRead, Q!CallPop, Q!QNext, Q!qvars
  <2>4. ASSUME Read PROVE Q!Dequeue
    BY <1>2, <2>4 DEF Read, Goto, Q!Dequeue, IInv, MsgInv
  <2>5. ASSUME UNCHANGED <<fd, msg, got>> PROVE [Q!QNext]_Q!qvars
    BY <2>5 DEF Q!qvars
  <2>6. ASSUME NEW w \in Writers, WriterStep(w) PROVE [Q!QNext]_Q!qvars
    BY <2>6, <2>1, <2>2, <2>5 DEF WriterStep, Lock, Load, Count, Q!QNext
  <2>7. ASSUME ReaderStep PROVE [Q!QNext]_Q!qvars
    BY <2>7, <2>3, <2>4, <2>5 DEF ReaderStep, Lock, Load, Uncount, Q!QNext
  <2>8. CASE UNCHANGED vars
    BY <2>8, <2>5 DEF vars
  <2>9. QED
    BY <1>2, <2>6, <2>7, <2>8 DEF Next
<1>3. QED
  BY <1>1, <1>2, Invariance, PTL DEF Spec, ImplementsQueue, Q!QSpec
=============================================================================
