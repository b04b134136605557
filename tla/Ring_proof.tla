----------------------------- MODULE Ring_proof -----------------------------
(* Proofs about the ring buffer for every number of writers, every size and  *)
(* every cursor width.                                                       *)
EXTENDS Ring, SequenceTheorems, TLAPS

-----------------------------------------------------------------------------
(* Cursor arithmetic.                                                        *)

\* Subtraction of two cursors is a cursor.
LEMMA SubType == \A a, b \in Idx : IdxSub(a, b) \in Idx
BY IdxAssumption, SizeAssumption DEF IdxSub, Idx

\* Addition of at most one turn stays a cursor.
LEMMA AddType == \A a, b \in Idx : IdxAdd(a, b) \in Idx
BY IdxAssumption, SizeAssumption DEF IdxAdd, Idx

\* Distances from a common base c subtract like numbers.
LEMMA SubDiff ==
    \A a, b, c \in Idx : IdxSub(a, c) <= IdxSub(b, c) =>
        IdxSub(b, a) = IdxSub(b, c) - IdxSub(a, c)
BY IdxAssumption, SizeAssumption DEF IdxSub, Idx

\* One step forward from a, seen from the base c.
LEMMA SubSucc ==
    \A a, c \in Idx : IdxSub(a, c) < IdxMod - 1 =>
        IdxSub(IdxAdd(a, 1), c) = IdxSub(a, c) + 1
BY IdxAssumption, SizeAssumption DEF IdxSub, IdxAdd, Idx

\* Going n forward from c is n away from c.
LEMMA SubAdd == \A c, n \in Idx : IdxSub(IdxAdd(c, n), c) = n
BY IdxAssumption, SizeAssumption DEF IdxSub, IdxAdd, Idx

\* Moving the base from c to r moves c + n to r + n.
LEMMA AddShift ==
    \A c, r, n \in Idx : IdxAdd(IdxAdd(c, n), IdxSub(r, c)) = IdxAdd(r, n)
BY IdxAssumption, SizeAssumption DEF IdxSub, IdxAdd, Idx

\* A cursor is at distance 0 from itself only.
LEMMA SubZero == \A a, b \in Idx : IdxSub(a, b) = 0 <=> a = b
BY IdxAssumption, SizeAssumption DEF IdxSub, Idx

\* Adding nothing.
LEMMA AddZero == \A a \in Idx : IdxAdd(a, 0) = a
BY IdxAssumption DEF IdxAdd, Idx

\* A slot index stays inside the ring.
LEMMA SlotType == \A a \in Slots, b \in 0 .. Size : SlotAdd(a, b) \in Slots
BY SizeAssumption DEF SlotAdd, Slots

\* Slots less than one turn apart are different.
LEMMA SlotApart ==
    \A a \in Slots, j, k \in 0 .. Size : j < k /\ k < j + Size => SlotAdd(a, j) # SlotAdd(a, k)
BY SizeAssumption DEF SlotAdd, Slots

\* Advancing one end of a range of slots.
LEMMA SlotSucc ==
    \A a \in Slots, k \in 0 .. Size - 1 :
        /\ SlotAdd(SlotAdd(a, 1), k) = SlotAdd(a, k + 1)
        /\ SlotAdd(SlotAdd(a, k), 1) = SlotAdd(a, k + 1)
BY SizeAssumption DEF SlotAdd, Slots

-----------------------------------------------------------------------------
(* The inductive invariant.                                                  *)

\* Distance of a cursor from the reader's published cursor.
D(x) == IdxSub(x, rCommit)

\* The cursors never overtake each other on a turn of the ring.
Order ==
    /\ D(rRead) <= D(rExch)
    /\ D(rExch) <= D(sRead)
    /\ D(sRead) <= D(wWrite)
    /\ D(wWrite) <= D(wExch)
    /\ D(wExch) <= Size
    /\ sWrite = IdxAdd(rCommit, Size)

\* The slot indices follow the cursors.
SlotOrder == wData = SlotAdd(rData, Unconfirmed)

\* The lock, when it is used, is held exactly inside the call.
LockOK ==
    /\ \A p \in Producers : MwMode => (Inside(p) <=> lock = p)
    /\ ~MwMode => lock = NoOne

\* A writer about to store or commit owns a free slot and has a message.
WriterOK ==
    \A p \in Producers :
        /\ wpc[p] \in {"store", "commit"} => D(wWrite) < D(wExch)
        /\ wpc[p] \in {"enter", "begin", "full", "store", "commit"} => msg[p] \in Message
        /\ wpc[p] \in {"idle", "sync", "unlock"} => msg[p] = NoMsg
        /\ wpc[p] = "commit" => data[wData] = msg[p]

\* The reader counts the message it works on only outside of pop.
ReaderOK ==
    /\ last = 1 => rpc = "out" /\ D(rRead) < D(rExch) /\ got = data[rData] 
    /\ last = 0 => got = NoMsg

\* The slots between the two heads hold messages.
Filled == \A k \in 0 .. Size - 1 : k < Unconfirmed => data[SlotAdd(rData, k)] \in Message

IInv == TypeOK /\ Order /\ SlotOrder /\ LockOK /\ WriterOK /\ ReaderOK /\ Filled

\* All cursors between the published one and the writers' limit, as numbers.
LEMMA Distances ==
    ASSUME TypeOK, Order
    PROVE  /\ D(rRead) \in Nat /\ D(rExch) \in Nat /\ D(sRead) \in Nat
           /\ D(wWrite) \in Nat /\ D(wExch) \in Nat /\ D(sWrite) = Size
           /\ Unconfirmed = D(wWrite) - D(rRead)
           /\ Unconfirmed \in 0 .. Size
           /\ Avail = D(rExch) - D(rRead)
           /\ Avail \in 0 .. Unconfirmed
           /\ IdxSub(wExch, wWrite) = D(wExch) - D(wWrite)
           /\ IdxSub(sWrite, wWrite) = Size - D(wWrite)
<1>1. Size \in Idx
  BY SizeAssumption, IdxAssumption DEF Idx
<1>2. /\ rRead \in Idx /\ rExch \in Idx /\ sRead \in Idx /\ wWrite \in Idx
      /\ wExch \in Idx /\ sWrite \in Idx /\ rCommit \in Idx
  BY DEF TypeOK
<1>3. /\ D(rRead) \in Idx /\ D(rExch) \in Idx /\ D(sRead) \in Idx
      /\ D(wWrite) \in Idx /\ D(wExch) \in Idx
  BY <1>2, SubType DEF D
<1>4. D(sWrite) = Size
  BY <1>1, <1>2, SubAdd DEF D, Order
<1>5. /\ D(rRead) <= D(rExch) /\ D(rExch) <= D(sRead) /\ D(sRead) <= D(wWrite)
      /\ D(wWrite) <= D(wExch) /\ D(wExch) <= Size
  BY DEF Order
<1>6. /\ D(rRead) <= D(wWrite) /\ D(wWrite) <= D(sWrite)
  BY <1>1, <1>3, <1>4, <1>5 DEF Idx
<1>7. /\ Unconfirmed = D(wWrite) - D(rRead)
      /\ Avail = D(rExch) - D(rRead)
      /\ IdxSub(wExch, wWrite) = D(wExch) - D(wWrite)
      /\ IdxSub(sWrite, wWrite) = D(sWrite) - D(wWrite)
  BY <1>2, <1>5, <1>6, SubDiff DEF D, Unconfirmed, Avail
<1>8. QED
  BY <1>1, <1>3, <1>4, <1>5, <1>7 DEF Idx

\* The initial state satisfies the invariant.
LEMMA InitInv == Init => IInv
<1> SUFFICES ASSUME Init PROVE IInv
  OBVIOUS
<1> USE SizeAssumption, IdxAssumption
<1>1. TypeOK
  BY SeqAssumption DEF Init, TypeOK, Slots, Idx, WriterPcs, ReaderPcs
<1>2. Order
  BY DEF Init, Order, D, IdxSub, IdxAdd
<1>3. Unconfirmed = 0
  BY DEF Init, Unconfirmed, IdxSub
<1>4. SlotOrder
  BY <1>3 DEF Init, SlotOrder, SlotAdd
<1>5. LockOK
  BY ModeAssumption DEF Init, LockOK, Inside
<1>6. WriterOK /\ ReaderOK
  BY DEF Init, WriterOK, ReaderOK
<1>7. Filled
  BY <1>3 DEF Filled
<1>8. QED
  BY <1>1, <1>2, <1>4, <1>5, <1>6, <1>7 DEF IInv

\* Types survive every step.
LEMMA TypeStep == TypeOK /\ Order /\ WriterOK /\ [Next]_vars => TypeOK'
<1> SUFFICES ASSUME TypeOK, Order, WriterOK, [Next]_vars PROVE TypeOK'
  OBVIOUS
<1> USE SizeAssumption, IdxAssumption, SeqAssumption
<1>a. 1 \in Idx /\ 1 \in 0 .. Size /\ 0 \in Idx /\ last \in Idx /\ last \in 0 .. Size
  BY DEF Idx, TypeOK
<1>b. /\ IdxAdd(wWrite, 1) \in Idx /\ IdxAdd(rRead, last) \in Idx
      /\ IdxAdd(sWrite, IdxSub(rRead, rCommit)) \in Idx
      /\ SlotAdd(wData, 1) \in Slots /\ SlotAdd(rData, last) \in Slots
  BY <1>a, AddType, SubType, SlotType DEF TypeOK
<1>1. ASSUME NEW p \in Producers, PushCall(p) PROVE TypeOK'
  <2>1. <<p, seq[p]>> \in Message
    BY DEF TypeOK, Message
  <2>2. seq' \in [Producers -> 0 .. NSeq - 1]
    BY <1>1 DEF PushCall, TypeOK
  <2>3. QED
    BY <1>1, <2>1, <2>2 DEF PushCall, Goto, TypeOK, wvars, rvars, svars, WriterPcs
<1>2. ASSUME NEW p \in Producers, PushLock(p) PROVE TypeOK'
  BY <1>2 DEF PushLock, Goto, TypeOK, wvars, rvars, svars, WriterPcs
<1>3. ASSUME NEW p \in Producers, BeginHasSpace(p) PROVE TypeOK'
  BY <1>3 DEF BeginHasSpace, Goto, TypeOK, wvars, rvars, svars, WriterPcs
<1>4. ASSUME NEW p \in Producers, BeginSync(p) \/ FullWake(p) PROVE TypeOK'
  BY <1>4 DEF BeginSync, FullWake, AfterReload, Goto, TypeOK, rvars, svars, WriterPcs
<1>5. ASSUME NEW p \in Producers, Store(p) PROVE TypeOK'
  BY <1>5 DEF Store, Goto, TypeOK, wvars, rvars, svars, WriterPcs
<1>6. ASSUME NEW p \in Producers, Commit(p) PROVE TypeOK'
  BY <1>6, <1>b DEF Commit, Goto, TypeOK, rvars, svars, WriterPcs
<1>7. ASSUME NEW p \in Producers, CommitSync(p) PROVE TypeOK'
  BY <1>7 DEF CommitSync, Goto, TypeOK, rvars, WriterPcs
<1>8. ASSUME NEW p \in Producers, PushUnlock(p) PROVE TypeOK'
  BY <1>8 DEF PushUnlock, Goto, TypeOK, wvars, rvars, svars, WriterPcs
<1>9. ASSUME PopCall PROVE TypeOK'
  BY <1>9, <1>b DEF PopCall, RGoto, TypeOK, wvars, svars, calls, ReaderPcs
<1>10. ASSUME PopSync PROVE TypeOK'
  BY <1>10, <1>b DEF PopSync, RGoto, TypeOK, wvars, calls, ReaderPcs
<1>11. ASSUME PopTake PROVE TypeOK'
  BY <1>11 DEF PopTake, RGoto, TypeOK, wvars, svars, calls, ReaderPcs
<1>12. ASSUME PopWait \/ PopNothing PROVE TypeOK'
  BY <1>12 DEF PopWait, PopNothing, RGoto, TypeOK, wvars, rvars, svars, calls, ReaderPcs
<1>13. ASSUME PopWake PROVE TypeOK'
  BY <1>13 DEF PopWake, RGoto, TypeOK, wvars, svars, calls, ReaderPcs
<1>14. ASSUME PopSteal PROVE TypeOK'
  BY <1>14 DEF PopSteal, RGoto, TypeOK, wvars, calls, ReaderPcs
<1>15. ASSUME UNCHANGED vars PROVE TypeOK'
  BY <1>15 DEF vars, TypeOK, wvars, rvars, svars, calls
<1>16. QED
  BY <1>1, <1>2, <1>3, <1>4, <1>5, <1>6, <1>7, <1>8, <1>9, <1>10, <1>11, <1>12,
     <1>13, <1>14, <1>15 DEF Next, Writer, ReaderStep

\* Steps of the writers that leave the cursors and the slots alone.
LEMMA QuietWriterStep ==
    ASSUME IInv, NEW p \in Producers, PushCall(p) \/ PushLock(p) \/ BeginHasSpace(p) \/ PushUnlock(p)
    PROVE  Order' /\ SlotOrder' /\ LockOK' /\ WriterOK' /\ ReaderOK' /\ Filled'
<1> USE DEF IInv
<1>1. UNCHANGED <<data, wvars, rvars, svars, rpc, got>>
  BY DEF PushCall, PushLock, BeginHasSpace, PushUnlock
<1>2. Order' /\ SlotOrder' /\ ReaderOK' /\ Filled'
  BY <1>1 DEF Order, SlotOrder, ReaderOK, Filled, D, Unconfirmed, wvars, rvars, svars
<1>3. LockOK'
  BY ModeAssumption DEF PushCall, PushLock, BeginHasSpace, PushUnlock, LockOK, Inside, Goto, TypeOK
<1>4. PushCall(p) => <<p, seq[p]>> \in Message
  BY DEF TypeOK, Message
<1>5. BeginHasSpace(p) => D(wWrite) < D(wExch)
  BY Distances DEF BeginHasSpace
<1>6. WriterOK'
  BY <1>1, <1>4, <1>5 DEF PushCall, PushLock, BeginHasSpace, PushUnlock, WriterOK, Goto, TypeOK,
     D, wvars, rvars, svars
<1>7. QED
  BY <1>2, <1>3, <1>6

\* Only one writer is inside the call.
LEMMA OneInside ==
    ASSUME LockOK, NEW p \in Producers, NEW q \in Producers, Inside(p), Inside(q)
    PROVE  p = q
BY ModeAssumption DEF LockOK

\* The writer reloads the reader's published cursor.
LEMMA ReloadStep ==
    ASSUME IInv, NEW p \in Producers, BeginSync(p) \/ FullWake(p)
    PROVE  Order' /\ SlotOrder' /\ LockOK' /\ WriterOK' /\ ReaderOK' /\ Filled'
<1> USE DEF IInv
<1>1. /\ UNCHANGED <<data, wData, wWrite, wCommit, rvars, svars, lock, msg, seq, rpc, got>>
      /\ wExch' = sWrite
      /\ wpc[p] \in {"begin", "full"}
      /\ wpc' = [wpc EXCEPT ![p] = AfterReload(p)]
  BY DEF BeginSync, FullWake, Goto
<1>2. D(wWrite) <= Size /\ D(wExch)' = Size /\ D(wWrite)' = D(wWrite)
  <2>1. D(wWrite) <= Size
    BY Distances, SizeAssumption DEF Order
  <2>2. D(wExch)' = D(sWrite) /\ D(wWrite)' = D(wWrite)
    BY <1>1 DEF D, rvars
  <2>3. QED
    BY <2>1, <2>2, Distances
<1>3. Order'
  BY <1>1, <1>2, SizeAssumption DEF Order, D, rvars, svars
<1>4. SlotOrder' /\ ReaderOK' /\ Filled'
  <2>1. Unconfirmed' = Unconfirmed
    BY <1>1 DEF Unconfirmed, rvars
  <2>2. D(rRead)' = D(rRead) /\ D(rExch)' = D(rExch)
    BY <1>1 DEF D, rvars
  <2>3. QED
    BY <1>1, <2>1, <2>2 DEF SlotOrder, ReaderOK, Filled, rvars
<1>5. LockOK'
  BY <1>1 DEF LockOK, Inside, AfterReload, TypeOK
<1>6. AfterReload(p) = "store" => D(wWrite)' < D(wExch)'
  BY <1>2, Distances, SizeAssumption DEF AfterReload
<1>7. AfterReload(p) \in {"store", "full"}
  BY DEF AfterReload
<1>8. \A q \in Producers : wpc'[q] \in {"store", "commit"} => D(wWrite)' < D(wExch)'
  <2>1. SUFFICES ASSUME NEW q \in Producers, wpc'[q] \in {"store", "commit"}
                 PROVE  D(wWrite)' < D(wExch)'
    OBVIOUS
  <2>2. CASE q = p
    BY <1>1, <1>6, <1>7, <2>1, <2>2 DEF TypeOK
  <2>3. CASE q # p
    <3>1. Inside(q) /\ Inside(p)
      BY <1>1, <2>1, <2>3 DEF Inside, TypeOK
    <3>2. QED
      BY <2>3, <3>1, OneInside
  <2>4. QED
    BY <2>2, <2>3
<1>9. WriterOK'
  BY <1>1, <1>7, <1>8 DEF WriterOK, TypeOK
<1>10. QED
  BY <1>3, <1>4, <1>5, <1>9

\* The store goes to the first slot after the live ones.
LEMMA StoreStep ==
    ASSUME IInv, NEW p \in Producers, Store(p)
    PROVE  Order' /\ SlotOrder' /\ LockOK' /\ WriterOK' /\ ReaderOK' /\ Filled'
<1> USE DEF IInv
<1>1. /\ UNCHANGED <<wvars, rvars, svars, lock, msg, seq, rpc, got>>
      /\ wpc[p] = "store" /\ wpc' = [wpc EXCEPT ![p] = "commit"]
      /\ data' = [data EXCEPT ![wData] = msg[p]]
  BY DEF Store, Goto
<1>2. Order' /\ SlotOrder'
  BY <1>1 DEF Order, SlotOrder, D, Unconfirmed, wvars, rvars, svars
<1>3. LockOK'
  BY <1>1 DEF LockOK, Inside, TypeOK
<1>4. Unconfirmed < Size /\ Unconfirmed \in Nat /\ msg[p] \in Message
  BY <1>1, Distances, SizeAssumption DEF WriterOK, Order
<1>5. \A k \in 0 .. Size - 1 : k < Unconfirmed => SlotAdd(rData, k) # wData
  BY <1>4, SlotApart, SizeAssumption DEF SlotOrder, TypeOK
<1>6. \A k \in 0 .. Size - 1 : k < Unconfirmed => data'[SlotAdd(rData, k)] = data[SlotAdd(rData, k)]
  BY <1>1, <1>5, SlotType, SizeAssumption DEF TypeOK
<1>7. Filled'
  BY <1>1, <1>6 DEF Filled, Unconfirmed, wvars, rvars
<1>8. WriterOK'
  <2>1. \A q \in Producers : wpc'[q] = "commit" => q = p
    <3>1. SUFFICES ASSUME NEW q \in Producers, wpc'[q] = "commit" PROVE q = p
      OBVIOUS
    <3>2. Inside(q) /\ Inside(p)
      BY <1>1, <3>1 DEF Inside, TypeOK
    <3>3. QED
      BY <3>2, OneInside
  <2>2. data'[wData] = msg[p] /\ wData' = wData
    BY <1>1 DEF TypeOK, wvars
  <2>3. D(wWrite)' = D(wWrite) /\ D(wExch)' = D(wExch)
    BY <1>1 DEF D, wvars, rvars
  <2>4. QED
    BY <1>1, <1>4, <2>1, <2>2, <2>3 DEF WriterOK, TypeOK
<1>9. ReaderOK'
  <2>1. ASSUME last = 1 PROVE data'[rData] = data[rData]
    <3>1. D(rRead) < D(rExch) /\ 0 < Unconfirmed
      BY <2>1, Distances DEF ReaderOK
    <3>2. SlotAdd(rData, 0) = rData
      BY SizeAssumption DEF SlotAdd, Slots, TypeOK
    <3>3. QED
      BY <1>6, <3>1, <3>2, SizeAssumption
  <2>2. QED
    BY <1>1, <2>1 DEF ReaderOK, D, rvars
<1>10. QED
  BY <1>2, <1>3, <1>7, <1>8, <1>9

\* The commit makes the slot live.
LEMMA CommitStep ==
    ASSUME IInv, NEW p \in Producers, Commit(p)
    PROVE  Order' /\ SlotOrder' /\ LockOK' /\ WriterOK' /\ ReaderOK' /\ Filled'
<1> USE DEF IInv
<1>1. /\ UNCHANGED <<data, wExch, wCommit, rvars, svars, lock, seq, rpc, got>>
      /\ wpc[p] = "commit"
      /\ wWrite' = IdxAdd(wWrite, 1) /\ wData' = SlotAdd(wData, 1)
      /\ msg' = [msg EXCEPT ![p] = NoMsg]
      /\ \/ wpc' = [wpc EXCEPT ![p] = "sync"]
         \/ wpc' = [wpc EXCEPT ![p] = "unlock"]
  BY DEF Commit, Goto
<1>2. D(wWrite) < D(wExch) /\ D(wExch) <= Size /\ D(wWrite) \in Nat /\ D(wExch) \in Nat
  BY <1>1, Distances DEF WriterOK, Order
<1>3. D(wWrite)' = D(wWrite) + 1
  BY <1>1, <1>2, SubSucc, SizeAssumption, IdxAssumption DEF D, rvars, TypeOK
<1>4. Order'
  <2>1. /\ D(rRead)' = D(rRead) /\ D(rExch)' = D(rExch) /\ D(sRead)' = D(sRead)
        /\ D(wExch)' = D(wExch)
    BY <1>1 DEF D, rvars, svars
  <2>2. D(rRead) \in Nat /\ D(rExch) \in Nat /\ D(sRead) \in Nat
    BY Distances
  <2>3. QED
    BY <1>1, <1>2, <1>3, <2>1, <2>2, SizeAssumption DEF Order, rvars, svars
<1>5. Unconfirmed' = Unconfirmed + 1 /\ Unconfirmed \in 0 .. Size - 1
  <2>1. Unconfirmed = D(wWrite) - D(rRead) /\ D(rRead) <= D(wWrite) /\ D(rRead) \in Nat
    BY <1>2, Distances, SizeAssumption DEF Order
  <2>2. Unconfirmed < IdxMod - 1
    BY <1>2, <2>1, IdxAssumption, SizeAssumption
  <2>3. Unconfirmed' = Unconfirmed + 1
    BY <1>1, <2>2, SubSucc DEF Unconfirmed, rvars, TypeOK
  <2>4. QED
    BY <1>2, <2>1, <2>3, SizeAssumption
<1>6. SlotOrder'
  BY <1>1, <1>5, SlotSucc DEF SlotOrder, TypeOK, rvars
<1>7. LockOK'
  BY <1>1 DEF LockOK, Inside, TypeOK
<1>8. \A q \in Producers : wpc'[q] \notin {"store", "commit"}
  <2>1. SUFFICES ASSUME NEW q \in Producers, wpc'[q] \in {"store", "commit"} PROVE FALSE
    OBVIOUS
  <2>2. q # p /\ Inside(q) /\ Inside(p)
    BY <1>1, <2>1 DEF Inside, TypeOK
  <2>3. QED
    BY <2>2, OneInside
<1>9. WriterOK'
  BY <1>1, <1>8 DEF WriterOK, TypeOK
<1>10. ReaderOK'
  BY <1>1 DEF ReaderOK, D, rvars
<1>11. Filled'
  <2>1. data[wData] \in Message
    BY <1>1 DEF WriterOK
  <2>2. QED
    BY <1>1, <1>5, <2>1, SizeAssumption DEF Filled, SlotOrder, rvars
<1>12. QED
  BY <1>4, <1>6, <1>7, <1>9, <1>10, <1>11

\* The writer publishes its cursor and reloads the reader's.
LEMMA CommitSyncStep ==
    ASSUME IInv, NEW p \in Producers, CommitSync(p)
    PROVE  Order' /\ SlotOrder' /\ LockOK' /\ WriterOK' /\ ReaderOK' /\ Filled'
<1> USE DEF IInv
<1>1. /\ UNCHANGED <<data, wData, wWrite, rvars, sWrite, lock, msg, seq, rpc, got>>
      /\ sRead' = wWrite /\ wExch' = sWrite
      /\ wpc[p] = "sync" /\ wpc' = [wpc EXCEPT ![p] = "unlock"]
  BY DEF CommitSync, Goto
<1>2. /\ D(rRead)' = D(rRead) /\ D(rExch)' = D(rExch) /\ D(wWrite)' = D(wWrite)
      /\ D(sRead)' = D(wWrite) /\ D(wExch)' = Size
  BY <1>1, Distances DEF D, rvars
<1>3. Order'
  BY <1>1, <1>2, Distances, SizeAssumption DEF Order, rvars
<1>4. SlotOrder' /\ ReaderOK' /\ Filled'
  BY <1>1, <1>2 DEF SlotOrder, ReaderOK, Filled, Unconfirmed, rvars
<1>5. LockOK'
  BY <1>1 DEF LockOK, Inside, TypeOK
<1>6. \A q \in Producers : wpc'[q] \notin {"store", "commit"}
  <2>1. SUFFICES ASSUME NEW q \in Producers, wpc'[q] \in {"store", "commit"} PROVE FALSE
    OBVIOUS
  <2>2. q # p /\ Inside(q) /\ Inside(p)
    BY <1>1, <2>1 DEF Inside, TypeOK
  <2>3. QED
    BY <2>2, OneInside
<1>7. WriterOK'
  BY <1>1, <1>6 DEF WriterOK, TypeOK
<1>8. QED
  BY <1>3, <1>4, <1>5, <1>7

\* The reader counts the message it worked on as read.
LEMMA PopCallStep ==
    ASSUME IInv, PopCall
    PROVE  Order' /\ SlotOrder' /\ LockOK' /\ WriterOK' /\ ReaderOK' /\ Filled'
<1> USE DEF IInv
<1>1. /\ UNCHANGED <<data, wvars, rExch, rCommit, svars, calls>>
      /\ rpc = "out" /\ got' = NoMsg /\ last' = 0
      /\ rData' = SlotAdd(rData, last) /\ rRead' = IdxAdd(rRead, last)
  BY DEF PopCall, RGoto
<1>2. /\ last = 0 => rData' = rData /\ rRead' = rRead
  BY <1>1, IdxAssumption, SizeAssumption DEF TypeOK, SlotAdd, IdxAdd, Slots, Idx
<1>3. /\ D(rExch)' = D(rExch) /\ D(sRead)' = D(sRead) /\ D(wWrite)' = D(wWrite)
      /\ D(wExch)' = D(wExch)
  BY <1>1 DEF D, wvars, svars
<1>4. LockOK' /\ WriterOK' /\ ReaderOK'
  BY <1>1, <1>3 DEF LockOK, Inside, WriterOK, ReaderOK, calls, wvars
<1>5. CASE last = 0
  BY <1>1, <1>2, <1>3, <1>4, <1>5 DEF Order, SlotOrder, Filled, Unconfirmed, D, wvars, svars
<1>6. CASE last = 1
  <2>1. D(rRead) < D(rExch)
    BY <1>6 DEF ReaderOK
  <2>2. D(rRead) < Size /\ D(rRead) \in Nat
    BY <2>1, Distances, SizeAssumption DEF Order
  <2>3. D(rRead)' = D(rRead) + 1
    BY <1>1, <1>6, <2>2, SubSucc, SizeAssumption, IdxAssumption DEF D, TypeOK
  <2>4. Order'
    BY <1>1, <1>3, <2>1, <2>3, Distances DEF Order, svars
  <2>5. /\ rRead \in Idx /\ rRead' \in Idx /\ wWrite \in Idx /\ rCommit \in Idx
    <3>1. 1 \in Idx
      BY SizeAssumption, IdxAssumption DEF Idx
    <3>2. rRead \in Idx /\ wWrite \in Idx /\ rCommit \in Idx
      BY DEF TypeOK
    <3>3. QED
      BY <1>1, <1>6, <3>1, <3>2, AddType
  <2>6. Unconfirmed' = Unconfirmed - 1
    <3>1. D(rRead)' <= D(wWrite)
      BY <2>1, <2>3, Distances DEF Order
    <3>2. IdxSub(wWrite, rRead') = IdxSub(wWrite, rCommit) - IdxSub(rRead', rCommit)
      BY <1>1, <2>5, <3>1, SubDiff DEF D
    <3>3. QED
      BY <1>1, <2>3, <3>2, Distances DEF Unconfirmed, D, wvars
  <2>7. Unconfirmed \in 1 .. Size
    BY <2>1, Distances
  <2>8. wData' = wData /\ rData' = SlotAdd(rData, 1) /\ rData \in Slots /\ data' = data
    BY <1>1, <1>6 DEF wvars, TypeOK
  <2>9. SlotOrder'
    BY <2>6, <2>7, <2>8, SlotSucc, SizeAssumption DEF SlotOrder
  <2>10. Filled'
    <3>1. SUFFICES ASSUME NEW k \in 0 .. Size - 1, k < Unconfirmed - 1
                   PROVE  data[SlotAdd(SlotAdd(rData, 1), k)] \in Message
      BY <2>6, <2>8 DEF Filled
    <3>2. k + 1 \in 0 .. Size - 1 /\ k + 1 < Unconfirmed
      BY <2>7, <3>1, SizeAssumption
    <3>3. QED
      BY <2>8, <3>2, SlotSucc DEF Filled
  <2>11. QED
    BY <1>4, <2>4, <2>9, <2>10
<1>7. QED
  BY <1>5, <1>6 DEF TypeOK

\* The reader publishes its cursor: the base of all distances moves.
LEMMA PopSyncStep ==
    ASSUME IInv, PopSync
    PROVE  Order' /\ SlotOrder' /\ LockOK' /\ WriterOK' /\ ReaderOK' /\ Filled'
<1> USE DEF IInv
<1>1. /\ UNCHANGED <<data, wvars, rData, rRead, last, sRead, calls, got>>
      /\ sWrite' = IdxAdd(sWrite, IdxSub(rRead, rCommit))
      /\ rExch' = sRead /\ rCommit' = rRead
      /\ rpc = "sync" /\ rpc' = "check"
  BY DEF PopSync, RGoto
<1>2. /\ rRead \in Idx /\ rExch \in Idx /\ sRead \in Idx /\ wWrite \in Idx
      /\ wExch \in Idx /\ rCommit \in Idx
  BY DEF TypeOK
<1>3. /\ D(rRead) <= D(sRead) /\ D(rRead) <= D(wWrite) /\ D(rRead) <= D(wExch)
  BY Distances, SizeAssumption DEF Order
<1>4. /\ D(rRead)' = 0
      /\ D(rExch)' = D(sRead) - D(rRead)
      /\ D(sRead)' = D(sRead) - D(rRead)
      /\ D(wWrite)' = D(wWrite) - D(rRead)
      /\ D(wExch)' = D(wExch) - D(rRead)
  BY <1>1, <1>2, <1>3, SubDiff, SubZero DEF D, wvars
<1>5. sWrite' = IdxAdd(rCommit', Size)
  <2>1. Size \in Idx
    BY SizeAssumption, IdxAssumption DEF Idx
  <2>2. QED
    BY <1>1, <1>2, <2>1, AddShift DEF Order
<1>6. Order'
  BY <1>3, <1>4, <1>5, Distances, SizeAssumption DEF Order
<1>7. SlotOrder' /\ Filled' /\ LockOK'
  BY <1>1 DEF SlotOrder, Filled, Unconfirmed, LockOK, Inside, wvars, calls
<1>8. \A q \in Producers : wpc[q] \in {"store", "commit"} => D(wWrite)' < D(wExch)'
  BY <1>4, Distances DEF WriterOK
<1>9. WriterOK'
  BY <1>1, <1>8 DEF WriterOK, wvars, calls
<1>10. ReaderOK'
  BY <1>1 DEF ReaderOK, TypeOK
<1>11. QED
  BY <1>6, <1>7, <1>9, <1>10

\* The reader returns the message of its head.
LEMMA PopTakeStep ==
    ASSUME IInv, PopTake
    PROVE  Order' /\ SlotOrder' /\ LockOK' /\ WriterOK' /\ ReaderOK' /\ Filled'
<1> USE DEF IInv
<1>1. /\ UNCHANGED <<data, wvars, rData, rRead, rExch, rCommit, svars, calls>>
      /\ Avail > 0 /\ last' = 1 /\ got' = data[rData] /\ rpc' = "out"
  BY DEF PopTake, RGoto
<1>2. Order' /\ SlotOrder' /\ LockOK' /\ WriterOK' /\ Filled'
  BY <1>1 DEF Order, SlotOrder, LockOK, Inside, WriterOK, Filled, D, Unconfirmed, wvars, svars, calls
<1>3. D(rRead) < D(rExch)
  BY <1>1, Distances
<1>4. ReaderOK'
  BY <1>1, <1>3 DEF ReaderOK, D
<1>5. QED
  BY <1>2, <1>4

\* The reader loads the writers' cursor, published (wake) or not (steal).
LEMMA PopLoadStep ==
    ASSUME IInv, PopWake \/ PopSteal
    PROVE  Order' /\ SlotOrder' /\ LockOK' /\ WriterOK' /\ ReaderOK' /\ Filled'
<1> USE DEF IInv
<1>1. /\ UNCHANGED <<data, wvars, rData, rRead, rCommit, last, sWrite, calls, got>>
      /\ \/ rExch' = sRead /\ sRead' = sRead
         \/ rExch' = wWrite /\ sRead' = wWrite
      /\ rpc # "out"
  BY DEF PopWake, PopSteal, RGoto, svars
<1>2. /\ D(rRead)' = D(rRead) /\ D(wWrite)' = D(wWrite) /\ D(wExch)' = D(wExch)
      /\ \/ D(rExch)' = D(sRead) /\ D(sRead)' = D(sRead)
         \/ D(rExch)' = D(wWrite) /\ D(sRead)' = D(wWrite)
  BY <1>1 DEF D, wvars
<1>3. Order'
  BY <1>1, <1>2, Distances DEF Order
<1>4. SlotOrder' /\ Filled' /\ LockOK'
  BY <1>1 DEF SlotOrder, Filled, Unconfirmed, LockOK, Inside, wvars, calls
<1>5. WriterOK'
  BY <1>1, <1>2 DEF WriterOK, wvars, calls
<1>6. ReaderOK'
  BY <1>1 DEF ReaderOK, TypeOK
<1>7. QED
  BY <1>3, <1>4, <1>5, <1>6

\* Steps of the reader that change only where it is.
LEMMA QuietReaderStep ==
    ASSUME IInv, PopWait \/ PopNothing \/ UNCHANGED vars
    PROVE  Order' /\ SlotOrder' /\ LockOK' /\ WriterOK' /\ ReaderOK' /\ Filled'
<1> USE DEF IInv
<1>1. /\ UNCHANGED <<data, wvars, rvars, svars, calls, got>>
      /\ last = 1 => rpc' = rpc
  BY DEF PopWait, PopNothing, RGoto, vars, ReaderOK
<1>2. QED
  BY <1>1 DEF Order, SlotOrder, LockOK, Inside, WriterOK, ReaderOK, Filled, D, Unconfirmed,
     wvars, rvars, svars, calls

\* Every step preserves the invariant.
LEMMA NextInv == IInv /\ [Next]_vars => IInv'
<1> SUFFICES ASSUME IInv, [Next]_vars PROVE IInv'
  OBVIOUS
<1>1. TypeOK'
  BY TypeStep DEF IInv
<1>2. Order' /\ SlotOrder' /\ LockOK' /\ WriterOK' /\ ReaderOK' /\ Filled'
  BY QuietWriterStep, ReloadStep, StoreStep, CommitStep, CommitSyncStep, PopCallStep,
     PopSyncStep, PopTakeStep, PopLoadStep, QuietReaderStep DEF Next, Writer, ReaderStep
<1>3. QED
  BY <1>1, <1>2 DEF IInv

\* The inductive invariant holds of the ring.
THEOREM Invariance == Spec => []IInv
BY InitInv, NextInv, PTL DEF Spec

(* Type correctness: cursors stay in the range of uint32_t, slot indices     *)
(* inside the ring, and the control of ring.c in its known states.           *)
THEOREM TypeCorrect == Spec => []TypeOK
<1>1. IInv => TypeOK
  BY DEF IInv
<1>2. QED
  BY Invariance, <1>1, PTL

(* A store never hits a slot whose message was not returned and confirmed,   *)
(* and at most one writer is between begin and the end of commit: for every  *)
(* number of writers, every size and every cursor width.                     *)
THEOREM StoresAreExclusive == Spec => []StoreIsExclusive
<1>1. ASSUME IInv PROVE StoreIsExclusive
  <2>1. SUFFICES ASSUME NEW p \in Producers, wpc[p] = "store"
                 PROVE  /\ \A k \in 0 .. Size - 1 : k < Unconfirmed => SlotAdd(rData, k) # wData
                        /\ \A q \in Producers : Inside(q) => q = p
    BY DEF StoreIsExclusive
  <2>2. Unconfirmed < Size /\ Unconfirmed \in Nat
    BY <1>1, <2>1, Distances, SizeAssumption DEF IInv, WriterOK, Order
  <2>3. \A k \in 0 .. Size - 1 : k < Unconfirmed => SlotAdd(rData, k) # wData
    BY <1>1, <2>2, SlotApart, SizeAssumption DEF IInv, SlotOrder, TypeOK
  <2>4. Inside(p)
    BY <2>1 DEF Inside
  <2>5. QED
    BY <1>1, <2>3, <2>4, OneInside DEF IInv
<1>2. QED
  BY Invariance, <1>1, PTL

(* The reader never returns what no writer has committed.                    *)
THEOREM ReadsAreCommitted == Spec => []ReadsOnlyCommitted
<1>1. ASSUME IInv PROVE ReadsOnlyCommitted
  <2>1. Avail <= Unconfirmed
    BY <1>1, Distances DEF IInv
  <2>2. QED
    BY <1>1, <2>1, NoMsgAssumption DEF IInv, Filled, ReadsOnlyCommitted, Message
<1>2. QED
  BY Invariance, <1>1, PTL

-----------------------------------------------------------------------------
(* Implementation of the queue.                                              *)

\* The messages not returned yet are those not confirmed, save the one in use.
LEMMA UnreadFacts ==
    IInv => /\ Unread = Unconfirmed - last
            /\ Unread \in 0 .. Size /\ last + Unread <= Size
<1> SUFFICES ASSUME IInv
             PROVE  /\ Unread = Unconfirmed - last
                    /\ Unread \in 0 .. Size /\ last + Unread <= Size
  OBVIOUS
<1> USE DEF IInv
<1>1. Unconfirmed \in 0 .. Size /\ last \in {0, 1} /\ (last = 1 => Unconfirmed \in 1 .. Size)
  BY Distances DEF TypeOK, ReaderOK
<1>2. CASE last = 0
  <2>1. IdxAdd(rRead, last) = rRead
    BY <1>2, IdxAssumption DEF IdxAdd, Idx, TypeOK
  <2>2. Unread = Unconfirmed
    BY <2>1 DEF Unread, Unconfirmed
  <2>3. QED
    BY <1>1, <1>2, <2>2
<1>3. CASE last = 1
  <2>1. D(rRead) < D(rExch) /\ D(rExch) <= Size /\ D(rRead) \in Nat /\ D(rExch) \in Nat
    BY <1>3, Distances, SizeAssumption DEF ReaderOK, Order
  <2>2. D(IdxAdd(rRead, 1)) = D(rRead) + 1
    BY <2>1, SubSucc, SizeAssumption, IdxAssumption DEF D, TypeOK
  <2>3. D(IdxAdd(rRead, 1)) <= D(wWrite)
    BY <2>1, <2>2, Distances DEF Order
  <2>4. IdxAdd(rRead, 1) \in Idx /\ wWrite \in Idx /\ rCommit \in Idx
    <3>1. 1 \in Idx
      BY SizeAssumption, IdxAssumption DEF Idx
    <3>2. rRead \in Idx /\ wWrite \in Idx /\ rCommit \in Idx
      BY DEF TypeOK
    <3>3. QED
      BY <3>1, <3>2, AddType
  <2>5. Unread = D(wWrite) - D(IdxAdd(rRead, 1))
    BY <1>3, <2>3, <2>4, SubDiff DEF Unread, D
  <2>6. Unread = Unconfirmed - 1
    BY <2>2, <2>5, Distances
  <2>7. QED
    BY <1>1, <1>3, <2>6, SizeAssumption
<1>4. QED
  BY <1>2, <1>3 DEF TypeOK

\* What waits in the ring, as a sequence.
LEMMA WaitingFacts ==
    ASSUME IInv
    PROVE  /\ Unread = Unconfirmed - last
           /\ Unread \in 0 .. Size /\ last + Unread <= Size
           /\ Waiting \in Seq(Message) /\ Len(Waiting) = Unread
<1> USE DEF IInv
<1>1. /\ Unread = Unconfirmed - last
      /\ Unread \in 0 .. Size /\ last + Unread <= Size
  BY UnreadFacts
<1>2. Unconfirmed \in 0 .. Size /\ last \in {0, 1}
  BY Distances DEF TypeOK
<1>3. \A i \in 1 .. Unread : data[SlotAdd(rData, last + i - 1)] \in Message
  <2>1. SUFFICES ASSUME NEW i \in 1 .. Unread
                 PROVE  data[SlotAdd(rData, last + i - 1)] \in Message
    OBVIOUS
  <2>2. last + i - 1 \in 0 .. Size - 1 /\ last + i - 1 < Unconfirmed
    BY <1>1, <1>2, SizeAssumption
  <2>3. QED
    BY <2>2 DEF Filled
<1>4. QED
  BY <1>1, <1>3, SizeAssumption DEF Waiting

\* The tail of a sequence, element by element.
LEMMA TailFacts ==
    ASSUME NEW S, NEW s \in Seq(S), NEW n \in Nat, Len(s) = n + 1
    PROVE  Tail(s) = [i \in 1 .. n |-> s[i + 1]]
<1>1. s # <<>>
  OBVIOUS
<1>2. /\ Tail(s) \in Seq(S) /\ Len(Tail(s)) = n
      /\ \A i \in 1 .. Len(Tail(s)) : Tail(s)[i] = s[i + 1]
  BY <1>1, HeadTailProperties
<1>3. Tail(s) = [i \in 1 .. Len(Tail(s)) |-> Tail(s)[i]]
  BY <1>2, LenProperties
<1>4. QED
  BY <1>2, <1>3

\* Steps that touch neither the slots, the heads nor the calls' arguments.
LEMMA StutterStep ==
    ASSUME UNCHANGED <<data, wWrite, rRead, rData, last, msg, got>>
    PROVE  UNCHANGED Q!qvars
BY DEF Q!qvars, Waiting, Unread

\* The call of push.
LEMMA PushCallQ ==
    ASSUME IInv, NEW p \in Producers, PushCall(p)
    PROVE  Q!CallPush(p, <<p, seq[p]>>) /\ <<p, seq[p]>> \in Message
<1>1. msg[p] = NoMsg
  BY DEF PushCall, Goto, IInv, WriterOK
<1>2. <<p, seq[p]>> \in Message
  BY DEF IInv, TypeOK, Message
<1>3. Waiting' = Waiting
  BY DEF PushCall, Waiting, Unread, wvars, rvars
<1>4. QED
  BY <1>1, <1>2, <1>3 DEF PushCall, Q!CallPush

\* The store does not touch the messages that wait.
LEMMA StoreQ ==
    ASSUME IInv, NEW p \in Producers, Store(p)
    PROVE  UNCHANGED Q!qvars
<1>1. /\ UNCHANGED <<wvars, rvars, msg, got>> /\ data' = [data EXCEPT ![wData] = msg[p]]
      /\ wpc[p] = "store"
  BY DEF Store, Goto
<1>2. Unconfirmed < Size /\ Unconfirmed \in Nat
  BY <1>1, Distances, SizeAssumption DEF IInv, WriterOK, Order
<1>3. \A i \in 1 .. Unread : data'[SlotAdd(rData, last + i - 1)] = data[SlotAdd(rData, last + i - 1)]
  <2>1. SUFFICES ASSUME NEW i \in 1 .. Unread
                 PROVE  data'[SlotAdd(rData, last + i - 1)] = data[SlotAdd(rData, last + i - 1)]
    OBVIOUS
  <2>2. last + i - 1 \in 0 .. Size /\ last + i - 1 < Unconfirmed
    BY <1>2, WaitingFacts, SizeAssumption DEF IInv, TypeOK
  <2>3. SlotAdd(rData, last + i - 1) # wData
    BY <1>2, <2>2, SlotApart, SizeAssumption DEF IInv, TypeOK, SlotOrder
  <2>4. QED
    BY <1>1, <2>2, <2>3, SlotType DEF IInv, TypeOK
<1>4. Unread' = Unread /\ rData' = rData /\ last' = last
  BY <1>1 DEF Unread, wvars, rvars
<1>5. Waiting' = Waiting
  BY <1>3, <1>4 DEF Waiting
<1>6. QED
  BY <1>1, <1>5 DEF Q!qvars

\* The fetch-and-add enqueues.
LEMMA CommitQ ==
    ASSUME IInv, IInv', NEW p \in Producers, Commit(p)
    PROVE  Q!Enqueue(p)
<1>1. /\ UNCHANGED <<data, rvars, got>> /\ wpc[p] = "commit"
      /\ wWrite' = IdxAdd(wWrite, 1) /\ msg' = [msg EXCEPT ![p] = NoMsg]
  BY DEF Commit, Goto
<1>2. msg[p] \in Message /\ data[wData] = msg[p] /\ msg[p] # NoMsg
  BY <1>1, NoMsgAssumption DEF IInv, WriterOK, Message
<1>3. D(wWrite) < D(wExch) /\ D(wWrite) \in Nat /\ D(wExch) \in Nat /\ D(wExch) <= Size
  BY <1>1, Distances DEF IInv, WriterOK, Order
<1>4. Unconfirmed \in 0 .. Size - 1
  BY <1>3, Distances, SizeAssumption DEF IInv
<1>5. Unconfirmed' = Unconfirmed + 1
  <2>1. Unconfirmed < IdxMod - 1
    BY <1>4, IdxAssumption, SizeAssumption
  <2>2. QED
    BY <1>1, <2>1, SubSucc DEF Unconfirmed, rvars, IInv, TypeOK
<1>6. last' = last /\ rData' = rData /\ last \in {0, 1}
  BY <1>1 DEF rvars, IInv, TypeOK
<1>7. Unread' = Unconfirmed' - last' /\ Unread = Unconfirmed - last /\ Unread \in 0 .. Size
      /\ Waiting \in Seq(Message) /\ Len(Waiting) = Unread
  <2>1. (IInv => Unread = Unconfirmed - last)'
    BY UnreadFacts, PTL
  <2>2. QED
    BY <2>1, WaitingFacts
<1>8. Unread' = Unread + 1
  BY <1>4, <1>5, <1>6, <1>7
<1>9. SlotAdd(rData, last + Unread) = wData
  BY <1>4, <1>6, <1>7 DEF IInv, SlotOrder
<1>10. Waiting' = Append(Waiting, msg[p])
  <2>1. Waiting' = [i \in 1 .. Unread + 1 |-> data[SlotAdd(rData, last + i - 1)]]
    BY <1>1, <1>6, <1>8 DEF Waiting
  <2>2. data[SlotAdd(rData, last + (Unread + 1) - 1)] = msg[p]
    BY <1>2, <1>4, <1>6, <1>7, <1>9
  <2>3. QED
    BY <1>2, <1>7, <2>1, <2>2 DEF Waiting
<1>11. got # NoMsg => last = 1
  BY DEF IInv, ReaderOK, TypeOK
<1>12. QED
  <2>1. Len(Waiting) < Size /\ (got # NoMsg => Len(Waiting) + 1 < Size)
    BY <1>4, <1>6, <1>7, <1>11, SizeAssumption
  <2>2. QED
    BY <1>1, <1>2, <1>10, <2>1 DEF Q!Enqueue

\* A call of pop confirms the last message.
LEMMA PopCallQ ==
    ASSUME IInv, IInv', PopCall
    PROVE  Q!CallPop \/ UNCHANGED Q!qvars
<1>1. /\ UNCHANGED <<data, wvars, calls>> /\ got' = NoMsg /\ last' = 0
      /\ rData' = SlotAdd(rData, last) /\ rRead' = IdxAdd(rRead, last)
  BY DEF PopCall
<1>2. Unread' = Unread
  <2>1. IdxAdd(rRead', 0) = rRead'
    <3>1. rRead' \in Idx
      BY DEF IInv, TypeOK
    <3>2. QED
      BY <3>1, AddZero
  <2>2. QED
    BY <1>1, <2>1 DEF Unread, wvars
<1>3. Waiting' = Waiting
  <2>1. \A i \in 1 .. Unread : SlotAdd(rData', 0 + i - 1) = SlotAdd(rData, last + i - 1)
    <3>1. SUFFICES ASSUME NEW i \in 1 .. Unread
                   PROVE  SlotAdd(rData', 0 + i - 1) = SlotAdd(rData, last + i - 1)
      OBVIOUS
    <3>2. rData \in Slots /\ last \in {0, 1} /\ Unread \in 0 .. Size /\ last + Unread <= Size
      BY WaitingFacts DEF IInv, TypeOK
    <3>3. QED
      BY <1>1, <3>2, SizeAssumption DEF SlotAdd, Slots
  <2>2. QED
    BY <1>1, <1>2, <2>1 DEF Waiting
<1>4. QED
  BY <1>1, <1>3 DEF Q!CallPop, Q!qvars, calls

\* The return of pop dequeues.
LEMMA PopTakeQ ==
    ASSUME IInv, IInv', PopTake
    PROVE  Q!Dequeue
<1>1. /\ UNCHANGED <<data, wvars, rData, rRead, calls>>
      /\ Avail > 0 /\ last' = 1 /\ got' = data[rData] /\ rpc # "out"
  BY DEF PopTake, RGoto
<1>2. last = 0 /\ got = NoMsg
  BY <1>1 DEF IInv, ReaderOK, TypeOK
<1>3. Unconfirmed' = Unconfirmed
  BY <1>1 DEF Unconfirmed, wvars
<1>4. /\ Unread' = Unconfirmed' - last' /\ Unread = Unconfirmed - last
      /\ Unread \in 0 .. Size /\ Unread' \in 0 .. Size
      /\ Waiting \in Seq(Message) /\ Len(Waiting) = Unread
  <2>1. (IInv => Unread = Unconfirmed - last /\ Unread \in 0 .. Size)'
    BY UnreadFacts, PTL
  <2>2. QED
    BY <2>1, WaitingFacts
<1>5. Unread = Unread' + 1
  BY <1>1, <1>2, <1>3, <1>4, Distances, SizeAssumption DEF IInv
<1>6. Head(Waiting) = data[rData]
  <2>1. SlotAdd(rData, 0 + 1 - 1) = rData
    BY SizeAssumption DEF SlotAdd, Slots, IInv, TypeOK
  <2>2. Head(Waiting) = Waiting[1]
    BY <1>4, <1>5
  <2>3. QED
    BY <1>2, <1>4, <1>5, <2>1, <2>2 DEF Waiting
<1>7. Tail(Waiting) = Waiting'
  <2>1. Waiting' = [i \in 1 .. Unread' |-> data[SlotAdd(rData, 1 + i - 1)]]
    BY <1>1 DEF Waiting
  <2>2. Tail(Waiting) = [i \in 1 .. Unread' |-> Waiting[i + 1]]
    <3>1. Unread' \in Nat /\ Len(Waiting) = Unread' + 1
      BY <1>4, <1>5, SizeAssumption
    <3>2. QED
      BY <1>4, <3>1, TailFacts
  <2>3. \A i \in 1 .. Unread' : Waiting[i + 1] = data[SlotAdd(rData, 1 + i - 1)]
    <3>1. SUFFICES ASSUME NEW i \in 1 .. Unread'
                   PROVE  Waiting[i + 1] = data[SlotAdd(rData, 1 + i - 1)]
      OBVIOUS
    <3>2. i + 1 \in 1 .. Unread /\ last + (i + 1) - 1 = 1 + i - 1
      BY <1>2, <1>4, <1>5
    <3>3. QED
      BY <3>2 DEF Waiting
  <2>4. QED
    BY <2>1, <2>2, <2>3
<1>8. QED
  BY <1>1, <1>2, <1>4, <1>5, <1>6, <1>7 DEF Q!Dequeue, calls

(* The ring buffer of ring.c implements the bounded FIFO queue of ring.h.    *)
THEOREM RingIsQueue == Spec => ImplementsQueue
<1>1. Init => Q!QInit
  <2>1. SUFFICES ASSUME Init PROVE Q!QInit
    OBVIOUS
  <2>2. IInv
    BY <2>1, InitInv
  <2>3. Unread = 0
    <3>1. wWrite = 0 /\ rRead = 0 /\ last = 0
      BY <2>1 DEF Init
    <3>2. 0 \in Idx
      BY IdxAssumption, SizeAssumption DEF Idx
    <3>3. QED
      BY <3>1, <3>2, AddZero, SubZero DEF Unread
  <2>4. Waiting = <<>>
    BY <2>2, <2>3, WaitingFacts
  <2>5. QED
    BY <2>1, <2>4 DEF Init, Q!QInit
<1>2. ASSUME IInv, IInv', [Next]_vars PROVE [Q!QNext]_Q!qvars
  <2>1. ASSUME NEW p \in Producers, Writer(p) PROVE [Q!QNext]_Q!qvars
    <3>1. CASE PushCall(p)
      BY <1>2, <3>1, PushCallQ DEF Q!QNext
    <3>2. CASE Commit(p)
      BY <1>2, <3>2, CommitQ DEF Q!QNext
    <3>3. CASE Store(p)
      BY <1>2, <3>3, StoreQ
    <3>4. CASE PushLock(p) \/ BeginHasSpace(p) \/ BeginSync(p) \/ FullWake(p) \/ CommitSync(p)
               \/ PushUnlock(p)
      BY <3>4, StutterStep DEF PushLock, BeginHasSpace, BeginSync, FullWake, CommitSync,
         PushUnlock, wvars, rvars
    <3>5. QED
      BY <2>1, <3>1, <3>2, <3>3, <3>4 DEF Writer
  <2>2. ASSUME ReaderStep PROVE [Q!QNext]_Q!qvars
    <3>1. CASE PopCall
      BY <1>2, <3>1, PopCallQ DEF Q!QNext
    <3>2. CASE PopTake
      BY <1>2, <3>2, PopTakeQ DEF Q!QNext
    <3>3. CASE PopSync \/ PopWait \/ PopWake \/ PopNothing \/ PopSteal
      BY <3>3, StutterStep DEF PopSync, PopWait, PopWake, PopNothing, PopSteal, wvars, rvars, calls
    <3>4. QED
      BY <2>2, <3>1, <3>2, <3>3 DEF ReaderStep
  <2>3. CASE UNCHANGED vars
    BY <2>3, StutterStep DEF vars, wvars, rvars, calls
  <2>4. QED
    BY <1>2, <2>1, <2>2, <2>3 DEF Next
<1>3. QED
  BY <1>1, <1>2, Invariance, PTL DEF Spec, ImplementsQueue, Q!QSpec
=============================================================================
