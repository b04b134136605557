------------------------------ MODULE RingQueue ------------------------------
(* What ring.h promises to the pipeline: a bounded multi-producer            *)
(* single-consumer FIFO queue of message pointers.  A push and a pop are     *)
(* calls that may block; each takes effect at one instant between the call   *)
(* and the return.  The message the consumer got last still counts against   *)
(* the capacity until the consumer calls pop again.                          *)
EXTENDS Naturals, Sequences

CONSTANTS
    Producers,   \* threads that push
    Msg,         \* messages
    NoMsg,       \* "no pointer"
    Size         \* capacity, in pointers

VARIABLES
    queue,       \* messages pushed and not yet popped, oldest first
    pending,     \* per producer, the message of the push in progress
    held         \* the message the consumer works on

qvars == <<queue, pending, held>>

QInit ==
    /\ queue = <<>>
    /\ pending = [p \in Producers |-> NoMsg]
    /\ held = NoMsg

\* A producer calls ipx_ring_push(ring, m).
CallPush(p, m) ==
    /\ pending[p] = NoMsg
    /\ pending' = [pending EXCEPT ![p] = m]
    /\ UNCHANGED <<queue, held>>

\* The message enters the queue: nothing is overwritten.
Enqueue(p) ==
    /\ pending[p] # NoMsg
    /\ Len(queue) < Size
    /\ held # NoMsg => Len(queue) + 1 < Size
    /\ queue' = Append(queue, pending[p])
    /\ pending' = [pending EXCEPT ![p] = NoMsg]
    /\ UNCHANGED held

\* The consumer calls ipx_ring_pop(ring): it has processed the last message.
CallPop ==
    /\ held # NoMsg
    /\ held' = NoMsg
    /\ UNCHANGED <<queue, pending>>

\* The consumer gets the oldest message.
Dequeue ==
    /\ held = NoMsg
    /\ queue # <<>>
    /\ held' = Head(queue)
    /\ queue' = Tail(queue)
    /\ UNCHANGED pending

QNext ==
    \/ \E p \in Producers, m \in Msg : CallPush(p, m)
    \/ \E p \in Producers : Enqueue(p)
    \/ CallPop
    \/ Dequeue

QSpec == QInit /\ [][QNext]_qvars
=============================================================================
