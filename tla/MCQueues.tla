------------------------------ MODULE MCQueues ------------------------------
(* Instances for TLC of the two queues that several threads write to: a      *)
(* behaviour is one of the feedback pipe, written to by the parser and the   *)
(* configurator, or one of a ring with two writers that share its spin lock. *)
(* The variables of the other queue stay as they are.                        *)
EXTENDS FeedbackPipe

CONSTANTS NSeq, Size, IdxMod

VARIABLES kind,
    data, wData, wWrite, wExch, wCommit, rData, rRead, rExch, rCommit, last, sWrite, sRead,
    wLock, wpc, pushed, seq, rpc, popped

ringVars == <<data, wData, wWrite, wExch, wCommit, rData, rRead, rExch, rCommit, last, sWrite,
              sRead, wLock, wpc, pushed, seq, rpc, popped>>

Two == INSTANCE Ring WITH
    Producers <- Writers, MwMode <- TRUE, lock <- wLock, msg <- pushed, got <- popped

SumInit == kind \in {"pipe", "ring"} /\ Init /\ Two!Init

SumNext ==
    /\ UNCHANGED kind
    /\ \/ kind = "pipe" /\ Next /\ UNCHANGED ringVars
       \/ kind = "ring" /\ Two!Next /\ UNCHANGED vars

\* The fairness of each queue, in its own behaviours.
sumVars == <<kind, vars, ringVars>>
OfPipe(A) == kind = "pipe" /\ A /\ UNCHANGED <<kind, ringVars>>
OfRing(A) == kind = "ring" /\ A /\ UNCHANGED <<kind, vars>>

SumSpec ==
    /\ SumInit /\ [][SumNext]_sumVars
    /\ WF_sumVars(OfRing(Two!ReaderStep))
    /\ \A w \in Writers : WF_sumVars(OfRing(Two!WriterStep(w)))
    /\ WF_sumVars(OfPipe(ReaderStep)) /\ SF_sumVars(OfPipe(Lock(Reader)))
    /\ \A w \in Writers : WF_sumVars(OfPipe(Load(w))) /\ WF_sumVars(OfPipe(Count(w)))
    /\ \A w \in Writers : SF_sumVars(OfPipe(Write(w))) /\ SF_sumVars(OfPipe(Lock(w)))

-----------------------------------------------------------------------------
(* With two writers the ring is still a bounded FIFO queue, no slot is       *)
(* overwritten or read before its commit, and the reader is never stuck.     *)
TwoWriters ==
    /\ Two!ImplementsQueue
    /\ [](Two!StoreIsExclusive /\ Two!ReadsOnlyCommitted)
    /\ Two!ReaderNotStuck
=============================================================================
