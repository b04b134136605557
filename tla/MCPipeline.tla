----------------------------- MODULE MCPipeline -----------------------------
(* Instances of Pipeline for TLC; and the same with periodic messages whose  *)
(* allocation may fail, in a build without assertions, where the collector   *)
(* may hang.  A behaviour is one of either.                                  *)
EXTENDS Pipeline

CONSTANT Scarcity
VARIABLE scarce   \* memory is

Scarce == INSTANCE Pipeline WITH MaxData <- 0, MaxPeriodic <- 1, AllocFails <- TRUE,
                                 Asserts <- FALSE
McInit == scarce \in Scarcity /\ IF scarce THEN Scarce!Init ELSE Init
McNext ==
    /\ UNCHANGED scarce
    /\ \/ ~scarce /\ Next
       \/ scarce /\ (Scarce!Next \/ UNCHANGED vars)
McSpec == McInit /\ [][McNext]_<<vars, scarce>>
McFairSpec == McSpec /\ Fairness

\* Every output takes everything.
WantAll == [o \in 1 .. NOut |-> 1 .. NIn]

\* The second output takes nothing from the first input.
WantSome == [o \in 1 .. NOut |-> IF o = 2 THEN (1 .. NIn) \ {1} ELSE 1 .. NIn]

\* Instances whose plugin may ask for termination.
Nobody == {}
InputOnly == {<<"in", 1>>}
Late == {<<"inter", 1>>, <<"out", 1>>}
FirstInter == {<<"inter", 1>>}
Anybody == {<<"in", 1>>, <<"inter", 1>>, <<"out", 1>>}

(* DoneIsComplete, when the periodic messages can be allocated: the end of   *)
(* the termination is counted by messages of all inputs.                     *)
MergedDoneIsComplete == ~scarce => DoneIsComplete
=============================================================================
