----------------------------- MODULE KafkaOutput -----------------------------
(* The JSON output to Kafka (Kafka.cpp): records are queued by librdkafka    *)
(* until a report of their delivery is polled for, which a thread does while *)
(* the plugin runs.  Errors of the same kind are counted and printed once.   *)
EXTENDS Integers, FiniteSets, FiniteSetsExt

CONSTANTS QueueMax,             \* of messages without a polled report
          MaxProduced           \* bound: records

Errors == {"full", "other"}

VARIABLES
    waits,          \* RD_KAFKA_MSG_F_BLOCK
    produced,       \* records so far
    plugin,         \* "idle", "produce", "stop", "flush", "end"
    poller,         \* "poll", "round" or "end"
    outstanding,    \* records queued, without an answer
    answered,       \* and those with a report that is not polled: [rec, ok]
    deliveries,     \* cnt_delivered and cnt_failed: by ok
    printed,        \* what the statistics have printed: by ok
    served,         \* reports polled, of both: by ok
    error,          \* m_err_type, "none" for no error, and m_err_cnt
    refusals,       \* records refused: by kind of error
    told            \* and those in printed errors: by kind
kafkaVars == <<waits, produced, plugin, poller, outstanding, answered, deliveries, printed,
               served, error, refusals, told>>

NoError == [type |-> "none", count |-> 0]
Zero == [ok \in BOOLEAN |-> 0]
Init ==
    /\ waits \in BOOLEAN /\ produced = 0 /\ plugin = "idle" /\ poller = "poll"
    /\ outstanding = {} /\ answered = {} /\ deliveries = Zero /\ printed = Zero /\ served = Zero
    /\ error = NoError /\ refusals = [e \in Errors |-> 0] /\ told = [e \in Errors |-> 0]

pollVars == <<deliveries, printed, served>>
errorVars == <<error, refusals, told>>
Queued == Cardinality(outstanding) + Cardinality(answered)

-----------------------------------------------------------------------------
(* The plugin.                                                               *)

\* produce_error.
MUT_Printed(e) == told
Printed(e) == IF e.count = 0 THEN told ELSE [told EXCEPT ![e.type] = @ + e.count]

\* Every error of another kind, and any call a second after the last printed
\* one, prints what was counted; a success only if there were errors.
Produced(kind, second) ==
    IF kind = "none" /\ error.count = 0 THEN UNCHANGED errorVars
    ELSE LET before == IF kind \notin {"none", error.type} THEN Printed(error) ELSE told
             now == IF kind = "none" THEN error
                    ELSE IF kind = error.type THEN [error EXCEPT !.count = @ + 1]
                    ELSE [type |-> kind, count |-> 1]
         IN /\ refusals' = IF kind = "none" THEN refusals ELSE [refusals EXCEPT ![kind] = @ + 1]
            /\ IF second THEN /\ told' = [before EXCEPT ![now.type] = @ + now.count]
                              /\ error' = NoError
               ELSE told' = before /\ error' = now

Enqueue ==
    /\ Queued < QueueMax /\ outstanding' = outstanding \cup {produced'}
    /\ plugin' = "idle" /\ \E second \in BOOLEAN : Produced("none", second)
Refuse ==
    \E kind \in IF Queued < QueueMax \/ waits THEN {"other"} ELSE Errors, second \in BOOLEAN :
        /\ Produced(kind, second) /\ plugin' = "idle" /\ UNCHANGED outstanding
Process ==
    /\ plugin = "idle" /\ produced < MaxProduced /\ produced' = produced + 1
    /\ \/ Enqueue
       \/ Refuse
       \/ Queued = QueueMax /\ waits /\ plugin' = "produce" /\ UNCHANGED <<outstanding, errorVars>>
    /\ UNCHANGED <<waits, poller, answered, pollVars>>
\* A call that waits goes on when there is room.
Resume ==
    /\ plugin = "produce" /\ UNCHANGED produced /\ Enqueue
    /\ UNCHANGED <<waits, poller, answered, pollVars>>

-----------------------------------------------------------------------------
(* Brokers answer, or the time of a message is up; reports come in any order. *)
Answer ==
    /\ \E rec \in outstanding, ok \in BOOLEAN :
          /\ outstanding' = outstanding \ {rec} /\ answered' = answered \cup {[rec |-> rec, ok |-> ok]}
    /\ UNCHANGED <<waits, produced, plugin, poller, pollVars, errorVars>>

\* thread_cb_delivery.
Deliver(report) ==
    /\ answered' = answered \ {report}
    /\ deliveries' = [deliveries EXCEPT ![report.ok] = @ + 1]
    /\ served' = [served EXCEPT ![report.ok] = @ + 1]
    /\ UNCHANGED <<outstanding, printed>>

\* The thread: a poll serves reports, then a second may be over.
Poll ==
    /\ poller = "poll" /\ \E report \in answered : Deliver(report)
    /\ UNCHANGED <<waits, produced, plugin, poller, errorVars>>
MUT_Statistics ==
    /\ poller = "poll" /\ poller' = "round"
    /\ \E second \in BOOLEAN :
         IF second THEN printed' = [ok \in BOOLEAN |-> printed[ok] + deliveries[ok]] /\ UNCHANGED deliveries
         ELSE UNCHANGED <<printed, deliveries>>
    /\ UNCHANGED <<waits, produced, plugin, outstanding, answered, served, errorVars>>
Statistics ==
    /\ poller = "poll" /\ poller' = "round"
    /\ \E second \in BOOLEAN :
         IF second THEN printed' = [ok \in BOOLEAN |-> printed[ok] + deliveries[ok]] /\ deliveries' = Zero
         ELSE UNCHANGED <<printed, deliveries>>
    /\ UNCHANGED <<waits, produced, plugin, outstanding, answered, served, errorVars>>
Round ==
    /\ poller = "round" /\ poller' = IF plugin = "stop" THEN "end" ELSE "poll"
    /\ UNCHANGED <<waits, produced, plugin, outstanding, answered, pollVars, errorVars>>

-----------------------------------------------------------------------------
(* The destructor: the thread is joined, then reports are polled here until  *)
(* none is outstanding or the time for it is up.                             *)
Stop ==
    /\ plugin = "idle" /\ plugin' = "stop"
    /\ UNCHANGED <<waits, produced, poller, outstanding, answered, pollVars, errorVars>>
Join ==
    /\ plugin = "stop" /\ poller = "end" /\ plugin' = "flush"
    /\ UNCHANGED <<waits, produced, poller, outstanding, answered, pollVars, errorVars>>
Flush ==
    /\ plugin = "flush" /\ \E report \in answered : Deliver(report)
    /\ UNCHANGED <<waits, produced, plugin, poller, errorVars>>
Destroy ==
    /\ plugin = "flush" /\ plugin' = "end"
    /\ UNCHANGED <<waits, produced, poller, outstanding, answered, pollVars, errorVars>>
Done == plugin = "end" /\ UNCHANGED kafkaVars

Next == Process \/ Resume \/ Answer \/ Poll \/ Statistics \/ Round
        \/ Stop \/ Join \/ Flush \/ Destroy \/ Done
Spec == Init /\ [][Next]_kafkaVars

-----------------------------------------------------------------------------
(* Every record is queued, reported on once or refused; what was refused is    *)
(* printed by its kind, but for the errors of the last second, and what was  *)
(* reported by its outcome, but for the reports since the last statistics    *)
(* (Kafka.cpp: process, thread_polling).                                     *)
KafkaAccounted ==
    /\ produced = Queued + served[TRUE] + served[FALSE] + refusals["full"] + refusals["other"]
                  + (IF plugin = "produce" THEN 1 ELSE 0)
    /\ \A ok \in BOOLEAN : served[ok] = printed[ok] + deliveries[ok]
    /\ \A e \in Errors : refusals[e] = told[e] + (IF error.type = e THEN error.count ELSE 0)
    /\ waits => refusals["full"] = 0

(* A call that waits for room is served by the thread (Kafka.cpp: "It also   *)
(* makes sure that the producer can work in blocking mode").                 *)
WaitsForThread == plugin = "produce" => poller # "end"
=============================================================================
