----------------------------- MODULE SyslogOutput -----------------------------
(* The JSON output to syslog (Syslog.cpp, SyslogSocket.cpp): a record goes to *)
(* one host by TCP, blocking or not, or by UDP.  A record has Size units, its *)
(* length in front included; a socket may take any part of one.  What a      *)
(* non-blocking socket does not take waits in a buffer.                      *)
EXTENDS Integers, Sequences, SequencesExt

CONSTANTS Size, MaxLogs         \* bound: records

VARIABLES
    transport,      \* "blocking", "nonblocking" or "datagram"
    logged,         \* records so far
    up,             \* m_fd >= 0
    recent,         \* the last attempt to connect was less than RECONN_DELAY ago
    buffer,         \* m_buffer: the units of a record that are to be sent
    wire,           \* the units that the present connection has taken
    gone,           \* records of which a connection before has taken a unit
    counted,        \* records counted as sent on the present connection
    dropped         \* and those counted as dropped
syslogVars == <<transport, logged, up, recent, buffer, wire, gone, counted, dropped>>

Units(rec) == [n \in 1 .. Size |-> [rec |-> rec, unit |-> n]]
Records(units) == {u.rec : u \in ToSet(units)}

Init ==
    /\ transport \in {"blocking", "nonblocking", "datagram"} /\ logged = 0
    /\ up \in BOOLEAN /\ recent = TRUE
    /\ buffer = <<>> /\ wire = <<>> /\ gone = {} /\ counted = {} /\ dropped = {}

-----------------------------------------------------------------------------
(* What sending may do: how many units are taken, and what happens then.  A  *)
(* datagram is taken as a whole or not at all; only a blocking socket is     *)
(* never full.                                                               *)
Sendings(units) ==
    LET short == IF transport = "datagram" THEN {0} ELSE 0 .. Len(units) - 1
        ends == IF transport = "blocking" THEN {"failed"} ELSE {"failed", "full"}
    IN IF units = <<>> THEN {[taken |-> 0, then |-> "ok"]}
       ELSE {[taken |-> Len(units), then |-> "ok"]} \cup [taken : short, then : ends]
Taken(units, n) == SubSeq(units, 1, n)
Rest(units, n) == SubSeq(units, n + 1, Len(units))

\* The rest of a record is buffered, and the record is sent then.
Keeps == {"nonblocking"}
WriteRecord(rec, on) ==
    {LET kept == t.then = "full" /\ transport \in Keeps
     IN [wire |-> on \o Taken(Units(rec), t.taken),
         buffer |-> IF kept THEN Rest(Units(rec), t.taken) ELSE <<>>,
         then |-> IF kept THEN "ok" ELSE t.then] : t \in Sendings(Units(rec))}

\* The buffer goes first; while some of it is left, the record is not sent.
MUT_Write(rec, waiting, on) ==
    UNION {LET flushed == on \o Taken(waiting, t.taken)
           IN IF t.then # "failed" THEN WriteRecord(rec, flushed)
              ELSE {[wire |-> flushed, buffer |-> Rest(waiting, t.taken), then |-> t.then]} :
           t \in Sendings(waiting)}
Write(rec, waiting, on) ==
    UNION {LET flushed == on \o Taken(waiting, t.taken)
           IN IF t.then = "ok" THEN WriteRecord(rec, flushed)
              ELSE {[wire |-> flushed, buffer |-> Rest(waiting, t.taken), then |-> t.then]} :
           t \in Sendings(waiting)}

\* A failure closes the socket; the buffer is left until the next connection.
Send(rec, waiting, on, before) ==
    \E w \in Write(rec, waiting, on) :
        /\ up' = (w.then # "failed") /\ buffer' = w.buffer /\ wire' = w.wire
        /\ counted' = IF w.then = "ok" THEN before \cup {rec} ELSE before
        /\ dropped' = IF w.then = "full" THEN dropped \cup {rec} ELSE dropped

MUT_Opened == buffer
Opened == <<>>

\* Without a connection a record is dropped unless it is time to try again.
Process ==
    LET rec == logged + 1
        Drop == dropped' = dropped \cup {rec} /\ UNCHANGED <<up, wire, gone, counted>>
    IN  /\ logged < MaxLogs /\ logged' = rec
        /\ \E soon \in {recent, FALSE} :
             \/ up /\ recent' = soon /\ Send(rec, buffer, wire, counted) /\ UNCHANGED gone
             \/ ~up /\ soon /\ recent' = TRUE /\ Drop /\ UNCHANGED buffer
             \/ ~up /\ ~soon /\ recent' = TRUE
                /\ \/ Drop /\ buffer' = Opened
                   \/ gone' = gone \cup Records(wire) /\ Send(rec, Opened, <<>>, {})
        /\ UNCHANGED transport

Done == logged = MaxLogs /\ UNCHANGED syslogVars
Next == Process \/ Done
Spec == Init /\ [][Next]_syslogVars

-----------------------------------------------------------------------------
(* Every connection gets whole records, in order, a last one that may be cut *)
(* included, and none of which another connection got some (syslog by TCP is *)
(* read by the lengths in front of the records, SyslogSocket.cpp).           *)
SyslogFramed ==
    /\ \A n \in DOMAIN wire : wire[n].unit = ((n - 1) % Size) + 1
    /\ \A n \in 2 .. Len(wire) :
          IF wire[n].unit = 1 THEN wire[n].rec > wire[n - 1].rec ELSE wire[n].rec = wire[n - 1].rec
    /\ Records(wire) \cap gone = {}

(* A record that counts as sent is on its way as long as the connection      *)
(* lives, in order and the buffer included; of one dropped nothing was sent  *)
(* (Syslog.cpp: process).                                                    *)
SyslogCounted ==
    /\ up => wire \o buffer = FlattenSeq([n \in 1 .. Len(SetToSortSeq(counted, <)) |->
                                             Units(SetToSortSeq(counted, <)[n])])
    /\ dropped \cap (counted \cup gone \cup Records(wire)) = {}

SyslogExact == SyslogFramed /\ SyslogCounted
=============================================================================
