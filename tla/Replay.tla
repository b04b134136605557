------------------------------- MODULE Replay --------------------------------
(* ipfixsend: the messages of a file are sent once or several times, as fast *)
(* as possible or with the pauses of the original.  When a file is repeated, *)
(* sequence numbers and export times follow those of the time before.        *)
EXTENDS Integers, Sequences, SequencesExt, FiniteSetsExt

CONSTANTS RpFiles,      \* files: [pkts, cut]; a packet is [exp, seq, len], and
                        \* the last one, "body", or one behind, "header", may be cut
          RpModes,      \* [preload, loops, realtime, type]; loops = Endless without end
          Endless, MaxLoops,
          RpWidth,      \* numbers are modulo this, 2^32
          SeqNumInc,    \* 256
          UdpMax        \* the longest datagram

VARIABLES source, how, at, update, loop, rpPc,
          hdr,          \* the packet in the buffer, with its header updated
          left,         \* what is still to be sent of it
          grp,          \* of the group: [cnt, id, prev, now]
          wire,         \* pieces sent: [loop, pos, exp, seq, n]
          clock,        \* seconds that passed in this loop, by pauses and groups
          halt
reader == <<source, how, at, update>>
vars == <<reader, loop, rpPc, hdr, left, grp, wire, clock, halt>>

Length == Len(source.pkts)
NoHdr == [exp |-> 0, seq |-> 0]
NoGroup == [cnt |-> 0, id |-> 0, prev |-> 0, now |-> 0]

\* A preloaded file is read to its end first; one that is cut is refused.
Init ==
    /\ source \in RpFiles /\ how \in RpModes
    /\ at = 1 /\ loop = 0 /\ hdr = NoHdr /\ left = 0 /\ grp = NoGroup
    /\ update = [enable |-> how.loops # 1, fileStart |-> TRUE, readStart |-> TRUE,
                 seqOff |-> 0, expOff |-> 0, seqMax |-> 0, expMax |-> 0]
    /\ rpPc = IF how.preload /\ source.cut # "no" THEN "failed" ELSE "loop"
    /\ wire = <<>> /\ clock = 0 /\ halt = FALSE

-----------------------------------------------------------------------------
(* The reader.                                                               *)
HeaderAt(p) ==
    CASE p <= Length -> "ok"
      [] p > Length /\ source.cut = "header" -> "error"
      [] OTHER -> "eof"
\* A header is read without its body, which is skipped.
PacketAt(p) == IF p = Length /\ source.cut = "body" THEN "error" ELSE HeaderAt(p)

\* reader_u32_cmp, ts_cmp: serial numbers.
Precedes(s, t) == s # t /\ (s - t) % RpWidth >= RpWidth \div 2
Later(s, t) == IF Precedes(s, t) THEN t ELSE s

\* The first header of a loop sets the offsets; the time goes on by one.
MUT_Offsets(u, h) == [u EXCEPT !.fileStart = FALSE, !.readStart = FALSE,
                               !.seqMax = h.seq, !.expMax = h.exp]

Offsets(u, h) ==
    IF u.readStart
    THEN [u EXCEPT !.fileStart = FALSE, !.readStart = FALSE, !.seqOff = 0, !.expOff = 0,
                   !.seqMax = h.seq, !.expMax = h.exp]
    ELSE [u EXCEPT !.fileStart = FALSE,
                   !.seqOff = (u.seqMax - h.seq + SeqNumInc) % RpWidth,
                   !.expOff = (u.expMax - h.exp + 1) % RpWidth,
                   !.seqMax = (u.seqMax + SeqNumInc) % RpWidth,
                   !.expMax = (u.expMax + 1) % RpWidth]
Moved(u, h) == [exp |-> (h.exp + u.expOff) % RpWidth, seq |-> (h.seq + u.seqOff) % RpWidth]
Updated(u, h) ==
    IF ~u.enable THEN u
    ELSE LET v == IF u.fileStart THEN Offsets(u, h) ELSE u
         IN [v EXCEPT !.expMax = Later(@, Moved(v, h).exp), !.seqMax = Later(@, Moved(v, h).seq)]
Read(p) == update' = Updated(update, source.pkts[p]) /\ hdr' = Moved(update', source.pkts[p])

-----------------------------------------------------------------------------
(* The loops of main.                                                        *)
NextLoop ==
    /\ rpPc = "loop" /\ ~halt
    /\ loop < MaxLoops /\ (how.loops = Endless \/ loop < how.loops)
    /\ loop' = loop + 1 /\ at' = 1
    /\ update' = [update EXCEPT !.fileStart = TRUE]
    /\ rpPc' = IF how.realtime THEN "peek" ELSE "send"
    /\ UNCHANGED <<source, how, hdr, left, grp, wire, clock, halt>>
LoopsDone ==
    /\ rpPc = "loop" /\ (halt \/ loop = how.loops)
    /\ rpPc' = "done"
    /\ UNCHANGED <<reader, loop, hdr, left, grp, wire, clock, halt>>

\* The time of the first packet; the position is pushed before and popped.
Peek ==
    /\ rpPc = "peek"
    /\ IF HeaderAt(at) # "ok"
       THEN rpPc' = "failed" /\ UNCHANGED <<update, hdr, grp, clock>>
       ELSE /\ Read(at) /\ rpPc' = "send" /\ clock' = 0
            /\ grp' = [NoGroup EXCEPT !.now = hdr'.exp]
    /\ UNCHANGED <<source, how, at, loop, left, wire, halt>>

\* ts_grp_cnt: headers are read up to the first that is later than that of the
\* group; what they did to the maxima stays although the position is popped.
InGroup(p) == HeaderAt(p) = "ok" /\ ~Precedes(source.pkts[at].exp, source.pkts[p].exp)
GroupEnd == Min({p \in at + 1 .. Length + 1 : ~InGroup(p)})
Headers == SubSeq(source.pkts, at, Min({GroupEnd, Length}))

Group ==
    /\ rpPc = "send" /\ ~halt /\ how.realtime /\ grp.cnt = grp.id
    /\ IF HeaderAt(at) = "eof"
       THEN rpPc' = "loop" /\ UNCHANGED <<at, update, hdr, grp, clock, left>>
       ELSE IF HeaderAt(at) = "error" \/ HeaderAt(GroupEnd) = "error" \/ PacketAt(at) = "error"
       THEN rpPc' = "failed" /\ UNCHANGED <<at, update, hdr, grp, clock, left>>
       ELSE /\ update' = FoldLeft(Updated, update, Headers)
            /\ hdr' = Moved(update', source.pkts[at]) /\ at' = at + 1
            /\ left' = source.pkts[at].len /\ rpPc' = "wire"
            /\ grp' = [cnt |-> GroupEnd - at, id |-> 0, prev |-> grp.now, now |-> hdr'.exp]
            /\ clock' = IF Precedes((grp.now + 1) % RpWidth, hdr'.exp)
                        THEN clock + ((hdr'.exp - grp.now - 1) % RpWidth) ELSE clock
    /\ UNCHANGED <<source, how, loop, wire, halt>>

Load ==
    /\ rpPc = "send" /\ ~halt /\ (how.realtime => grp.cnt # grp.id)
    /\ IF PacketAt(at) = "ok"
       THEN /\ Read(at) /\ at' = at + 1
            /\ left' = source.pkts[at].len /\ rpPc' = "wire"
       ELSE /\ rpPc' = IF PacketAt(at) = "eof" /\ ~how.realtime THEN "loop" ELSE "failed"
            /\ UNCHANGED <<at, update, hdr, left>>
    /\ UNCHANGED <<source, how, loop, grp, wire, clock, halt>>
Stopped ==
    /\ rpPc = "send" /\ halt /\ rpPc' = "loop"
    /\ UNCHANGED <<reader, loop, hdr, left, grp, wire, clock, halt>>

-----------------------------------------------------------------------------
(* siso_send: until nothing is left; the connection is closed on an error.   *)
Pieces == IF how.type = "UDP" THEN {Min({left, UdpMax})} ELSE 1 .. left
SendPart ==
    /\ rpPc = "wire"
    /\ \E n \in Pieces :
          /\ wire' = Append(wire, [loop |-> loop, pos |-> at - 1, exp |-> hdr.exp,
                                   seq |-> hdr.seq, n |-> n])
          /\ left' = left - n
    /\ IF left' > 0 THEN UNCHANGED <<rpPc, grp, clock>>
       ELSE /\ rpPc' = "send"
            /\ grp' = IF how.realtime THEN [grp EXCEPT !.id = @ + 1] ELSE grp
            /\ clock' = IF how.realtime /\ grp'.id = grp.cnt THEN clock + 1 ELSE clock
    /\ UNCHANGED <<reader, loop, hdr, halt>>
SendFails ==
    /\ rpPc = "wire" /\ rpPc' = "failed"
    /\ UNCHANGED <<reader, loop, hdr, left, grp, wire, clock, halt>>

\* SIGINT.
Interrupt ==
    /\ rpPc \in {"loop", "peek", "send", "wire"} /\ ~halt /\ halt' = TRUE
    /\ UNCHANGED <<reader, loop, rpPc, hdr, left, grp, wire, clock>>
Ended == rpPc \in {"done", "failed"} /\ UNCHANGED vars

Next ==
    \/ NextLoop \/ LoopsDone \/ Peek \/ Group \/ Load \/ Stopped
    \/ SendPart \/ SendFails \/ Interrupt \/ Ended
Spec == Init /\ [][Next]_vars

-----------------------------------------------------------------------------
Sent(l, p) ==
    FoldLeft(LAMBDA s, w : IF w.loop = l /\ w.pos = p THEN s + w.n ELSE s, 0, wire)
Rank(w) == w.loop * (Length + 1) + w.pos
IsWhole(l, p) == Sent(l, p) = source.pkts[p].len
First(f) == \A p \in 1 .. Length : ~Precedes(source.pkts[p][f], source.pkts[1][f])

(* Each packet of each loop is sent whole, in order and once, and is cut only *)
(* if it is the last of all; a datagram is a packet unless it is too long.    *)
SentInOrder ==
    /\ \A i \in 1 .. Len(wire) - 1 :
          LET w == wire[i]
              x == wire[i + 1]
          IN \/ Rank(x) = Rank(w)
             \/ IsWhole(w.loop, w.pos) /\ x.pos = 1 + (w.pos % Length)
                /\ x.loop = IF w.pos = Length THEN w.loop + 1 ELSE w.loop
    /\ wire # <<>> => wire[1].pos = 1 /\ wire[1].loop = 1
    /\ \A i \in DOMAIN wire : Sent(wire[i].loop, wire[i].pos) <= source.pkts[wire[i].pos].len
    /\ how.type = "UDP" =>
          \A i \in DOMAIN wire :
              source.pkts[wire[i].pos].len <= UdpMax => wire[i].n = source.pkts[wire[i].pos].len
    /\ rpPc = "done" /\ ~halt /\ Length > 0 => loop = how.loops /\ (loop = 0 \/ IsWhole(loop, Length))

(* Within a loop the differences of the original stay.  If a file begins     *)
(* with its first number, all of a loop are later than all of the one before, *)
(* in export time and, per Observation Domain, in sequence (reader.h,         *)
(* "the fields are updated to follow up on the last message").                *)
NumbersFollowUp ==
    \A f \in {"exp", "seq"} : \A i, j \in DOMAIN wire :
        LET w == wire[i]
            x == wire[j]
        IN /\ w.loop = x.loop => (w[f] - x[f]) % RpWidth
                                   = (source.pkts[w.pos][f] - source.pkts[x.pos][f]) % RpWidth
           /\ w.loop + 1 = x.loop /\ First(f) => Precedes(w[f], x[f])

(* A group is sent as long after the first one of the loop as it was then,    *)
(* and has no packet that is later than its first.                            *)
KeepsTime ==
    how.realtime /\ rpPc = "wire" =>
        /\ clock = (grp.now - Moved(update, source.pkts[1]).exp) % RpWidth
        /\ ~Precedes(grp.now, hdr.exp)

ReplayIsExact == SentInOrder /\ NumbersFollowUp /\ KeepsTime
=============================================================================
