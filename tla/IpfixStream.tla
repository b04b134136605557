----------------------------- MODULE IpfixStream -----------------------------
(* A stream of IPFIX messages, from a connection or a file: how it is cut    *)
(* into messages, and what whoever reads it makes of them.                   *)
EXTENDS Integers, Sequences, SequencesExt, FiniteSetsExt

CONSTANT Hdr        \* size of a header (16)

-----------------------------------------------------------------------------
(* The frames: only the lengths in the headers matter.  A message never      *)
(* occupies less than its header.                                            *)
\* Bytes ahead of message i.
Start(lens, i) ==
    FoldLeft(LAMBDA n, l : n + Max({l, Hdr}), 0, SubSeq(lens, 1, i - 1))
Bytes(lens) == Start(lens, Len(lens) + 1)

\* The length a header at position p gives (a header, if not of the stream).
LengthAt(lens, p) ==
    IF \E i \in DOMAIN lens : Start(lens, i) = p
    THEN lens[CHOOSE i \in DOMAIN lens : Start(lens, i) = p] ELSE Hdr

\* What was cut out: n bytes from position p; and the messages of the stream.
Cut(p, n) == <<p + 1, p + n>>
Message(lens, i) == Cut(Start(lens, i), Max({lens[i], Hdr}))

\* The cuts are the first messages of the stream.
Framed(lens, cuts) == \A i \in DOMAIN cuts : i \in DOMAIN lens /\ cuts[i] = Message(lens, i)

-----------------------------------------------------------------------------
(* The reader learns templates per ODID, and needs them to decode data.  A   *)
(* set of a message is <<"template", id, definition>>, <<"data", id,         *)
(* definition>> (of one record, with the definition it was made by),         *)
(* <<"withdraw">> of all templates, or <<"unknown">>, data nobody has a      *)
(* template for.                                                             *)
NewReader(odids) == [known |-> [o \in odids |-> {}], next |-> [o \in odids |-> -1], sound |-> TRUE]

IsData(s) == s[1] = "data"
Records(sets) == Len(SelectSeq(sets, IsData))

Learn(r, o, s) ==
    CASE s[1] = "withdraw" -> [r EXCEPT !.known[o] = {}]
      [] s[1] = "template" -> [r EXCEPT !.known[o] = {t \in @ : t[1] # s[2]} \cup {<<s[2], s[3]>>}]
      [] s[1] = "data" -> [r EXCEPT !.sound = @ /\ <<s[2], s[3]>> \in r.known[o]]
      [] OTHER -> r

\* The sequence number counts the records before; m.lost were not sent.
Receive(r, m) ==
    LET q == FoldLeft(LAMBDA x, s : Learn(x, m.odid, s), r, m.sets)
        expected == r.next[m.odid]
    IN  [q EXCEPT !.next[m.odid] = m.seq + Records(m.sets),
                  !.sound = @ /\ (expected = -1 \/ m.seq = expected + m.lost)]
ReceiveAll(r, msgs) == FoldLeft(LAMBDA x, m : Receive(x, m), r, msgs)
=============================================================================
