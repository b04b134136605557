----------------------------- MODULE TcpDecoder -----------------------------
(* How a connection of the TCP input turns its stream into messages: the     *)
(* choice of a decoder (DecoderFactory.cpp), the decoder of plain IPFIX, the *)
(* one of blocks compressed by LZ4, and the buffer that cuts the content of  *)
(* the blocks into messages (DecodeBuffer.cpp).  The stream is a sequence of *)
(* messages of which only the length in the header matters; bytes are known  *)
(* by their position in it, a message that was cut out by <<first, last>>.   *)
EXTENDS IpfixStream

CONSTANTS
    Limit,      \* decode stops after this many bytes (65535)
    Lengths,    \* lengths found in headers
    MaxMsgs     \* bound: messages in the stream

VARIABLES
    lens,       \* the stream: lengths in the headers of its messages
    lz4,        \* it is compressed
    pos,        \* bytes of the stream the decoder has
    part,       \* how many of them belong to the unfinished message
    size,       \* its length: m_msg_size, m_decoded_size
    want,       \* what is received: "message", or "start", "head", "body" of a block
    torn,       \* a part of that is in m_compressed
    left,       \* bytes of the decompressed block (or of the one announced)
    eof,
    total,      \* m_total_bytes_decoded
    decoded,    \* complete messages, not yet passed
    given,      \* messages passed
    blind,      \* history: the buffer took a message for longer than it is
    dpc         \* "detect", "idle", "decode", "buffer", "process", "end", "fail"

decVars == <<lens, lz4, pos, part, size, want, torn, left, eof, total, decoded,
             given, blind, dpc>>

Init ==
    /\ lens \in BoundedSeq(Lengths, MaxMsgs) /\ lz4 \in BOOLEAN
    /\ pos = 0 /\ part = 0 /\ size = 0 /\ want = "message" /\ torn = FALSE
    /\ left = 0 /\ eof = FALSE /\ total = 0 /\ decoded = <<>> /\ given = <<>>
    /\ blind = FALSE /\ dpc = "detect"

\* detect_decoder looks at the n bytes that have come so far, and does not wait.
Magic == IF lz4 THEN 4 ELSE 2
Detect(n) ==
    /\ dpc = "detect"
    /\ dpc' = IF n < Magic THEN "fail" ELSE "decode"
    /\ want' = IF lz4 THEN "start" ELSE "message"
    /\ UNCHANGED <<lens, lz4, pos, part, size, torn, left, eof, total, decoded, given, blind>>

\* The connection is ready again.
Decode == /\ dpc = "idle" /\ dpc' = "decode"
          /\ UNCHANGED <<lens, lz4, pos, part, size, want, torn, left, eof, total,
                         decoded, given, blind>>

Continue(t) == IF t >= Limit THEN "process" ELSE "decode"

-----------------------------------------------------------------------------
(* IpfixDecoder: read_header until the length is known, then read_body.      *)

Needed == IF size = 0 THEN Hdr ELSE size

\* n more bytes; a header that names no more than itself is a whole message.
ReceiveMessage(n) ==
    LET full == part + n = Needed
        length == IF full /\ size = 0 THEN LengthAt(lens, pos - part) ELSE size
        whole == full /\ part + n >= length
    IN /\ dpc = "decode" /\ ~lz4
       /\ n \in 1 .. Needed - part /\ pos + n <= Bytes(lens)
       /\ pos' = pos + n
       /\ part' = IF whole THEN 0 ELSE part + n
       /\ size' = IF whole THEN 0 ELSE length
       /\ decoded' = IF whole THEN Append(decoded, Cut(pos - part, part + n)) ELSE decoded
       /\ total' = IF whole THEN total + part + n ELSE total
       /\ dpc' = IF ~full THEN "process" ELSE Continue(total')
       /\ UNCHANGED <<lens, lz4, want, torn, left, eof, given, blind>>

-----------------------------------------------------------------------------
(* Lz4Decoder: the start of the stream, then the header and body of blocks.  *)

ReceivePart ==
    /\ dpc = "decode" /\ lz4 /\ torn' = TRUE /\ dpc' = "process"
    /\ UNCHANGED <<lens, lz4, pos, part, size, want, left, eof, total, decoded, given, blind>>
ReceiveStart ==
    /\ dpc = "decode" /\ lz4 /\ want = "start" /\ want' = "head" /\ torn' = FALSE
    /\ UNCHANGED <<lens, lz4, pos, part, size, left, eof, total, decoded, given, blind, dpc>>
\* A block of n bytes of the stream follows.
ReceiveHead(n) ==
    /\ dpc = "decode" /\ lz4 /\ want = "head" /\ n \in 1 .. Bytes(lens) - pos
    /\ want' = "body" /\ left' = n /\ torn' = FALSE
    /\ UNCHANGED <<lens, lz4, pos, part, size, eof, total, decoded, given, blind, dpc>>
\* decompress, which may fail.
ReceiveBody(fails) ==
    /\ dpc = "decode" /\ lz4 /\ want = "body"
    /\ dpc' = IF fails THEN "fail" ELSE "buffer"
    /\ want' = "head" /\ torn' = FALSE
    /\ UNCHANGED <<lens, lz4, pos, part, size, left, eof, total, decoded, given, blind>>

\* DecodeBuffer::read_header has the length only if bytes are left behind the header.
HeaderEnds(n) == n >= left

\* One turn of the loop of DecodeBuffer::read_from.
BufferHeader ==
    LET n == Hdr - part
    IN /\ dpc = "buffer" /\ part < Hdr
       /\ LET k == Min({n, left})
          IN /\ part' = part + k /\ pos' = pos + k /\ left' = left - k /\ total' = total + k
       /\ size' = IF HeaderEnds(n) THEN size ELSE LengthAt(lens, pos - part)
       /\ blind' = (blind \/ (n <= left /\ size' # LengthAt(lens, pos - part))
                          \/ (n <= left /\ LengthAt(lens, pos - part) < Hdr))
       /\ dpc' = IF left' = 0 THEN Continue(total') ELSE "buffer"
       /\ UNCHANGED <<lens, lz4, want, torn, eof, decoded, given>>
\* size - part is a number without sign: a length below part is never reached.
BufferBody ==
    LET whole == size >= part /\ size - part <= left
        k == IF whole THEN size - part ELSE left
    IN /\ dpc = "buffer" /\ part >= Hdr
       /\ pos' = pos + k /\ left' = left - k
       /\ part' = IF whole THEN 0 ELSE part + k
       /\ decoded' = IF whole THEN Append(decoded, Cut(pos - part, size)) ELSE decoded
       /\ total' = total + k + IF whole THEN size ELSE 0
       /\ dpc' = IF left' = 0 THEN Continue(total') ELSE "buffer"
       /\ UNCHANGED <<lens, lz4, size, want, torn, eof, given, blind>>

-----------------------------------------------------------------------------
(* Both: no data now, the end of the stream, an error of the socket; then    *)
(* the connection passes the messages, unless an exception has lost them.    *)

NothingNow ==
    /\ dpc = "decode" /\ dpc' = "process"
    /\ UNCHANGED <<lens, lz4, pos, part, size, want, torn, left, eof, total, decoded, given, blind>>
MUT_Incomplete == torn
Incomplete == part # 0 \/ torn
EndOfStream ==
    /\ dpc = "decode"
    /\ eof' = TRUE /\ dpc' = IF Incomplete THEN "fail" ELSE "process"
    /\ UNCHANGED <<lens, lz4, pos, part, size, want, torn, left, total, decoded, given, blind>>
SocketError ==
    /\ dpc = "decode" /\ dpc' = "fail"
    /\ UNCHANGED <<lens, lz4, pos, part, size, want, torn, left, eof, total, decoded, given, blind>>
ProcessDecoded ==
    /\ dpc = "process" /\ given' = given \o decoded /\ decoded' = <<>> /\ total' = 0
    /\ dpc' = IF eof THEN "end" ELSE "idle"
    /\ UNCHANGED <<lens, lz4, pos, part, size, want, torn, left, eof, blind>>
DecoderDone == dpc \in {"end", "fail"} /\ UNCHANGED decVars

Next ==
    \/ \E n \in 0 .. 4 : Detect(n)
    \/ Decode \/ \E n \in 1 .. Max(Lengths \cup {Hdr}) : ReceiveMessage(n)
    \/ ReceivePart \/ ReceiveStart \/ \E n \in 1 .. Bytes(lens) : ReceiveHead(n)
    \/ \E fails \in BOOLEAN : ReceiveBody(fails)
    \/ BufferHeader \/ BufferBody
    \/ NothingNow \/ EndOfStream \/ SocketError \/ ProcessDecoded \/ DecoderDone

Spec == Init /\ [][Next]_decVars
-----------------------------------------------------------------------------
(* However the stream is cut by the network and into blocks, the messages    *)
(* passed are those of the stream, and when its end is reported none of the  *)
(* data is left over (read_until_n, read_header and read_body resume); but   *)
(* not if a block ends right behind the header of a message.                 *)
DecoderIsFraming ==
    /\ ~blind => Framed(lens, given)
    /\ ~blind /\ dpc = "end" => pos = Start(lens, Len(given) + 1)
=============================================================================
