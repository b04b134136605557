------------------------------ MODULE FileInput ------------------------------
(* The input of files of IPFIX messages (plugins/input/ipfix/ipfix.c): one   *)
(* transport session for each file, read through a buffer.  The getter gives *)
(* one message, going on to the next file at the end of one or when it is    *)
(* corrupted.                                                                *)
EXTENDS IpfixStream

CONSTANTS
    BufferSize,  \* of the reader; config.c wants two messages of the longest
    FileList,    \* files there may be: [lens, bytes], shorter than its messages
                 \* if it is truncated; a length below Hdr is a corrupted header
    Sessions

VARIABLES
    files,       \* the files to read
    fileNext,    \* file_next_idx
    current,     \* the file that is open, 0 if none
    fileSes,     \* current_ts, 0 if none
    buffer,      \* [read (from the file), valid, offset, smeared]
    fileMade, fileTold,
    cuts,        \* history: messages passed of the current file
    filePc       \* "idle", "next" (in next_file), "off" (no more get), "gone"

fileVars == <<files, fileNext, current, fileSes, buffer, fileMade, fileTold, cuts, filePc>>
S == INSTANCE SessionStream WITH told <- fileTold

Empty == [read |-> 0, valid |-> 0, offset |-> 0, smeared |-> FALSE]

Init ==
    /\ files \in BoundedSeq(FileList, Cardinality(Sessions)) /\ fileNext = 1
    /\ current = 0 /\ fileSes = 0 /\ buffer = Empty
    /\ fileMade = 0 /\ S!Init /\ cuts = <<>> /\ filePc = "idle"

-----------------------------------------------------------------------------
(* next_chunk: n bytes from the buffer b, filled again from a file of so     *)
(* many bytes; the read may fail.  What is left in the buffer moves to its   *)
(* front by a memcpy, which must not overlap (smeared).                      *)
Chunk(b, n, bytes, fails) ==
    LET avail == b.valid - b.offset
        in == IF fails THEN 0 ELSE Min({BufferSize - avail, bytes - b.read})
        after == [read |-> b.read + in, valid |-> avail + in, offset |-> 0,
                  smeared |-> b.smeared \/ (avail > 0 /\ b.offset < avail)]
    IN CASE avail >= n        -> [rc |-> "ok", buf |-> [b EXCEPT !.offset = @ + n]]
         [] avail + in >= n   -> [rc |-> "ok", buf |-> [after EXCEPT !.offset = n]]
         [] OTHER             -> [rc |-> "end", buf |-> after]

\* Position in the file of what is read next.
Ahead(b) == b.read - b.valid + b.offset

\* next_message: header, then body.  mem: the message can be allocated.
Fatal == filePc' = "off" /\ UNCHANGED <<fileTold, cuts>>
NextMessage(failsH, failsB, mem) ==
    LET f == files[current]
        h == Chunk(buffer, Hdr, f.bytes, failsH)
        length == LengthAt(f.lens, Ahead(h.buf) - Hdr)
        b == Chunk(h.buf, length - Hdr, f.bytes, failsB)
    IN /\ filePc = "idle" /\ current # 0
       /\ IF h.rc # "ok" \/ length < Hdr
          THEN filePc' = "next" /\ buffer' = h.buf /\ UNCHANGED <<fileTold, cuts>>
          ELSE /\ buffer' = IF length > Hdr THEN b.buf ELSE h.buf
               /\ CASE length > Hdr /\ b.rc # "ok" -> /\ filePc' = "next"
                                                      /\ UNCHANGED <<fileTold, cuts>>
                    [] ~mem -> Fatal
                    [] OTHER -> /\ fileTold' = S!Say(fileTold, fileSes, <<"data">>)
                                /\ cuts' = Append(cuts, Cut(Ahead(buffer') - length, length))
                                /\ UNCHANGED filePc
       /\ UNCHANGED <<files, fileNext, current, fileSes, fileMade>>
\* No file is open: it has been closed on request, or this is the first call.
NoFile == /\ filePc = "idle" /\ current = 0 /\ filePc' = "next"
          /\ UNCHANGED <<files, fileNext, current, fileSes, buffer, fileMade, fileTold, cuts>>

-----------------------------------------------------------------------------
Outcome == {"nothing", "close", "all"}
\* session_close
Closed(told, out) ==
    IF fileSes = 0 THEN told
    ELSE S!Say(told, fileSes, CASE out = "nothing" -> <<"leak">>
                                [] out = "close"   -> <<"close", "leak">>
                                [] out = "all"     -> <<"close", "garbage">>)

\* Files that open and begin with the header of a message (a directory does not).
Suitable(f) == f.bytes >= Hdr /\ LengthAt(f.lens, 0) >= Hdr
\* next_file: the next suitable one, unless fopen fails for it; mem says whether
\* the session, and the message that opens it, can be allocated.
NextFile(n, out, mem) ==
    /\ filePc = "next"
    /\ n \in fileNext .. Len(files) /\ Suitable(files[n])
    /\ fileNext' = n + 1 /\ fileMade' = fileMade + 1
    /\ IF mem THEN /\ current' = n /\ fileSes' = fileMade + 1 /\ filePc' = "idle"
                   /\ fileTold' = S!Say(Closed(fileTold, out), fileMade + 1, <<"open">>)
                   /\ buffer' = Empty /\ cuts' = <<>>
              ELSE /\ current' = 0 /\ fileSes' = 0 /\ filePc' = "off"
                   /\ fileTold' = S!Say(Closed(fileTold, out), fileMade + 1, <<"destroy">>)
                   /\ UNCHANGED <<buffer, cuts>>
    /\ UNCHANGED files
\* No file is left: the getter reports the end and is not called again.
NoMoreFiles(out) ==
    /\ filePc = "next"
    /\ fileNext' = Len(files) + 1 /\ current' = 0 /\ fileSes' = 0
    /\ fileTold' = Closed(fileTold, out) /\ filePc' = "off"
    /\ UNCHANGED <<files, buffer, fileMade, cuts>>

\* ipx_plugin_session_close, for a session that may be gone.
MUT_SessionClose(s, out) ==
    /\ filePc = "idle" /\ s <= fileMade
    /\ fileTold' = Closed(fileTold, out) /\ current' = 0 /\ fileSes' = 0
    /\ UNCHANGED <<files, fileNext, buffer, fileMade, cuts, filePc>>
SessionClose(s, out) ==
    /\ filePc \in {"idle", "off"} /\ s <= fileMade
    /\ IF s = fileSes THEN /\ fileTold' = Closed(fileTold, out)
                           /\ current' = 0 /\ fileSes' = 0
                      ELSE UNCHANGED <<fileTold, current, fileSes>>
    /\ UNCHANGED <<files, fileNext, buffer, fileMade, cuts, filePc>>

FileDestroy(out) ==
    /\ filePc \in {"idle", "off"} /\ filePc' = "gone"
    /\ fileTold' = Closed(fileTold, out) /\ fileSes' = 0 /\ current' = 0
    /\ UNCHANGED <<files, fileNext, buffer, fileMade, cuts>>
FileGone == filePc = "gone" /\ UNCHANGED fileVars

Next ==
    \/ \E fh, fb, mem \in BOOLEAN : NextMessage(fh, fb, mem)
    \/ NoFile \/ FileGone
    \/ \E n \in DOMAIN files, out \in Outcome, mem \in BOOLEAN : NextFile(n, out, mem)
    \/ \E out \in Outcome : NoMoreFiles(out) \/ FileDestroy(out)
    \/ \E s \in Sessions, out \in Outcome : SessionClose(s, out)

Spec == Init /\ [][Next]_fileVars
-----------------------------------------------------------------------------
(* The messages passed of a file are its first ones, whole and in order, and *)
(* none was cut out of a buffer whose content was moved over itself: the     *)
(* memcpy of next_chunk overlaps only at the end of a truncated file.        *)
FileIsFraming ==
    /\ current # 0 => Framed(files[current].lens, cuts)
    /\ buffer.smeared => filePc # "idle" \/ current = 0

(* Every session is of the file that is open or has ended.                   *)
FileSessionsOwned ==
    \A s \in Sessions :
        (s <= fileMade /\ ~S!Ended(fileTold[s])) <=> (s = fileSes)

FileIsStream == S!Spec
=============================================================================
