------------------------------ MODULE MCInputs ------------------------------
(* Instances of the inputs for TLC, and of a stream of messages in the       *)
(* parser behind them (from an exporter of NetFlow v9, NetFlow v5 or IPFIX).  *)
(* A behaviour is one of one input or stream, chosen at the beginning; the   *)
(* variables of the others stay as they are.                                 *)
EXTENDS Inputs

CONSTANTS Limit, Lengths, MaxMsgs,                       \* decoders of TCP
          Lifetime, Window, W, MaxNet, MaxStream, None, Bad \* streams

VARIABLES kind,
    lens, lz4, pos, part, size, want, torn, left, eof, total, decoded, given, blind, dpc,
    udp, exporter, net, ctx, info, mgr, newest, late, rejected, outdated, skipped, garbled,
    blinded, surprised

decVars == <<lens, lz4, pos, part, size, want, torn, left, eof, total, decoded, given, blind, dpc>>
streamVars == <<udp, exporter, net, ctx, info, mgr, newest, late, rejected, outdated, skipped,
                garbled, blinded, surprised>>

\* What TLC takes: two local addresses,
McLocals == <<"IPv4", "IPv6">>
\* files of messages: sound, truncated, corrupted, and not of messages at all,
McFiles == {[lens |-> <<2, 4, 3, 6, 2>>, bytes |-> 17], [lens |-> <<6, 5, 6>>, bytes |-> 17],
           [lens |-> <<4, 0, 2>>, bytes |-> 8], [lens |-> <<6>>, bytes |-> 5],
           [lens |-> <<1>>, bytes |-> 2]}

\* and records of two sessions, two ODIDs, times and snapshots, small and long.
McRecord == {[sid |-> 1, odid |-> 1, time |-> 1, snap |-> 1, set |-> 1, size |-> 1],
           [sid |-> 1, odid |-> 1, time |-> 1, snap |-> 1, set |-> 2, size |-> 2],
           [sid |-> 1, odid |-> 1, time |-> 2, snap |-> 2, set |-> 1, size |-> 5],
           [sid |-> 2, odid |-> 1, time |-> 1, snap |-> 1, set |-> 1, size |-> 1]}

\* A field is copied or is a timestamp; here are definitions of both, one of a
\* wrong size that is not converted, one of another enterprise, and options.
F(id, len) == [id |-> id, len |-> len]
D(scopes, fields) == [tid |-> 1, scopes |-> scopes, fields |-> fields]
Addr == D(0, <<F(8, 4)>>)
AddrTime == D(0, <<F(8, 2), F(22, 4), F(200, 2)>>)
WrongTime == D(0, <<F(22, 8)>>)
Options == D(1, <<F(1, 4), F(40000, 2)>>)

\* What the decoders expect of their constants.
ASSUME DecoderAssumption == {Hdr, Limit} \subseteq Nat \ {0} /\ Lengths \subseteq Nat

Dec == INSTANCE TcpDecoder
Nf9 == INSTANCE ParserStream WITH Def <- {AddrTime, WrongTime, Options}, Versions <- {7, 9},
                                  MaxTime <- 3, MaxMsgs <- MaxStream, blind <- blinded
Nf5 == INSTANCE ParserStream WITH Def <- {}, Versions <- {5, 7}, MaxTime <- 5,
                                  MaxMsgs <- MaxStream, blind <- blinded
Str == INSTANCE ParserStream WITH Def <- {Addr, AddrTime}, Versions <- {9, 10}, MaxTime <- 3,
                                  MaxMsgs <- MaxStream, blind <- blinded

Init ==
    /\ kind \in {"udp", "tcp", "decoder", "file", "fds", "nf9", "nf5", "ipfix"}
    /\ Udp!Init /\ Tcp!Init
    /\ Dec!Init /\ (kind # "decoder" => lens = <<>> /\ ~lz4)
    /\ Ipx!Init /\ (kind # "file" => files = <<>>)
    /\ Fds!Init /\ (kind # "fds" => fdsFile = <<>>)
    /\ CASE kind = "nf9" -> Nf9!Init
         [] kind = "nf5" -> Nf5!Init
         [] OTHER -> Str!Init /\ (kind # "ipfix" => ~udp)

Next ==
    /\ UNCHANGED kind
    /\ \/ kind = "udp" /\ Udp!Next
          /\ UNCHANGED <<tcpVars, decVars, fileVars, fdsVars, streamVars>>
       \/ kind = "tcp" /\ Tcp!Next
          /\ UNCHANGED <<udpVars, decVars, fileVars, fdsVars, streamVars>>
       \/ kind = "decoder" /\ Dec!Next
          /\ UNCHANGED <<udpVars, tcpVars, fileVars, fdsVars, streamVars>>
       \/ kind = "file" /\ Ipx!Next
          /\ UNCHANGED <<udpVars, tcpVars, decVars, fdsVars, streamVars>>
       \/ kind = "fds" /\ Fds!Next
          /\ UNCHANGED <<udpVars, tcpVars, decVars, fileVars, streamVars>>
       \/ /\ \/ kind = "nf9" /\ Nf9!Next
             \/ kind = "nf5" /\ Nf5!Next
             \/ kind = "ipfix" /\ Str!Next
          /\ UNCHANGED <<udpVars, tcpVars, decVars, fileVars, fdsVars>>

vars == <<kind, udpVars, tcpVars, decVars, fileVars, fdsVars, streamVars>>
Spec == Init /\ [][Next]_vars

-----------------------------------------------------------------------------
(* Every input keeps the contract of SessionStream: it announces a session,  *)
(* then passes its messages, then closes it, and the structure is freed      *)
(* behind the close, whatever fails or times out (udp.c, tcp, ipfix.c, fds). *)
InputsKeepContract ==
    /\ Udp!UdpIsStream /\ Tcp!TcpIsStream /\ Ipx!FileIsStream /\ Fds!FdsIsStream

(* Every session an input has made is in exactly one place of it until the   *)
(* session has ended: none is lost, none is closed twice; the timer of the   *)
(* UDP input closes exactly those that are silent too long; the getter of    *)
(* the TCP input uses only pointers to connections that are still listed;    *)
(* and the UDP input listens on all of its addresses or leaves nothing open. *)
SessionsAreOwned ==
    /\ Udp!UdpSessionsOwned /\ Udp!TimeoutIsExact /\ Udp!ListenerWhole
    /\ Tcp!TcpSessionsOwned /\ Tcp!PointersLive
    /\ Ipx!FileSessionsOwned /\ Fds!FdsSessionsOwned

(* What an input reads it passes whole, in order, once, and with the context *)
(* it was stored with, however the network, the blocks, the reader's buffer  *)
(* and the sizes of messages cut it (decoders, next_chunk, send_batch).      *)
DataIsIntact == Dec!DecoderIsFraming /\ Ipx!FileIsFraming /\ Fds!FdsIsReplay

(* The records of a stream arrive as their exporter meant them, and its      *)
(* converter is there when a message needs it, whatever failed before.       *)
StreamInStep == Nf9!StreamInStep /\ Nf9!ConverterExists /\ Nf9!NeverBlind

(* Sequence numbers and what is expected of them follow the messages.        *)
NumbersFollow == Nf9!NumbersInStep /\ Nf9!ExpectsNewest

-----------------------------------------------------------------------------
(* Both hold for every value of the constants: each input keeps its          *)
(* invariant (module Inputs), whichever it is that moves.                    *)

InputsInv == UdpInv /\ TcpInv /\ FileInv /\ FdsInv

\* The start of all inputs.
LEMMA InputsStart == Init => InputsInv
  BY UdpStarts, TcpStarts, FileStarts, FdsStarts DEF Init, InputsInv

\* In a step of the whole each input moves or rests.
LEMMA EachMoves ==
    ASSUME [Next]_vars
    PROVE  /\ Udp!Next \/ UNCHANGED Udp!udpVars
           /\ Tcp!Next \/ UNCHANGED Tcp!tcpVars
           /\ Ipx!Next \/ UNCHANGED Ipx!fileVars
           /\ Fds!Next \/ UNCHANGED Fds!fdsVars
<1>1. /\ Udp!Next \/ UNCHANGED udpVars
      /\ Tcp!Next \/ UNCHANGED tcpVars
      /\ Ipx!Next \/ UNCHANGED fileVars
      /\ Fds!Next \/ UNCHANGED fdsVars
  BY DEF Next, vars
<1>2. /\ UNCHANGED udpVars => UNCHANGED Udp!udpVars
      /\ UNCHANGED tcpVars => UNCHANGED Tcp!tcpVars
      /\ UNCHANGED fileVars => UNCHANGED Ipx!fileVars
      /\ UNCHANGED fdsVars => UNCHANGED Fds!fdsVars
  BY DEF udpVars, Udp!udpVars, Udp!listenVars, tcpVars, Tcp!tcpVars, fileVars, Ipx!fileVars,
         fdsVars, Fds!fdsVars
<1>3. QED
  BY <1>1, <1>2

\* So each keeps its invariant, and its sessions go on.
LEMMA InputsMove ==
    ASSUME InputsInv, [Next]_vars
    PROVE  /\ InputsInv'
           /\ [Udp!S!Next]_udpTold /\ [Tcp!S!Next]_tcpTold
           /\ [Ipx!S!Next]_fileTold /\ [Fds!S!Next]_fdsTold
<1>1. /\ Udp!Next \/ UNCHANGED Udp!udpVars
      /\ Tcp!Next \/ UNCHANGED Tcp!tcpVars
      /\ Ipx!Next \/ UNCHANGED Ipx!fileVars
      /\ Fds!Next \/ UNCHANGED Fds!fdsVars
  BY EachMoves
<1>2. UdpInv /\ TcpInv /\ FileInv /\ FdsInv
  BY DEF InputsInv
<1>3. UdpInv' /\ [Udp!S!Next]_udpTold
  BY <1>1, <1>2, UdpMoves
<1>4. TcpInv' /\ [Tcp!S!Next]_tcpTold
  BY <1>1, <1>2, TcpMoves
<1>5. FileInv' /\ [Ipx!S!Next]_fileTold
  BY <1>1, <1>2, FileMoves
<1>6. FdsInv' /\ [Fds!S!Next]_fdsTold
  BY <1>1, <1>2, FdsMoves
<1>7. QED
  BY <1>3, <1>4, <1>5, <1>6 DEF InputsInv

(* The inductive invariant of the inputs: their sessions are of the places   *)
(* that hold them, and what was said of a session is the beginning of a life *)
(* that the place it is in allows (udp.c, tcp, ipfix.c, fds).                *)
THEOREM InputsStayWhole == Spec => []InputsInv
<1>1. InputsInv /\ [Next]_vars => InputsInv'
  BY InputsMove
<1>2. QED
  BY <1>1, InputsStart, PTL DEF Spec

(* No session of an input is lost, owned twice or closed twice, the timer of *)
(* UDP is exact, the pointers of TCP are of connections that are listed, and *)
(* a listener is whole (process_timer, close_connection, next_file, ~Reader).*)
THEOREM SessionsStayOwned == Spec => []SessionsAreOwned
<1>1. InputsInv => SessionsAreOwned
  BY UdpHolds, TcpHolds, FileHolds, FdsHolds DEF InputsInv, SessionsAreOwned
<1>2. QED
  BY <1>1, InputsStayWhole, PTL

(* Each input implements the contract of sessions the pipeline relies on.    *)
THEOREM ContractIsKept == Spec => InputsKeepContract
<1>1. Init => Udp!S!Init /\ Tcp!S!Init /\ Ipx!S!Init /\ Fds!S!Init
  BY DEF Init, Udp!Init, Tcp!Init, Ipx!Init, Fds!Init
<1>2. InputsInv /\ [Next]_vars => /\ [Udp!S!Next]_udpTold /\ [Tcp!S!Next]_tcpTold
                                  /\ [Ipx!S!Next]_fileTold /\ [Fds!S!Next]_fdsTold
  BY InputsMove
<1>3. QED
  BY <1>1, <1>2, InputsStayWhole, PTL
     DEF Spec, InputsKeepContract, Udp!UdpIsStream, Tcp!TcpIsStream, Ipx!FileIsStream,
         Fds!FdsIsStream, Udp!S!Spec, Tcp!S!Spec, Ipx!S!Spec, Fds!S!Spec
=============================================================================
