---------------------------- MODULE RtspReceive -----------------------------
(***************************************************************************)
(* The byte stream from one RTSP client: rtsp_recv_msg collects it in      *)
(* reqbuf and rtsp_msg_parse_from_array cuts messages off its front.       *)
(* rtsp_do_event calls rtsp_recv_msg until no complete message is left.    *)
(* RtspConnection puts these actions together with what the server sends.  *)
(*                                                                         *)
(* A byte is EOL (a CRLF pair), DOLLAR, BAD (the first of a line that is   *)
(* no start line, or too long for one), TEARDOWN (of a start line with     *)
(* this method), a positive number (a length field with this value) or 0   *)
(* (any other).                                                            *)
(***************************************************************************)
EXTENDS Integers, Sequences, SequencesExt, FiniteSetsExt

CONSTANTS
    REQBUF,          \* sizeof(reqbuf), 1024 in the code
    LINE_MAX,        \* rtsp_msg.c:808, 256 in the code
    HDR_MAX,         \* rtsp_msg.c:816, 1024 in the code
    HeaderLengths,   \* lengths of a header line, 0 for none
    BodyLengths,     \* lengths of the body and of an interleaved frame
    MaxMessages      \* bound: messages of the client

ASSUME LimitsAssumption == REQBUF \in Nat \ {0, 1} /\ LINE_MAX \in Nat /\ HDR_MAX \in Nat
ASSUME LengthsAssumption ==
    HeaderLengths \subseteq Nat /\ BodyLengths \subseteq Nat /\ MaxMessages \in Nat

VARIABLES
    sent,      \* history: the messages the client has sent
    net,       \* bytes on their way
    sockbuf,   \* bytes the socket has for recv()
    closed,    \* the client has closed its end
    reqbuf,    \* rtsp_client_connection::reqbuf up to reqlen
    handled,   \* history: the messages the server has taken off reqbuf
    serving    \* idle, serve, or deleted

receiveVars == <<sent, net, sockbuf, closed, reqbuf, handled, serving>>

EOL == -1
DOLLAR == -2
BAD == -3
TEARDOWN == -5

Text(n) == [i \in 1 .. n |-> 0]
Request(h, n) ==
    <<0, EOL>> \o (IF h > 0 THEN Text(h) \o <<EOL>> ELSE <<>>)
               \o (IF n > 0 THEN <<n, EOL>> ELSE <<>>) \o <<EOL>> \o Text(n)
Interleaved(n) == <<DOLLAR, n>> \o Text(n)
Message == {Request(h, n) : h \in HeaderLengths, n \in BodyLengths}
           \cup {Interleaved(n) : n \in BodyLengths \ {0}}
           \cup {<<TEARDOWN, EOL, EOL>>, <<BAD>> \o Text(LINE_MAX) \o <<EOL, EOL>>}

NothingReceived ==
    /\ sent = <<>>
    /\ net = <<>>
    /\ sockbuf = <<>>
    /\ closed = FALSE
    /\ reqbuf = <<>>
    /\ handled = <<>>
    /\ serving = "idle"

-----------------------------------------------------------------------------
(* The client and the network, which cuts the stream anywhere. *)
ClientSend ==
    /\ ~closed
    /\ Len(sent) < MaxMessages
    /\ \E m \in Message : sent' = Append(sent, m) /\ net' = net \o m
    /\ UNCHANGED <<sockbuf, closed, reqbuf, handled, serving>>

ClientClose ==
    /\ ~closed
    /\ closed' = TRUE
    /\ UNCHANGED <<sent, net, sockbuf, reqbuf, handled, serving>>

Arrive ==
    /\ net # <<>>
    /\ \E k \in 1 .. Len(net) :
          /\ sockbuf' = sockbuf \o SubSeq(net, 1, k)
          /\ net' = SubSeq(net, k + 1, Len(net))
    /\ UNCHANGED <<sent, closed, reqbuf, handled, serving>>

-----------------------------------------------------------------------------
(* rtsp_msg_frame_size. 0: not complete yet, -1: refused. *)
Lines(b) == {i \in 1 .. Len(b) : b[i] = EOL}
HeaderEnds(b) == {i \in Lines(b) : i < Len(b) /\ b[i + 1] = EOL}
ContentLength(b) ==
    LET fields == {i \in 1 .. Min(HeaderEnds(b)) : b[i] > 0}
    IN IF fields = {} THEN 0 ELSE b[Max(fields)]
CompleteSize(b) == Min(HeaderEnds(b)) + 1 + ContentLength(b)

FrameSize(b) ==
    IF Lines(b) = {} THEN (IF Len(b) > LINE_MAX THEN -1 ELSE 0)
    ELSE IF HeaderEnds(b) = {} THEN (IF Len(b) > HDR_MAX THEN -1 ELSE 0)
    ELSE IF Len(b) < CompleteSize(b) THEN 0 ELSE CompleteSize(b)

(* rtsp_msg_parse_from_array (mutant: the body of an interleaved frame is not
   waited for). *)
Parse_HeaderOnly(b) ==
    IF b[1] = DOLLAR THEN (IF Len(b) < 2 THEN 0 ELSE 2)
    ELSE LET size == FrameSize(b) IN IF size > 0 /\ b[1] = BAD THEN -1 ELSE size
Parse(b) ==
    IF b[1] = DOLLAR THEN (IF Len(b) < 2 \/ Len(b) < b[2] + 2 THEN 0 ELSE b[2] + 2)
    ELSE LET size == FrameSize(b) IN IF size > 0 /\ b[1] = BAD THEN -1 ELSE size

(* rtsp_do_event: the socket is readable. *)
Event ==
    /\ serving = "idle"
    /\ sockbuf # <<>> \/ (closed /\ net = <<>>)
    /\ serving' = "serve"
    /\ UNCHANGED <<sent, net, sockbuf, closed, reqbuf, handled>>

Room == REQBUF - Len(reqbuf) - 1

(* The last recv() returned 0. *)
PeerClosed ==
    /\ serving = "serve"
    /\ Room > 0 /\ sockbuf = <<>> /\ closed /\ net = <<>>
    /\ serving' = "deleted"
    /\ UNCHANGED <<sent, net, sockbuf, closed, reqbuf, handled>>

(* Mutant: rtsp_do_event serves one message a time. *)
NextServing_OneMessage(ret) == IF ret < 0 THEN "deleted" ELSE "idle"
NextServing(ret) == IF ret < 0 THEN "deleted" ELSE IF ret = 0 THEN "idle" ELSE "serve"

RecvMsg ==
    /\ serving = "serve"
    /\ ~(Room > 0 /\ sockbuf = <<>> /\ closed /\ net = <<>>)
    /\ LET k == IF Len(sockbuf) < Room THEN Len(sockbuf) ELSE Room
       IN \E b \in {reqbuf \o SubSeq(sockbuf, 1, k)} :
          \E ret \in {IF b = <<>> THEN 0 ELSE Parse(b)} :
             /\ sockbuf' = SubSeq(sockbuf, k + 1, Len(sockbuf))
             /\ reqbuf' = IF ret > 0 THEN SubSeq(b, ret + 1, Len(b)) ELSE b
             /\ handled' = IF ret > 0 THEN Append(handled, SubSeq(b, 1, ret)) ELSE handled
             /\ serving' = NextServing(ret)
    /\ UNCHANGED <<sent, net, closed>>

-----------------------------------------------------------------------------
Refused(m) == Parse(m) < 0

(* Wherever the network cuts the stream and however messages share reqbuf,
   the server takes exactly the messages that were sent, in their order
   (rtsp_demo.c:1209-1249, rtsp_msg.c:799-863). It deletes a connection for a
   cause: the client closed it (messages still in reqbuf are then lost), or
   the next message was to be refused. A message that is only incomplete
   never costs the connection. *)
HandledAsSent ==
    /\ IsPrefix(handled, sent)
    /\ serving = "deleted" =>
          closed \/ (Len(handled) < Len(sent) /\ Refused(sent[Len(handled) + 1]))

=============================================================================
