--------------------------- MODULE RtspConnection ---------------------------
(***************************************************************************)
(* One connection in both directions: what comes from the client           *)
(* (RtspReceive) and what goes to it (TcpInterleaved), in the one thread   *)
(* of the server that does both. Within rtsp_do_event each request is      *)
(* answered before the next is read; packets go out before, when a frame   *)
(* has come, and behind. The client was playing over TCP when this begins. *)
(***************************************************************************)
EXTENDS RtspReceive, TcpInterleaved

VARIABLES
    playing,    \* state is PLAYING
    owed,       \* a request has been read and its answer not yet sent
    tornDown,   \* history: a TEARDOWN of the whole session has been granted
    hungUp      \* history: the client closed without having been granted a
                \* TEARDOWN, or with a message on its way or without its answer

vars == <<receiveVars, sendVars, playing, owed, tornDown, hungUp>>

Init ==
    /\ NothingReceived
    /\ NothingSent
    /\ playing = TRUE
    /\ owed = FALSE
    /\ tornDown = FALSE
    /\ hungUp = FALSE

(* The process is there, and this connection of it. *)
Up == peer # "killed" /\ serving # "deleted"

-----------------------------------------------------------------------------
(* The client, and the network in front of its server. *)
Talk == Up /\ ClientSend /\ UNCHANGED <<sendVars, playing, owed, tornDown, hungUp>>

(* Nobody reads any more, and the buffer is as good as empty. *)
Close ==
    /\ Up
    /\ ClientClose
    /\ peer' = "closed"
    /\ room' = SNDBUF
    /\ reader' = [rest |-> <<>>, heard |-> 0]
    /\ hungUp' = ~(tornDown /\ ~owed /\ net = <<>> /\ sockbuf = <<>> /\ reqbuf = <<>>)
    /\ UNCHANGED <<index, sending, torn, missed, reports,
                   playing, owed, tornDown>>

Deliver == Up /\ Arrive /\ UNCHANGED <<sendVars, playing, owed, tornDown, hungUp>>

Listen == Up /\ Drain /\ UNCHANGED <<receiveVars, playing, owed, tornDown, hungUp>>

-----------------------------------------------------------------------------
(* rtsp_do_event: the loop that serves requests. Between the two send() of a
   packet there is none. *)
Enter ==
    /\ Up
    /\ sending = "idle"
    /\ Event
    /\ UNCHANGED <<sendVars, playing, owed, tornDown, hungUp>>

Hangup == Up /\ PeerClosed /\ ~owed /\ UNCHANGED <<sendVars, playing, owed, tornDown, hungUp>>

(* A frame of the client itself asks for no answer (mutant: it gets one). *)
WantsAnswer_Always(m) == TRUE
WantsAnswer(m) == m[1] # DOLLAR

Take ==
    /\ Up
    /\ ~owed
    /\ RecvMsg
    /\ owed' = (Len(handled') > Len(handled) /\ WantsAnswer(Last(handled')))
    /\ UNCHANGED <<sendVars, playing, tornDown, hungUp>>

(* rtsp_process_request and rtsp_send_msg. A TEARDOWN is granted, or refused
   (no CSeq, another session id, another path), or names one track and leaves
   the other: whether it ends the playing, not whether the answer is 200, is
   what granted says. The other requests here leave the playing alone (mutant:
   TEARDOWN does too). *)
Ends(m, granted) == m[1] = TEARDOWN /\ granted
PlaysAfter_Teardown(m, granted) == playing
PlaysAfter(m, granted) == playing /\ ~Ends(m, granted)

Answer ==
    /\ Up
    /\ owed
    /\ SendMsg
    /\ owed' = FALSE
    /\ \E granted \in BOOLEAN :
          /\ playing' = PlaysAfter(Last(handled), granted)
          /\ tornDown' = (tornDown \/ Ends(Last(handled), granted))
    /\ UNCHANGED <<receiveVars, hungUp>>

(* rtsp_tx_video_packet and rtcp_try_tx_sr, outside that loop. *)
Transmit(Part) ==
    /\ Up
    /\ serving = "idle"
    /\ playing
    /\ Part
    /\ UNCHANGED <<receiveVars, playing, owed, tornDown, hungUp>>
TransmitHeader == Transmit(SendHeader)
TransmitBody == Transmit(SendBody)
TransmitReport == Transmit(SendReport)

Next ==
    \/ Talk \/ Close \/ Deliver \/ Listen
    \/ Enter \/ Hangup \/ Take \/ Answer
    \/ TransmitHeader \/ TransmitBody \/ TransmitReport

Spec == Init /\ [][Next]_vars

(* The network delivers. rtsp_do_event is called after every frame, and the
   camera delivers frames as long as it runs; now and then the client has read
   all there was when one comes. *)
FairSpec ==
    /\ Spec
    /\ WF_vars(Deliver)
    /\ WF_vars(Hangup \/ Take \/ Answer \/ TransmitBody)
    /\ SF_vars(Enter)
    /\ WF_vars(room' = SNDBUF /\ Listen)
    /\ SF_vars(room = SNDBUF /\ TransmitHeader)

-----------------------------------------------------------------------------
(* Packets and responses share the connection without getting into each
   other's way, and a header or a response the socket refuses as a whole does
   no harm: framing is lost only by a send that stopped within a frame. Until
   then a client reads one response for each of its requests, except those of
   which the socket took nothing, and none for a frame of its own
   (rtp_tx_data, rtsp_send_msg, rtcp_try_tx_sr and rtsp_do_event,
   rtsp_demo.c:1340-1377, 1251-1280, 2060-2129, 1572-1611). *)
InFrameUnlessTorn ==
    peer = "open" /\ ~torn =>
        LET asked == Cardinality({i \in DOMAIN handled : handled[i][1] # DOLLAR})
        IN /\ reader.rest # Lost
           /\ reader.heard + missed + (IF owed THEN 1 ELSE 0) = asked

(* A packet the socket refuses, before or behind its header, is tried again
   until it is taken, whatever is asked in between: a client that plays on and
   catches up now and then is sent all of them (streamq_index stays,
   rtsp_demo.c:1421-1423). *)
EveryPacketTaken ==
    <>(index > MaxPackets \/ ~playing \/ closed \/ serving = "deleted")

(* The next message is longer than recv() ever lets reqbuf become: no byte is
   read any more (rtsp_demo.c:1213), and the message, which is only incomplete,
   is not refused. *)
Stuck == Len(handled) < Len(sent) /\ Len(sent[Len(handled) + 1]) >= REQBUF

(* Every message is served sooner or later, although messages share reqbuf and
   the socket is only read when select() finds something there, between
   packets; and a client that has closed is noticed and its connection deleted.
   The one way to be neither served nor noticed is to be behind a message that
   does not fit into reqbuf (rtsp_demo.c:1209-1249, 1572-1611). *)
EveryMessageServed ==
    []<>(\/ Len(handled) = Len(sent) /\ ~closed
         \/ serving = "deleted" \/ peer = "killed" \/ Stuck)

(* A client ends the process, by the SIGPIPE of a send to a connection that is
   gone, only by closing while it plays or waits for an answer; one whose
   TEARDOWN was granted, and which has its answer, may close at any moment
   (rtsp_demo.c:1106-1129, 1340-1377; main.cpp:152 handles SIGINT alone). *)
KilledForCause == peer = "killed" => hungUp

-----------------------------------------------------------------------------
(* docs/project-overview.md:52: rtsp_lib is responsible for sending over TCP.
   Nothing there asks the client to be fast; but when the send buffer fills
   up within a packet, what follows is no longer in frame. *)
SlowReaderInFrame == reader.rest # Lost
=============================================================================
