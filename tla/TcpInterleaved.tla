--------------------------- MODULE TcpInterleaved ---------------------------
(***************************************************************************)
(* What the server writes to the TCP connection of one playing client: RTP *)
(* packets framed as `$` channel length (rtp_tx_data), RTCP sender reports *)
(* (rtcp_try_tx_sr) and RTSP responses (rtsp_send_msg), on a non-blocking  *)
(* socket. A send() takes as many bytes as the send buffer has room for,   *)
(* and fails with EAGAIN if it has none. RtspConnection says when the      *)
(* server does which.                                                      *)
(*                                                                         *)
(* A byte on the wire is MAGIC (`$`), a positive number (the length of the *)
(* frame), 0 (a byte of a packet) or TEXT (of a response).                 *)
(***************************************************************************)
EXTENDS Integers, Sequences, SequencesExt

CONSTANTS
    SNDBUF,         \* size of the send buffer, in bytes as they are here
    Size,           \* size of a packet
    MaxPackets,     \* bound: packets sent
    MaxReports      \* bound: sender reports sent

ASSUME SizesAssumption == SNDBUF \in Nat \ {0} /\ Size \in Nat \ {0}
ASSUME BoundsAssumption == MaxPackets \in Nat /\ MaxReports \in Nat

VARIABLES
    index,       \* the packet at streamq_index
    sending,     \* idle, or body: the header of the packet has been written
    room,        \* free bytes of the send buffer
    reader,      \* history: by which bytes the frame on the wire has to go on,
                 \* and how many responses were complete
    torn,        \* history: a send stopped within a frame
    missed,      \* history: responses of which the socket took nothing
    reports,     \* sender reports sent so far; they move rtcp_last_ts
    peer         \* the other end: open, closed, or reset (the server has been
                 \* told so); killed when SIGPIPE has ended the process

sendVars == <<index, sending, room, reader, torn, missed, reports, peer>>

MAGIC == -2
TEXT == -4
Response == <<TEXT, TEXT>>

Header == <<MAGIC, Size>>
Body == [i \in 1 .. Size |-> 0]

NothingSent ==
    /\ index = 1
    /\ sending = "idle"
    /\ room = SNDBUF
    /\ reader = [rest |-> <<>>, heard |-> 0]
    /\ torn = FALSE
    /\ missed = 0
    /\ reports = 0
    /\ peer = "open"

(* A client reads the stream frame by frame. It is lost as soon as a frame
   ends where none begins, or does not contain its packet. *)
Lost == <<TEXT + MAGIC>>
Read(r, b) ==
    IF r.rest = <<>>
    THEN [r EXCEPT !.rest = IF b = MAGIC THEN <<Size>> \o Body
                            ELSE IF b = TEXT THEN Tail(Response) ELSE Lost]
    ELSE IF b # Head(r.rest) \/ r.rest = Lost THEN [r EXCEPT !.rest = Lost]
    ELSE [rest |-> Tail(r.rest),
          heard |-> IF b = TEXT /\ Tail(r.rest) = <<>> THEN r.heard + 1 ELSE r.heard]

Heard(bytes) ==
    LET heard[k \in 0 .. Len(bytes)] ==
            IF k = 0 THEN reader ELSE Read(heard[k - 1], bytes[k])
    IN heard[Len(bytes)]

(* The bytes send() may take of data. To a client that is gone it succeeds or
   fails, and sooner or later the answer is a reset: the send after that raises
   SIGPIPE, which the program leaves at its default. *)
Takes(data) ==
    IF peer # "open" THEN {0, Len(data)}
    ELSE {IF Len(data) < room THEN Len(data) ELSE room}
Send(data, n) ==
    /\ reader' = IF peer = "open" THEN Heard(SubSeq(data, 1, n)) ELSE reader
    /\ room' = IF peer = "open" THEN room - n ELSE room
    /\ torn' = (torn \/ (peer = "open" /\ n < Len(data) /\ (n > 0 \/ sending = "body")))
    /\ peer' \in IF peer = "open" THEN {"open"}
                 ELSE IF peer = "closed" THEN {"closed", "reset"} ELSE {"killed"}

-----------------------------------------------------------------------------
(* The client reads. *)
Drain ==
    /\ peer = "open"
    /\ \E r \in room + 1 .. SNDBUF : room' = r
    /\ UNCHANGED <<index, sending, reader, torn, missed, reports, peer>>

(* rtp_tx_data: any number of bytes taken counts as the whole header. *)
SendHeader ==
    /\ sending = "idle"
    /\ index <= MaxPackets
    /\ \E n \in Takes(Header) :
          /\ Send(Header, n)
          /\ sending' = IF n = 0 THEN "idle" ELSE "body"
    /\ UNCHANGED <<index, missed, reports>>

(* Any number of bytes taken counts as the whole packet; if none is, the
   packet is tried again, header first, at the next occasion (mutant:
   streamq_index stays). *)
NextIndex_NotAdvanced(n) == index
NextIndex(n) == IF n = 0 THEN index ELSE index + 1
SendBody ==
    /\ sending = "body"
    /\ sending' = "idle"
    /\ \E n \in Takes(Body) : Send(Body, n) /\ index' = NextIndex(n)
    /\ UNCHANGED <<missed, reports>>

(* rtsp_send_msg: what send() did is not looked at. *)
SendMsg ==
    /\ \E n \in Takes(Response) :
          Send(Response, n) /\ missed' = IF n = 0 THEN missed + 1 ELSE missed
    /\ UNCHANGED <<index, sending, reports>>

(* rtcp_try_tx_sr, before the packets of a frame: a report is due. If the
   socket takes nothing, it stays due. *)
SendReport ==
    /\ sending = "idle"
    /\ reports < MaxReports
    /\ \E n \in Takes(Header \o Body) :
          /\ Send(Header \o Body, n)
          /\ reports' = IF n = 0 THEN reports ELSE reports + 1
    /\ UNCHANGED <<index, sending, missed>>

=============================================================================
