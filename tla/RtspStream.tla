----------------------------- MODULE RtspStream -----------------------------
(***************************************************************************)
(* rtsp_sever_tx_video and rtsp_do_event of 3rd/rtsp_lib/rtsp_demo.c: one  *)
(* frame is cut into RTP packets, which go into the ring of the session    *)
(* and from there to every playing client, each at its own pace; then the  *)
(* requests of the clients are served. All of it runs in the thread of     *)
(* RtspServer, one call at a time; what is nondeterministic is the frame,  *)
(* the sockets and the clients.                                            *)
(*                                                                         *)
(* A packet is the number rtp_enc_h264 gave it. A connection is the record *)
(* of rtsp_client_connection; vrtp is streamq_index of its rtp_connection. *)
(* Only video is streamed, so artp is always NULL.                         *)
(***************************************************************************)
EXTENDS Integers, Sequences, SequencesExt, FiniteSets

CONSTANTS
    Client,
    VRTP_MAX_NBPKTS,    \* 300 in the code
    MaxPackets,         \* bound: no frame is sent beyond so many packets
    MaxRequests         \* bound: requests of one client in one rtsp_do_event

ASSUME NbpktsAssumption == VRTP_MAX_NBPKTS \in Nat \ {0}
ASSUME BoundsAssumption == MaxPackets \in Nat /\ MaxRequests \in Nat

Ring == INSTANCE StreamQueue WITH Nbpkts <- 2 * VRTP_MAX_NBPKTS + 1

VARIABLES
    vstreamq,   \* rtsp_session::vstreamq, its indices
    buf,        \* the packet in each slot of it, 0 for none yet
    seq,        \* rtp_enc::seq, the number of the newest packet
    cc,         \* connection of each client
    conns,      \* rtsp_demo::connections_qhead
    phase,      \* what the thread is doing
    todo,       \* connections the current loop has still to visit, in order
    vrtp,       \* local of rtsp_do_event: read before the requests are served
    requests,   \* requests served for the current client
    last,       \* history: the newest packet sent to each client
    crash       \* undefined behaviour the process has run into

vars == <<vstreamq, buf, seq, cc, conns, phase, todo, vrtp, requests, last, crash>>

NULL == -1
NoCrash == "none"
Closed == [state |-> "closed", bound |-> FALSE, vrtp |-> NULL]
streamVars == <<vstreamq, buf, seq>>

(* Slots from index i up to the tail, and what c has still to be sent. *)
SlotsFrom(i) ==
    {j \in Ring!Index : Ring!Inused(vstreamq, j)
                        /\ Ring!Distance(i, j) < Ring!Distance(i, vstreamq.tail)}
Playing(c) == cc[c].state = "PLAYING" /\ cc[c].vrtp # NULL
HasPacket(c) == Ring!Inused(vstreamq, cc[c].vrtp)
Waiting(c) == IF Playing(c) THEN {buf[j] : j \in SlotsFrom(cc[c].vrtp)} ELSE {}

Init ==
    /\ vstreamq = Ring!EmptyQueue
    /\ buf = [j \in Ring!Index |-> 0]
    /\ seq = 0
    /\ cc = [c \in Client |-> Closed]
    /\ conns = <<>>
    /\ phase = "idle"
    /\ todo = <<>>
    /\ vrtp = "null"
    /\ requests = 0
    /\ last = [c \in Client |-> 0]
    /\ crash = NoCrash

-----------------------------------------------------------------------------
(* A playing client whose next packet was popped goes on with the oldest one
   there is (mutant: it is left where it was). *)
CatchUp_Never(q) == cc
CatchUp(q) ==
    [c \in Client |->
        IF cc[c].bound /\ Playing(c) /\ ~Ring!Inused(q, cc[c].vrtp) /\ cc[c].vrtp # q.tail
        THEN [cc[c] EXCEPT !.vrtp = q.head]
        ELSE cc[c]]

(* The k packets of the frame, written to the slots behind the tail. *)
Encoded(k) ==
    [j \in Ring!Index |->
        LET n == Ring!Distance(vstreamq.tail, j) + 1
        IN IF n <= k THEN seq + n ELSE buf[j]]

(* rtsp_sever_tx_video up to the first send. A bad NAL unit ends it with an
   error: its packets are numbered and written, but not pushed. *)
TxVideo ==
    /\ phase = "idle"
    /\ \E k \in 0 .. VRTP_MAX_NBPKTS, failed \in BOOLEAN :
          LET reserved == Ring!Reserve(vstreamq, VRTP_MAX_NBPKTS)
          IN /\ seq + k <= MaxPackets
             /\ failed => k < VRTP_MAX_NBPKTS
             /\ cc' = CatchUp(reserved)
             /\ buf' = Encoded(k)
             /\ seq' = seq + k
             /\ vstreamq' = IF failed THEN reserved ELSE Ring!PushMany(reserved, k)
             /\ phase' = IF failed THEN "idle" ELSE "send"
             /\ todo' = IF failed THEN <<>> ELSE conns
    /\ UNCHANGED <<conns, vrtp, requests, last, crash>>

(* One turn of rtsp_tx_video_packet: the packet goes to the socket of c. *)
Transmit(c) ==
    /\ HasPacket(c)
    /\ last' = [last EXCEPT ![c] = buf[cc[c].vrtp]]
    /\ cc' = [cc EXCEPT ![c].vrtp = Ring!NextIndex(@)]
    /\ UNCHANGED <<streamVars, conns, phase, todo, vrtp, requests, crash>>

(* Leave the current client: its socket took no more, or it has had all
   (mutant: a socket that takes no more is tried again at once). *)
VisitNext_Retry ==
    /\ todo' = IF Playing(Head(todo)) /\ HasPacket(Head(todo)) THEN todo ELSE Tail(todo)
    /\ UNCHANGED <<streamVars, cc, conns, phase, vrtp, requests, last, crash>>
VisitNext ==
    /\ todo' = Tail(todo)
    /\ UNCHANGED <<streamVars, cc, conns, phase, vrtp, requests, last, crash>>

FirstSend ==
    /\ phase = "send"
    /\ todo # <<>>
    /\ cc[Head(todo)].bound /\ Playing(Head(todo))
    /\ Transmit(Head(todo))

FirstSendDone == phase = "send" /\ todo # <<>> /\ VisitNext

-----------------------------------------------------------------------------
(* Start of the visit of the first client of s in rtsp_do_event. *)
Visit(s) ==
    /\ todo' = s
    /\ requests' = 0
    /\ vrtp' = IF s = <<>> \/ cc[Head(s)].vrtp = NULL THEN "null" ELSE "live"
    /\ phase' = IF s = <<>> THEN "idle" ELSE "serve"

(* rtsp_do_event up to its loop: select(), and a client may be accepted; it is
   not in rfds yet, so the loop has nothing to do for it. *)
Select ==
    /\ phase = "send"
    /\ todo = <<>>
    /\ \/ UNCHANGED <<cc, conns, last>>
       \/ \E c \in Client :
             /\ cc[c].state = "closed"
             /\ cc' = [cc EXCEPT ![c].state = "INIT"]
             /\ conns' = Append(conns, c)
             /\ last' = [last EXCEPT ![c] = 0]
    /\ Visit(conns)
    /\ UNCHANGED <<streamVars, crash>>

(* Mutant: the request is served without binding the connection. *)
Handled_Unbound(c, new) == cc' = [cc EXCEPT ![c] = new]

(* rtsp_process_request. Every request but OPTIONS that names the session
   binds the connection to it, also one that is then refused. *)
Handled(c, new) == cc' = [cc EXCEPT ![c] = [new EXCEPT !.bound = TRUE]]

(* The rtp_connection that vrtp points to, if any, is freed. *)
DelRtp(c) == vrtp' = IF cc[c].vrtp # NULL /\ vrtp = "live" THEN "freed" ELSE vrtp

(* DESCRIBE, an unknown method, and whatever is refused. *)
Answer(c) == Handled(c, cc[c]) /\ UNCHANGED vrtp

(* SETUP; the new rtp_connection may fail, the old one is gone then too. *)
SETUP(c) ==
    /\ DelRtp(c)
    /\ \/ Handled(c, [cc[c] EXCEPT !.vrtp = NULL])
       \/ Handled(c, [cc[c] EXCEPT !.vrtp = IF cc[c].state = "PLAYING" THEN vstreamq.tail ELSE 0,
                                   !.state = IF @ = "INIT" THEN "READY" ELSE @])

PAUSE(c) ==
    /\ cc[c].state \in {"READY", "PLAYING"}
    /\ Handled(c, [cc[c] EXCEPT !.state = "READY"])
    /\ UNCHANGED vrtp

(* A connection that was not playing starts at the tail. *)
PLAY(c) ==
    /\ cc[c].state \in {"READY", "PLAYING"}
    /\ Handled(c, [cc[c] EXCEPT !.state = "PLAYING",
                                !.vrtp = IF @ # NULL /\ cc[c].state = "READY"
                                         THEN vstreamq.tail ELSE @])
    /\ UNCHANGED vrtp

(* TEARDOWN of the video track or of all. One of the audio track changes
   nothing as long as there is video. *)
TEARDOWN(c) ==
    /\ DelRtp(c)
    /\ Handled(c, [cc[c] EXCEPT !.vrtp = NULL, !.state = "INIT"])

ServeRequest ==
    /\ phase = "serve"
    /\ requests < MaxRequests
    /\ requests' = requests + 1
    /\ LET c == Head(todo)
       IN Answer(c) \/ SETUP(c) \/ PAUSE(c) \/ PLAY(c) \/ TEARDOWN(c)
    /\ UNCHANGED <<streamVars, conns, phase, todo, last, crash>>

(* The peer closed, or sent what is no RTSP: rtsp_del_client_connection. *)
ServeClosed ==
    /\ phase = "serve"
    /\ cc' = [cc EXCEPT ![Head(todo)] = Closed]
    /\ conns' = RemoveFirst(conns, Head(todo))
    /\ last' = [last EXCEPT ![Head(todo)] = 0]
    /\ Visit(Tail(todo))
    /\ UNCHANGED <<streamVars, crash>>

(* No more requests: a playing client is sent what it missed in the first
   send, if select() found its socket writable: it was asked about clients
   with packets left, and no request gives one packets. The test reads through
   the vrtp of before the requests. *)
ServeDone ==
    /\ phase = "serve"
    /\ IF cc[Head(todo)].state # "PLAYING" \/ vrtp = "null"
       THEN Visit(Tail(todo)) /\ UNCHANGED crash
       ELSE IF vrtp = "freed"
       THEN crash' = "staleVrtp" /\ UNCHANGED <<phase, todo, vrtp, requests>>
       ELSE /\ \/ HasPacket(Head(todo)) /\ phase' = "flush" /\ UNCHANGED <<todo, vrtp, requests>>
               \/ Visit(Tail(todo))
            /\ UNCHANGED crash
    /\ UNCHANGED <<streamVars, cc, conns, last>>

Flush == phase = "flush" /\ Transmit(Head(todo))

FlushDone ==
    /\ phase = "flush"
    /\ Visit(Tail(todo))
    /\ UNCHANGED <<streamVars, cc, conns, last, crash>>

-----------------------------------------------------------------------------
Leave == FirstSendDone \/ Select \/ ServeDone \/ FlushDone

Next ==
    /\ crash = NoCrash
    /\ TxVideo \/ FirstSend \/ ServeRequest \/ ServeClosed \/ Flush \/ Leave

Spec == Init /\ [][Next]_vars

(* The thread of a call that has begun goes on. Frames and requests need not
   come, and no socket need take a packet. *)
FairSpec == Spec /\ WF_vars(crash = NoCrash /\ Leave)

-----------------------------------------------------------------------------
(* Types of the variables. *)
TypeOK ==
    /\ vstreamq \in Ring!Queue
    /\ buf \in [Ring!Index -> 0 .. MaxPackets]
    /\ seq \in 0 .. MaxPackets
    /\ cc \in [Client -> [state : {"closed", "INIT", "READY", "PLAYING"},
                          bound : BOOLEAN, vrtp : Ring!Index \cup {NULL}]]
    /\ conns \in Seq(Client)
    /\ phase \in {"idle", "send", "serve", "flush"}
    /\ todo \in Seq(Client)
    /\ vrtp \in {"null", "live", "freed"}
    /\ requests \in 0 .. MaxRequests
    /\ last \in [Client -> 0 .. MaxPackets]
    /\ crash \in {NoCrash, "staleVrtp"}

(* However far a client lags and however often it pauses or renews its
   transport, its index names a packet the ring still holds, or the tail: it
   never reads a slot that is being reused (rtsp_demo.c:1802-1810). *)
IndexInRing ==
    \A c \in Client :
        Playing(c) => HasPacket(c) \/ cc[c].vrtp = vstreamq.tail

(* From head to tail the ring holds packets in the order of their numbers,
   also after a frame that failed half-way and left its packets behind in
   slots it had reserved (rtsp_demo.c:1841-1868), and no client is ever sent a
   packet twice, or an older one after a newer one: all that waits for it is
   newer than all it got. *)
PacketsInOrder ==
    /\ \A i, j \in SlotsFrom(vstreamq.head) :
          Ring!Distance(vstreamq.head, i) < Ring!Distance(vstreamq.head, j)
              => buf[i] < buf[j]
    /\ \A c \in Client : \A p \in Waiting(c) : p > last[c]

(* A frame gets a slot for every packet, although push is not looked at, and
   costs no more old packets than that takes (rtsp_demo.c:1791-1797 against
   1870-1873), wherever in the ring it begins. *)
FrameGetsItsSlots ==
    [][phase = "idle" /\ phase' # "idle" =>
          /\ Ring!Distance(vstreamq.tail, vstreamq'.tail) = seq' - seq
          /\ vstreamq'.head = Ring!Reserved(vstreamq, VRTP_MAX_NBPKTS).head]_vars

(* The connection list is the connections that are open, each once, and
   rtsp_do_event visits nobody it has deleted (rtsp_demo.c:1562-1568); who
   is in a session state is bound to the session that its handlers use. *)
ConnectionsKept ==
    /\ \A c \in Client :
          cc[c].state # "closed" <=> \E i \in DOMAIN conns : conns[i] = c
    /\ \A i, j \in DOMAIN conns : conns[i] = conns[j] => i = j
    /\ \A i \in DOMAIN todo : cc[todo[i]].state # "closed"
    /\ \A c \in Client : cc[c].state \in {"READY", "PLAYING"} => cc[c].bound

(* A client no more than VRTP_MAX_NBPKTS packets behind loses none to the
   frames that follow; one further behind loses the oldest only and keeps the
   newest VRTP_MAX_NBPKTS. *)
OnlyLaggardsLose ==
    [][\A c \in Client : phase \in {"idle", "send", "flush"} /\ Playing(c) =>
          \A p \in Waiting(c) \ (Waiting(c)' \cup {last'[c]}) :
              Cardinality({p2 \in Waiting(c) : p2 > p}) >= VRTP_MAX_NBPKTS]_vars

(* Whatever the clients' sockets do, a call of rtsp_sever_tx_video comes back:
   a socket that takes no more holds up neither the others nor the thread. *)
CallReturns == phase # "idle" ~> phase = "idle" \/ crash # NoCrash

=============================================================================
