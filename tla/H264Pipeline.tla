---------------------------- MODULE H264Pipeline ----------------------------
(***************************************************************************)
(* The four threads of the camera and the packets they hand on:            *)
(*   main  parses, initialises, starts the IPC thread, polls for SIGINT    *)
(*   ipc   TinyvisonIpcV1::run, starts and stops the two workers           *)
(*   enc   YuvToH264Encoder::run, produces H.264 packets                   *)
(*   rtsp  RtspServer::run, sends them                                     *)
(* The encoder calls RtspServer::PktQueueEnqueue in its own thread; the    *)
(* queue is a ThreadSafeQueue, whose size(), dequeue() and enqueue() each  *)
(* take the lock once, so each call is one step here and nothing is atomic *)
(* across two calls.                                                       *)
(*                                                                         *)
(* A packet (an H264Data and its buf) is the position at which it was      *)
(* handed to the sink; packets records what each one holds.                *)
(***************************************************************************)
EXTENDS Integers, Sequences

CONSTANTS
    RTSP_H264_QUEUE_MAX,   \* rtspServer.cpp:8, 3 in the code
    MaxPackets             \* bound: the encoder delivers no frame beyond it

ASSUME QueueMaxAssumption == RTSP_H264_QUEUE_MAX \in Nat \ {0}
ASSUME MaxPacketsAssumption == MaxPackets \in Nat

VARIABLES
    pc,         \* where each thread is; "off" is IThread::t = nullptr
    stopFlag,   \* main's global and IThread::stopFlag of the others
    staFlag,    \* stage of the encoder loop: capture, feed, fetch
    spsPps,     \* run's spsPps pointer is not null
    pending,    \* packets the encoder thread still has to emit, in order
    h264Queue,  \* RtspServer::h264Queue
    h264Data,   \* the local pointer of RtspServer::run
    initFlag,   \* RtspServer::initFlag, and its handles are not NULL
    reader,     \* what YuvReader::camera holds: nothing, live or freed memory
    packets,    \* history: kind of every packet allocated so far
    freed,      \* packets passed to ReleaseH264Data
    sent,       \* history: packets passed to SendPkt
    crash       \* undefined behaviour the process has run into

vars == <<pc, stopFlag, staFlag, spsPps, pending, h264Queue, h264Data,
          initFlag, reader, packets, freed, sent, crash>>

Thread == {"main", "ipc", "enc", "rtsp"}
Kind == {"hdr", "idr", "p"}
NULL == 0
GARBAGE == -1
NoCrash == "none"

packetVars == <<pending, h264Queue, packets, freed, sent>>
encVars == <<staFlag, spsPps>>

Packet == 1 .. Len(packets)
Goto(t, l) == pc' = [pc EXCEPT ![t] = l]

Init ==
    /\ pc = [t \in Thread |-> IF t = "main" THEN "init" ELSE "off"]
    /\ stopFlag = [t \in Thread |-> FALSE]
    /\ staFlag = 0
    /\ spsPps = FALSE
    /\ pending = <<>>
    /\ h264Queue = <<>>
    /\ h264Data = GARBAGE
    /\ initFlag = FALSE
    /\ reader = "none"
    /\ packets = <<>>
    /\ freed = {}
    /\ sent = <<>>
    /\ crash = NoCrash

-----------------------------------------------------------------------------
(* YuvReader::Uninit frees and closes whatever camera names, without looking
   whether it did so before; what the second free does is undefined. *)
UninitReader(r) ==
    /\ reader' = IF r = "none" THEN "none" ELSE "freed"
    /\ crash' \in IF r = "freed" THEN {NoCrash, "doubleFree"} ELSE {NoCrash}

(* ReleaseH264Data (mutant: the packet leaks). *)
Release_Leak(p) == freed' = freed
Release(p) == freed' = freed \cup {p}

(* The numbers of k new packets, in the order they are emitted. *)
Fresh(k) == [i \in 1 .. k |-> Len(packets) + i]

(* IThread::Start, called by thread self, which goes on at next. *)
Start(self, t, first, next) ==
    IF pc[t] = "off"
    THEN /\ stopFlag' = [stopFlag EXCEPT ![t] = FALSE]
         /\ pc' = [pc EXCEPT ![t] = first, ![self] = next]
    ELSE Goto(self, next) /\ UNCHANGED stopFlag

(* Mutant: Stop waits without asking. *)
RaiseStop_NoFlag(self, t, next) == Goto(self, next) /\ UNCHANGED stopFlag

(* IThread::Stop: raise the flag, then wait for the thread to return. *)
RaiseStop(self, t, next) ==
    /\ stopFlag' = [stopFlag EXCEPT ![t] = @ \/ pc[t] # "off"]
    /\ Goto(self, next)

Join(self, t, next) ==
    /\ pc[t] \in {"off", "done"}
    /\ pc' = [pc EXCEPT ![t] = "off", ![self] = next]
    /\ UNCHANGED stopFlag

-----------------------------------------------------------------------------
(* main. YuvToH264Encoder::Init reports success whatever its parts did, so
   the reader may be without a device, or (an ioctl of its Init failed) in a
   state in which releasing it is undefined; see YuvReader. *)
MainInit ==
    /\ pc["main"] = "init"
    /\ \E r \in {"none", "open", "freed"} :
          \/ /\ reader' = r
             /\ initFlag' = TRUE
             /\ Goto("main", "start")
             /\ UNCHANGED crash
          \/ /\ UninitReader(r)           \* rtspServer.Init failed
             /\ Goto("main", "exit")
             /\ UNCHANGED initFlag
    /\ UNCHANGED <<stopFlag, encVars, packetVars, h264Data>>

MainStart ==
    /\ pc["main"] = "start"
    /\ Start("main", "ipc", "startRtsp", "poll")
    /\ UNCHANGED <<encVars, packetVars, h264Data, initFlag, reader, crash>>

(* SIGINT, handled by signProc at any moment. *)
SignProc ==
    /\ pc["main"] \in {"init", "start", "poll"}
    /\ stopFlag' = [stopFlag EXCEPT !["main"] = TRUE]
    /\ UNCHANGED <<pc, encVars, packetVars, h264Data, initFlag, reader, crash>>

MainStop ==
    /\ \/ pc["main"] = "poll" /\ stopFlag["main"] /\ RaiseStop("main", "ipc", "joinIpc")
       \/ pc["main"] = "joinIpc" /\ Join("main", "ipc", "uninitEnc")
    /\ UNCHANGED <<encVars, packetVars, h264Data, initFlag, reader, crash>>

MainUninit ==
    /\ \/ /\ pc["main"] = "uninitEnc"
          /\ UninitReader(reader)
          /\ Goto("main", "uninitRtsp")
          /\ UNCHANGED initFlag
       \/ /\ pc["main"] = "uninitRtsp"
          /\ initFlag' = FALSE
          /\ Goto("main", "exit")
          /\ UNCHANGED <<reader, crash>>
    /\ UNCHANGED <<stopFlag, encVars, packetVars, h264Data>>

-----------------------------------------------------------------------------
(* ipc: the sender is started first and stopped last (mutant: first). *)
StopOrder_SenderFirst == <<"rtsp", "enc">>
StopOrder == <<"enc", "rtsp">>

IpcRun ==
    /\ \/ pc["ipc"] = "startRtsp" /\ Start("ipc", "rtsp", "loop", "startEnc")
       \/ pc["ipc"] = "startEnc" /\ Start("ipc", "enc", "first", "loop")
       \/ pc["ipc"] = "loop" /\ stopFlag["ipc"] /\ RaiseStop("ipc", StopOrder[1], "join1")
       \/ pc["ipc"] = "join1" /\ Join("ipc", StopOrder[1], "stop2")
       \/ pc["ipc"] = "stop2" /\ RaiseStop("ipc", StopOrder[2], "join2")
       \/ pc["ipc"] = "join2" /\ Join("ipc", StopOrder[2], "done")
    /\ UNCHANGED <<encVars, packetVars, h264Data, initFlag, reader, crash>>

-----------------------------------------------------------------------------
(* enc: before the loop, one packet of SPS and PPS, unless GetSpsPps or
   malloc fails. *)
EncFirst ==
    /\ pc["enc"] = "first"
    /\ spsPps' \in BOOLEAN
    /\ \/ /\ Goto("enc", "loop")
          /\ UNCHANGED <<packets, pending>>
       \/ /\ spsPps'
          /\ Len(packets) < MaxPackets
          /\ packets' = Append(packets, "hdr")
          /\ pending' = Fresh(1)
          /\ Goto("enc", "emit")
    /\ UNCHANGED <<stopFlag, staFlag, h264Queue, h264Data, initFlag, reader,
                   freed, sent, crash>>

EncLoop ==
    /\ pc["enc"] = "loop"
    /\ IF stopFlag["enc"] THEN UninitReader(reader) /\ Goto("enc", "done")
                          ELSE Goto("enc", "body") /\ UNCHANGED <<reader, crash>>
    /\ UNCHANGED <<stopFlag, encVars, packetVars, h264Data, initFlag>>

(* OutBuf and YuvIn succeeded: fall through to the next stage (mutant: the
   result of OutBuf is not looked at). *)
EncNextStage_NotLookedAt ==
    /\ pc["enc"] = "body"
    /\ staFlag < 2
    /\ staFlag' = staFlag + 1
    /\ UNCHANGED <<pc, stopFlag, spsPps, packetVars, h264Data, initFlag, reader, crash>>
EncNextStage ==
    /\ pc["enc"] = "body"
    /\ staFlag < 2
    /\ reader = "open"
    /\ staFlag' = staFlag + 1
    /\ UNCHANGED <<pc, stopFlag, spsPps, packetVars, h264Data, initFlag, reader, crash>>

(* The stage has nothing yet (or failed): sleep, and come back to it. *)
EncRetry ==
    /\ pc["enc"] = "body"
    /\ Goto("enc", "loop")
    /\ UNCHANGED <<stopFlag, encVars, packetVars, h264Data, initFlag, reader, crash>>

(* Out delivered a frame. A key frame goes out behind a copy of SPS and PPS,
   when there is one and malloc gave memory for the copy. *)
EncOut ==
    /\ pc["enc"] = "body"
    /\ staFlag = 2
    /\ \E kinds \in {<<"p">>, <<"idr">>} \cup (IF spsPps THEN {<<"hdr", "idr">>} ELSE {}) :
          /\ Len(packets) + Len(kinds) <= MaxPackets
          /\ packets' = packets \o kinds
          /\ pending' = Fresh(Len(kinds))
    /\ Goto("enc", "emit")
    /\ UNCHANGED <<stopFlag, encVars, h264Queue, h264Data, initFlag, reader,
                   freed, sent, crash>>

-----------------------------------------------------------------------------
(* RtspServer::PktQueueEnqueue, in the encoder thread. *)
Emitted ==
    /\ pending' = Tail(pending)
    /\ Goto("enc", IF Len(pending) = 1 THEN "loop" ELSE "emit")
    /\ staFlag' = IF Len(pending) = 1 THEN 0 ELSE staFlag

EnqueueRefused ==
    /\ pc["enc"] = "emit"
    /\ ~initFlag \/ stopFlag["rtsp"]
    /\ Release(Head(pending))
    /\ Emitted
    /\ UNCHANGED <<stopFlag, spsPps, h264Queue, packets, sent, h264Data,
                   initFlag, reader, crash>>

EnqueueAccepted ==
    /\ pc["enc"] = "emit"
    /\ initFlag /\ ~stopFlag["rtsp"]
    /\ Goto("enc", "size")
    /\ UNCHANGED <<stopFlag, encVars, packetVars, h264Data, initFlag, reader, crash>>

QueueFull == Len(h264Queue) >= RTSP_H264_QUEUE_MAX

EnqueueSize ==
    /\ pc["enc"] = "size"
    /\ Goto("enc", IF QueueFull THEN "drop" ELSE "put")
    /\ UNCHANGED <<stopFlag, encVars, packetVars, h264Data, initFlag, reader, crash>>

(* Mutant: a full queue turns the new packet away. *)
EnqueueDrop_Newest ==
    /\ pc["enc"] = "drop"
    /\ Release(Head(pending))
    /\ Emitted
    /\ UNCHANGED <<stopFlag, spsPps, h264Queue, packets, sent, h264Data,
                   initFlag, reader, crash>>

(* The queue may have been emptied since: then the loop breaks. *)
EnqueueDrop ==
    /\ pc["enc"] = "drop"
    /\ IF h264Queue = <<>>
       THEN Goto("enc", "put") /\ UNCHANGED <<h264Queue, freed>>
       ELSE /\ h264Queue' = Tail(h264Queue)
            /\ Release(Head(h264Queue))
            /\ Goto("enc", "size")
    /\ UNCHANGED <<stopFlag, encVars, pending, packets, sent, h264Data,
                   initFlag, reader, crash>>

EnqueuePut ==
    /\ pc["enc"] = "put"
    /\ h264Queue' = Append(h264Queue, Head(pending))
    /\ Emitted
    /\ UNCHANGED <<stopFlag, spsPps, packets, freed, sent, h264Data,
                   initFlag, reader, crash>>

Enc == \/ EncFirst \/ EncLoop \/ EncNextStage \/ EncRetry \/ EncOut
       \/ EnqueueRefused \/ EnqueueAccepted \/ EnqueueSize \/ EnqueueDrop \/ EnqueuePut

-----------------------------------------------------------------------------
(* rtsp: the send loop, until stopFlag; then the drain. *)
RtspLoop ==
    /\ pc["rtsp"] = "loop"
    /\ Goto("rtsp", IF stopFlag["rtsp"] THEN "drainSize" ELSE "size")
    /\ UNCHANGED <<stopFlag, encVars, packetVars, h264Data, initFlag, reader, crash>>

(* Mutant: one packet is always left in the queue. *)
PacketWaiting_KeepsOne == Len(h264Queue) > 1
PacketWaiting == Len(h264Queue) > 0

RtspSize ==
    /\ \/ /\ pc["rtsp"] = "size"
          /\ Goto("rtsp", IF PacketWaiting THEN "dequeue" ELSE "loop")
       \/ /\ pc["rtsp"] = "drainSize"
          /\ Goto("rtsp", IF PacketWaiting THEN "drain" ELSE "done")
    /\ UNCHANGED <<stopFlag, encVars, packetVars, h264Data, initFlag, reader, crash>>

(* The result of dequeue is not looked at: on an empty queue h264Data keeps
   the value it had, and the next line reads through it. *)
RtspDequeue ==
    /\ pc["rtsp"] = "dequeue"
    /\ IF h264Queue = <<>>
       THEN /\ crash' = IF h264Data = NULL THEN "nullDeref" ELSE "wildDeref"
            /\ UNCHANGED <<pc, h264Queue, h264Data>>
       ELSE /\ h264Data' = Head(h264Queue)
            /\ h264Queue' = Tail(h264Queue)
            /\ Goto("rtsp", "send")
            /\ UNCHANGED crash
    /\ UNCHANGED <<stopFlag, encVars, pending, packets, freed, sent, initFlag, reader>>

(* Mutant: h264Data is not set back to nullptr. *)
RtspSend_NoReset ==
    /\ pc["rtsp"] = "send"
    /\ sent' = IF initFlag THEN Append(sent, h264Data) ELSE sent
    /\ Release(h264Data)
    /\ Goto("rtsp", "loop")
    /\ UNCHANGED <<stopFlag, encVars, pending, h264Queue, h264Data, packets,
                   initFlag, reader, crash>>

RtspSend ==
    /\ pc["rtsp"] = "send"
    /\ sent' = IF initFlag THEN Append(sent, h264Data) ELSE sent
    /\ Release(h264Data)
    /\ h264Data' = NULL
    /\ Goto("rtsp", "loop")
    /\ UNCHANGED <<stopFlag, encVars, pending, h264Queue, packets, initFlag, reader, crash>>

(* Releasing NULL does nothing, releasing an unset pointer is undefined. *)
RtspDrain ==
    /\ pc["rtsp"] = "drain"
    /\ IF h264Queue = <<>>
       THEN /\ crash' = IF h264Data = NULL THEN NoCrash ELSE "wildDeref"
            /\ UNCHANGED <<h264Queue, freed>>
       ELSE /\ h264Queue' = Tail(h264Queue)
            /\ Release(Head(h264Queue))
            /\ UNCHANGED crash
    /\ h264Data' = NULL
    /\ Goto("rtsp", "drainSize")
    /\ UNCHANGED <<stopFlag, encVars, pending, packets, sent, initFlag, reader>>

Rtsp == RtspLoop \/ RtspSize \/ RtspDequeue \/ RtspSend \/ RtspDrain

-----------------------------------------------------------------------------
Main == MainInit \/ MainStart \/ MainStop \/ MainUninit

Next == crash = NoCrash /\ (Main \/ SignProc \/ IpcRun \/ Enc \/ Rtsp)

(* The scheduler runs every thread that has something to do; nothing makes
   SIGINT arrive or the devices deliver. That OutBuf returns is assumed here:
   YuvReader shows that it takes a camera that goes on delivering. *)
ThreadFairness ==
    /\ WF_vars(crash = NoCrash /\ Main)
    /\ WF_vars(crash = NoCrash /\ IpcRun)
    /\ WF_vars(crash = NoCrash /\ Enc)
    /\ WF_vars(crash = NoCrash /\ Rtsp)

Spec == Init /\ [][Next]_vars
FairSpec == Spec /\ ThreadFairness

-----------------------------------------------------------------------------
Location ==
    [main |-> {"init", "start", "poll", "joinIpc", "uninitEnc", "uninitRtsp", "exit"},
     ipc  |-> {"off", "startRtsp", "startEnc", "loop", "join1", "stop2", "join2", "done"},
     enc  |-> {"off", "first", "loop", "body", "emit", "size", "drop", "put", "done"},
     rtsp |-> {"off", "loop", "size", "dequeue", "send", "drainSize", "drain", "done"}]

TypeOK ==
    /\ pc \in [Thread -> UNION {Location[t] : t \in Thread}]
    /\ \A t \in Thread : pc[t] \in Location[t]
    /\ stopFlag \in [Thread -> BOOLEAN]
    /\ staFlag \in 0 .. 2
    /\ spsPps \in BOOLEAN
    /\ packets \in Seq(Kind)
    /\ pending \in Seq(Packet)
    /\ h264Queue \in Seq(Packet)
    /\ h264Data \in Packet \cup {NULL, GARBAGE}
    /\ initFlag \in BOOLEAN
    /\ reader \in {"none", "open", "freed"}
    /\ freed \in SUBSET Packet
    /\ sent \in Seq(Packet)
    /\ crash \in {NoCrash, "nullDeref", "wildDeref", "doubleFree"}

(* README.md:88. The queue never holds more than its limit, although size(),
   dequeue() and enqueue() are three separate critical sections. *)
QueueBounded == Len(h264Queue) <= RTSP_H264_QUEUE_MAX

(* Between enqueue, dequeue, send, drop and release a packet has one owner:
   it is freed, or pending in the encoder thread, or in the queue, or in the
   hand of the sender, never in two of these; and owners hold packets in the
   order they were emitted. No packet leaks, none is released twice, none is
   used after its release. *)
Ordered(s) == \A i, j \in DOMAIN s : i < j => s[i] < s[j]
InFlight == {p \in Packet : \/ h264Data = p
                            \/ \E i \in DOMAIN h264Queue : h264Queue[i] = p
                            \/ \E i \in DOMAIN pending : pending[i] = p}
OneOwner ==
    /\ Ordered(pending)
    /\ Ordered(h264Queue)
    /\ \A i \in DOMAIN h264Queue, j \in DOMAIN pending : h264Queue[i] < pending[j]
    /\ \A i \in DOMAIN h264Queue : h264Data < h264Queue[i]
    /\ \A j \in DOMAIN pending : h264Data < pending[j]
    /\ freed = Packet \ InFlight

(* Clients receive packets in the order the encoder produced them, whatever
   was dropped in between (rtspServer.cpp:106-119 against 133-136). *)
SentInOrder == Ordered(sent) /\ \A i \in DOMAIN sent : sent[i] \in freed

(* The pointer RtspServer::run declares without a value (rtspServer.cpp:125)
   is never read before some dequeue has set it. *)
NoWildDereference == crash # "wildDeref"

(* When main uninitialises, no thread is left that could still use the
   encoder, the reader or the RTSP session, and when it ends every packet ever
   allocated has been released. *)
OrderlyExit ==
    /\ pc["main"] \in {"uninitEnc", "uninitRtsp", "exit"} =>
          \A t \in Thread \ {"main"} : pc[t] = "off"
    /\ pc["main"] = "exit" => freed = Packet /\ h264Queue = <<>>

(* SIGINT stops the program (docs/project-overview.md:19). *)
Shutdown == stopFlag["main"] ~> (pc["main"] = "exit" \/ crash # NoCrash)

(* Every packet is sent or dropped, none waits for ever. *)
EveryPacketSettled ==
    \A p \in 1 .. MaxPackets : p \in Packet ~> (p \in freed \/ crash # NoCrash)

-----------------------------------------------------------------------------
(* The pipeline keeps the promise of PacketDelivery: at most the queue, one
   packet being sent and two being emitted are in flight, and a packet is
   lost only for a newer one or because the server is stopping. *)
Delivery == INSTANCE PacketDelivery WITH
                Capacity <- RTSP_H264_QUEUE_MAX + 3,
                open <- initFlag /\ ~stopFlag["rtsp"],
                emitted <- Len(packets),
                settled <- freed,
                delivered <- sent
DeliverySpec == Delivery!DeliverySpec

(* The threads use the camera reader as its contract allows: they take frames
   only from one that is open (yuvToH264Encoder.cpp:147-151); that a reader
   already released is released again is left undefined. *)
Contracted == INSTANCE CameraContract WITH
                  called <- pc["main"] # "init",
                  frame <- staFlag >= 1,
                  crash <- IF crash = "doubleFree" THEN crash ELSE NoCrash
CameraSpec == Contracted!Contract

-----------------------------------------------------------------------------
(* README.md:88: a slow sender costs old packets, and nothing else. The size
   seen at rtspServer.cpp:132 may be stale at 133. *)
SlowSenderOnlyDrops == crash # "nullDeref"

(* docs/project-overview.md:19: SIGINT stops the program, that is, a camera
   that has sent a frame ends without running into undefined behaviour. Both
   YuvToH264Encoder::run (line 197) and Uninit release the reader. *)
StopsCleanly ==
    (\E i \in DOMAIN sent : packets[sent[i]] # "hdr") => crash # "doubleFree"
=============================================================================
