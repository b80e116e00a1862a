# A verification project for tinyvisionIpc

tinyvisionIpc is a network camera for TinyVision / Allwinner boards: it takes
YUV frames from a V4L2 device, has a hardware encoder turn them into H.264 and
serves the stream over RTSP. This directory holds TLA+ models of the parts of
it in which something can go wrong between threads, over a socket or in a long
sequence of legal calls, the TLC runs that check them, and proofs checked by
TLAPS. Paths below are relative to `src/`.

    tlc -config MCPipeline.cfg H264Pipeline      # one run, see "Runs"
    tlapm H264PipelineProofs.tla                 # the proofs

## 1. The system

### Parts, their state and their operations

| part | files | state | operations |
| --- | --- | --- | --- |
| program | `main.cpp` | `stopFlag`, arguments | parse, init, start, poll for SIGINT, stop, uninit |
| control thread | `tinyvisonIpcV1.cpp`, `utils/IThread/IThread.*` | `IThread::t`, `stopFlag` per thread | `Start`, `Stop` (raise flag, join), `run` |
| encoder thread | `yuvToH264Encoder.cpp` | `staFlag`, `spsPps`, packets to emit | `run`: OutBuf, YuvIn and InBuf, Out; `EmitH264Data` |
| packet queue | `rtspServer.cpp`, `utils/IThread/ThreadSafeQueue.h` | `h264Queue`, `initFlag` | `PktQueueEnqueue` with drop, `run`: send, drain |
| camera reader | `yuvReader.cpp` | descriptor, two mapped buffers, `read_buf` | `Init`, `OutBuf`, `InBuf`, `Uninit` |
| hardware encoder | `H264Encoder.cpp` | library handle, context, memory adapter, SPS/PPS, macroblock map; `valid_quene`, `empty_quene`, nodes | `Init`, `Uninit`, `YuvIn`, `Out`, `GetSpsPps`; callbacks `InputBufferDone` and `UpdateMbModeInfo` |
| stream ring | `3rd/rtsp_lib/stream_queue.c` | head, tail | push, pop, next, inused |
| streaming to clients | `3rd/rtsp_lib/rtsp_demo.c` | ring, connections, `streamq_index` of each | `rtsp_sever_tx_video`, `rtsp_do_event`, requests |
| sessions | `rtsp_demo.c` | sessions, their tracks and connections, RTP connections, session ids, UDP ports | lookup by path, SETUP, TEARDOWN, deletion |
| messages | `rtsp_msg.c` | headers and body | set, build into a buffer, parse line by line |
| request reading | `rtsp_demo.c`, `rtsp_msg.c` | `reqbuf`, `reqlen` | `rtsp_recv_msg`, `rtsp_msg_frame_size` |
| packetisation | `rtp_enc.c`, `utils.c` | sequence number | `rtsp_find_h264_h265_nalu`, `rtp_enc_h264`, `rtp_enc_h265` |
| codec data | `utils.c`, `rtsp_demo.c` | parameter sets of a session | learn from a frame, `base64_encode` for DESCRIBE |
| interleaved sending | `rtsp_demo.c` | send buffer of the socket | `rtp_tx_data`, `rtsp_send_msg`, `rtcp_try_tx_sr` |
| SDP text, digest, MD5 | `rtsp_demo.c`, `utils.c`, `authenticate.c`, `our_md5.c` | none | parse, build |
| helpers | `ion_alloc.*`, `time_elaps.*`, `ILog.h`, `queue.h` | none that matters here | |

### How they interact

Four threads of the program and one of the codec library:

    main ──Start/Stop──> ipc (TinyvisonIpcV1::run) ──Start/Stop──> enc, rtsp
    camera ──DQBUF──> enc ──YuvIn──> codec ──InputBufferDone (codec's thread)──> lists
                      enc ──PktQueueEnqueue, called in enc──> h264Queue ──> rtsp
    rtsp ──rtsp_sever_tx_video──> NAL units ──> RTP packets ──> ring ──> clients
    rtsp ──rtsp_do_event, called inside it──> requests of the clients, responses

- `h264Queue` is shared by enc and rtsp. Each of `size`, `dequeue`, `enqueue`
  takes the lock; nothing holds it across two of them.
- The lists of input buffers are shared by enc and the codec's thread with no
  lock at all. The context they are part of is made by main, before the threads
  start, and freed by main, after enc was joined and the codec destroyed.
- All of `rtsp_lib` runs in the thread rtsp; what is concurrent there is the
  sockets and the clients. A request is answered before the next is read, and
  packets go out before and behind all of them, on the same connection if the
  client plays over TCP.
- The camera reader is released by enc when its loop ends and by main after
  it has joined the threads.

### What is hard

Stale sizes of the queue; a drop that takes the wrong packet; who frees a
packet when threads stop; list surgery without a lock; indexes of slow clients
into a ring that moves on; a list of connections that changes while it is
walked; requests cut and glued by TCP; a send that takes half of a packet, or
meets a client that is gone; parameter sets spread over frames; planes whose
sizes are rounded twice; an initialisation that fails half-way and is not
noticed. `PROJECT.json`
"hazards" has each with its line.

### What makes each part correct

| part | properties |
| --- | --- |
| pipeline | bounded queue; one owner per packet; order kept; no thread left when memory goes; everything released at exit; SIGINT ends the program |
| camera reader | a frame does not change while it is copied; buffers circulate; Init and Uninit match |
| hardware encoder | a node is on one list or in one hand, and lost only in a race; no write into a buffer being read; copies stay in their planes; nothing is used before it is there or after it is gone; frames keep being fed |
| ring and clients | an index is never on a slot being reused; order; no repetition; loss only for who lags; calls end |
| request reading | what is handled is what was sent, each message once; no connection gets stuck or lost without cause |
| packetisation | a receiver rebuilds the NAL units |
| codec data | the session knows the parameter sets of its stream, and tells them byte for byte |
| interleaved sending | the reader stays in frame; one answer for each request; every packet goes out; who leaves in order harms nobody |
| sessions | sockets match transports; connections and sessions know each other; what a client was told holds; deletion ends and leaves nothing |
| messages | what is built is read back; a message that was cut off is never taken for a whole one; framing and parser agree |

## 2. Modules

| module | models | role |
| --- | --- | --- |
| `H264Pipeline` | main, ipc, enc, rtsp, packet queue | core; four processes |
| `PacketDelivery` | what the pipeline promises: a lossy FIFO of bounded capacity | abstract specification |
| `H264PipelineProofs` | theorems about `H264Pipeline`: invariants and both refinements | TLAPS |
| `YuvReader` | camera reader with the V4L2 driver and the stages of `run` that use it | detailed |
| `YuvReaderProofs` | theorems about `YuvReader` | TLAPS |
| `CameraContract` | what the pipeline may rely on in the reader | shared contract |
| `InputBufferMgr` | the lists of input buffers, one memory access per step | actions |
| `FrameGeometry` | sizes, rates and quantiser between command line and codec | operators |
| `H264Encoder`, `MCH264Encoder` | the encoder from `Init` to `Uninit`, main, enc and the codec's thread | composes the two above; the second gives command lines |
| `H264EncoderProofs` | theorems about these | TLAPS |
| `StreamQueue` | the ring and the two loops on it | operators |
| `RtspStream` | sending a frame and serving requests, per client | uses `StreamQueue` |
| `RtspStreamProofs` | theorems about these two | TLAPS |
| `RtpPacketize` | NAL search, single packets and fragments, H.264 and H.265 | algorithm, step by step |
| `TxVideo`, `MCTxVideo` | frames of a session: parameter sets learned, packets, DESCRIBE | uses `RtpPacketize`; the second gives the frames |
| `TxVideoProofs` | theorems about the packets of `TxVideo`, what is learned, told and rebuilt | TLAPS |
| `RtspReceive` | from a client: request buffer and framing | actions |
| `TcpInterleaved` | to a client: bytes on a TCP connection | actions |
| `RtspConnection` | one connection in both directions | composes the two above |
| `RtspConnectionProofs` | theorems about it, in both directions | TLAPS |
| `RtspSession`, `MCRtspSession` | sessions, tracks, SETUP with its port search, TEARDOWN, deletion | detailed; the second gives the paths |
| `RtspSessionProofs` | theorems about `RtspSession` | TLAPS |
| `RtspMessage` | messages: set, build, frame, parse | algorithm, run line by line |
| `RtspMessageProofs` | theorems about it | TLAPS |

### State and actions against the code

`H264Pipeline`. A thread's `pc` is its position between two accesses to shared
state; `off` is `IThread::t == nullptr`. A packet is its number, `packets` says
what it holds, `freed` records `ReleaseH264Data`. `PktQueueEnqueue` is five
actions (refused, accepted, size, drop, put) because the queue's lock is taken
and released by each call on it; `RtspServer::run` reads `size()` and
dequeues in two. `h264Data` is the local pointer, `GARBAGE` until first
assigned (`rtspServer.cpp:125`). A run into undefined behaviour sets `crash`
and ends the behaviour. `MainInit` leaves the reader in one of three states
because `YuvToH264Encoder::Init` does not look at what its parts return.

`YuvReader` keeps the two queues of the driver and the buffer in the program's
hand. `Init` is four actions, by where it gives up: before any buffer, at a
buffer (the mappings made so far stay), at `STREAMON` (nothing is released),
or not at all. `read_buf.m.userptr` is the storage a single-planar driver puts
the offset in, 0 for the first buffer: `AddressNull`. `VIDIOC_DQBUF` may fail at
any time (`OutBufFail`), with a full buffer waiting too; with none, while the
camera streams, it blocks (`Waits`). A second `Uninit` calls `ioctl` and `close` on
a descriptor number that is no longer the camera's (`yuvReader.cpp:399`, `456`);
in the model that does nothing, whatever the number may stand for by then.

`CameraContract` joins the two. `H264Pipeline` shows that it takes frames only
from an open reader and releases it as the contract says (`CameraSpec` there),
`YuvReader` that what it leaves after `Init`, `OutBuf` and `Uninit` is one of
the contract's states (`CameraSpec` there). This is why the pipeline may treat
the reader as three values.

`InputBufferMgr` splits `enqueue` and `dequeue` at each read and write of a
head or a link. `H264Encoder` gives the lists their life. `Init` is three
actions, by where it gives up: no context, no memory adapter, or not at all, in
which case any of the input buffers may be missing, since the result of
`VencAllocateInputBuf` is not looked at. What `Init` returned is looked at by
nobody, so enc runs in any case. A member that `Init` did not get to is
`indeterminate`: using it may crash or not. `Uninit` is its three parts. The use
of memory that is not there sets `crash` and ends the behaviour. `raced`
remembers that both threads were once between the first and the last access to
the same list. A copy that is longer than its plane is seen by
`CopyStaysInPlanes`; what it overwrites is not followed.

`RtspStream` is a state machine of one thread: `idle`, `send` (first send, one
client after the other), `serve` (its requests), `flush` (second send). A
request is one action; whether a socket takes a packet is a choice. The ring
functions of `StreamQueue` run the loops of the code as recursive functions;
`Reserved` is the closed form they are compared with.

`RtspReceive` works on bytes of a few classes (line end, `$`, a length, text),
`TcpInterleaved` likewise; neither has a behaviour of its own. In
`RtspConnection` the client talks, reads and closes when it likes, the network
delivers any number of bytes at a time, and the server is where it is in
`rtsp_do_event`: `serving` while it takes requests (`Take`, then `Answer`),
`sending` between the header and the body of a packet; only when it is in
neither may the other begin. `owed` is the answer to the request just read.
`peer` follows a connection the client has closed: a send succeeds or fails,
then the reset is known, then a send raises SIGPIPE and the process is gone
(`killed`). A TEARDOWN may be refused, for its session or its path, or name one of
two tracks: `Answer` chooses whether it is granted, and only then does it end
playing (`Ends`).

`RtpPacketize` works on frames over {0, 1}, the two byte values the search
tells apart, with packets of 4 bytes. `TxVideo` puts the parameter sets around
it: `LearnNalu` is a turn of the loop that looks for them, `NextFrame` has the
test which decides whether it runs, `Describe` is the answer to a client.
Base64 is computed on numbers 0 to 63; the table of characters is left out.

`RtspSession` keeps the lists of the code (`sessions_qhead`, and
`connections_qhead` of the server and of each session) and a record for each
connection. A request is one action, except for a SETUP over UDP: each turn of
`__rtp_udp_local_setup` is a step, since sockets are opened in it and either
bind may fail. Deleting a session or the server is one step for each connection
taken off a list. A path is the sequence of its components, so that
`rtsp_path_match` is "is a prefix of". `told` remembers what the answers to a
client said. When `rtsp_new_session` meets a path that is taken it frees the
session it found there, which stays in the list (`rtsp_demo.c:507`): the model
sets `crash` and stops.

`RtspMessage` sets headers in any order, builds one line after the other into a
buffer of some size, and parses the text that came out; or it starts with the
text of a client. A text is a sequence of pieces, each of one byte's length:
what matters is where it is cut, which lines are there and in which order. A length
has two readers. The framing asks for "Content-Length" and takes what `sscanf` does
with any space or none and a sign (`rtsp_msg.c:827`); the parser's table has the
name with its colon and one space (`rtsp_msg.c:707`), and passes over a line
without the space as `Unknown`. So the client's lines have lengths behind a
space (`Digits`), right behind the colon (`Tight`), below zero, and one neither
can read (`BAD`, which is also what the framing makes of `Content-Length-X`). The
frame is cut by one reading (`ContentLength`), the body copied by the other
(`LengthOf`), out of what lies there (`BodyRead`).

## 3. Runs

| run | shows | bounds |
| --- | --- | --- |
| `pipeline` | all safety of the pipeline, both refinements, and liveness | queue of 2, 4 packets |
| `pipeline_slow_sender` | finding: null pointer after a stale `size()` | queue of 3, 7 packets |
| `pipeline_stops_cleanly` | finding: the reader is released twice | same |
| `yuv_reader` | frame stability, causes of loss, clean release, contract, progress | the 2 buffers of the code |
| `encoder` | nodes and buffers in one hand, causes of a crash and of lost nodes, clean release, progress | the 2 buffers of the code, 640x480 and 1920x1080 |
| `encoder_planes` | finding: eight rows of chroma too many | 640x480 and 1280x720 |
| `stream` | ring, clients, requests | 2 clients, frames of up to 2 packets, 5 packets, 1 request per client and event |
| `tx_video` | NAL units survive packetisation; parameter sets are learned and told | any frame of up to 13 bytes, 4 bytes and 3 packets; 2 frames of up to 3 of four NAL units, parameter sets of up to 4 bytes |
| `connection` | requests are handled as sent and answered in frame; packets and messages get through; who may end the process | 2 messages of up to 8 bytes, request buffer of 7, of which 6 are used, send buffer of 4, 1 packet, 1 report |
| `tcp_slow_reader` | finding: framing lost with a slow reader | 2 packets |
| `sessions` | sockets, bindings and answers agree; deletion ends | 2 clients, 3 paths (one above the others), ports 2 to 5, 2 SETUPs |
| `messages` | build and parse fit together at every buffer size | 7 headers, bodies of 0 to 2 bytes, buffers up to 36, 3 header lines of a client, lengths also of -1 and -10 |

Why the bounds suffice. *Pipeline*: with a queue of 2, four packets fill queue,
sender and encoder at once, so that drops happen, also with a key frame and its
header waiting in the encoder; after the drop nothing depends on how many came
before, and the safety part is proved for every limit. *Stream*: the ring has
2 * 2 + 1 slots, so five packets go round it once; frames may fail between
their packets, and one client can lag behind the other by more than the
reserve; the safety part is proved for every `VRTP_MAX_NBPKTS`. One request per
visit is enough, since further requests come with the next visit. *Encoder*: a third
buffer would never be used, as one frame is fed at a time; the proof of
`NoWriteWhileQueued` is for any number. *Tx_video*: 13 bytes hold four start
codes, NAL units of one, two and three packets, and one byte less and more than
each. Two frames are enough to have a parameter set before, with and after the
others, and again when all are known; sets are one byte shorter and longer than
the array, and have every length of tail base64 tells apart; what is told is
proved for every length. *Connection*: the
server keeps one byte of the request buffer free, so 6 bytes are a whole short
request and the start of the next, and less than the longest messages of 7 and
8: those never fit, `recv` is asked for no bytes, and the connection is stuck
(`Stuck`). Any cut in between occurs; all three invariants are proved
for every size. The send buffer takes one framed packet and
part of a response or report, so that it fills at every byte of one. *Sessions*: two clients on two pairs of ports
can take each other's pair, use up all, and replace their own; one path above
two others gives every way a path can match. Two SETUPs that get as far as a
transport: one client with both tracks, the same track twice, or one for each
client; a third would repeat one of these. *Messages*: 36 bytes are more than
the longest message, so every place to cut it occurs, as does a buffer it just
fits; a length of -1 leaves a frame one byte short, one of -10 may leave none; the seven headers include one whose builder and parser are empty
(`Range`), one that accepts any text (`Server`), and all that may be refused;
three lines allow a header twice with another in between; all three invariants
are proved for any headers, sizes and number of lines.

A step bound (`MaxPackets`, `MaxMessages`, ...) only stops the environment from
producing more, never the program from finishing; that is also why these runs
do not check deadlock: the program really has an end, or nothing more comes.
In `encoder` nothing is bounded; the program
ends there with `Uninit`, or with a crash. The type invariants are in no run:
they are where the proofs begin (`TypeCorrect`, `Pointers`). So are
`QueueBounded` and `SentInOrder`, which are proved, and of which
`DeliverySpec` says more.

## 4. Fairness

- `H264Pipeline`: weak fairness of each thread: the scheduler runs it when it
  can go on. Nothing makes SIGINT come or the camera deliver; `Enc` includes
  the retry that comes back from a stage without result. That `OutBuf` returns
  at all is the assumption that the camera goes on delivering: the device is
  opened without `O_NONBLOCK` (`yuvReader.cpp:64`), so with a dead camera the
  encoder stays in `VIDIOC_DQBUF` and the join of the shutdown waits for it.
- `YuvReader`: threads as above, except where enc is blocked in `VIDIOC_DQBUF`
  (`Waits`), and the driver fills queued buffers: `FramesKeepComing` is about the
  program, with a camera that delivers. OutBuf, YuvIn and Out get strong
  fairness: they may fail often, and succeed when tried often enough.
- `RtspStream`: the thread of a call that has begun goes on. No socket need
  take a packet.
- `H264Encoder`: each of the two threads goes on when it can, and the library
  encodes what it was given. Main need not stop the program, and `Init` need not
  succeed: `FramesKeepBeingFed` names the cases in which feeding ends.
- `RtspConnection`: the network delivers what was sent; a call that has begun
  goes on; frames, which drive `rtsp_do_event`, keep coming. The client reads
  everything now and then, and now and then it has read all when a frame comes:
  strong fairness of a header that finds the buffer empty. Without it a client
  whose socket is full at every frame is sent nothing, which is as it should be.
- `RtspSession`: a deletion or a port search that has begun goes on; it is a loop
  in one call. No request, no client and no end of the server need come.

## 5. Proofs

`H264PipelineProofs` proves, for every `RTSP_H264_QUEUE_MAX` of at least 1 and
every `MaxPackets`:

| theorem | statement |
| --- | --- |
| `TypeCorrect` | `Spec => []TypeOK` |
| `QueueKeepsLimit` | `Spec => []QueueBounded` |
| `PacketsOwnedAndOrdered` | `Spec => [](OneOwner /\ SentInOrder)` |
| `UnsetPointerNeverRead` | with a limit of at least 2, `Spec => []NoWildDereference` |
| `OrderlyShutdown` | `Spec => []OrderlyExit` |
| `PipelineDelivers` | `Spec => DeliverySpec` |
| `PipelineKeepsContract` | `Spec => CameraSpec` |

*Type invariant.* `TypeOK` is not inductive: `EnqueuePut` needs a packet to be
pending, and where `staFlag` is 2 matters for `EncOut`. `TypeInv` adds what the
control says of the data, and is kept in two halves (control, data) because the
backends treat them differently.

*Queue limit.* `QueueBounded` alone does not survive `EnqueuePut`. `RoomWhenPut`
adds that at `put` there is room: only the encoder adds to the queue, so what it
saw at `size` can only have become less. This is why three critical sections
are enough here.

*Ownership.* `Ownership` says that pending packets, queue and the sender's hand
are disjoint, ordered and together with `freed` all there is; each action hands
one packet on. `OneOwner` and `SentInOrder` follow (`OwnershipMeaning`).

*The unset pointer.* The sender finds the queue empty after having seen a
packet only if the encoder dropped it; with a limit of at least 2 a drop leaves
a packet behind unless the sender took one before, and then the pointer was
set. With a limit of 1 the claim is false, so the assumption is needed.
That the pointer may be *null* there is the finding `pipeline_slow_sender`.

*Shutdown.* `Lifecycle` relates the position of main, of ipc and of the workers:
who has been joined is off, and the drain has emptied the queue before rtsp is
done.

*Refinements.* `PipelineDelivers` proves `Spec => DeliverySpec`: under the
mapping of `H264Pipeline` each step is a step of `PacketDelivery` or changes
nothing it sees. This takes the whole of `PipelineInv`: types, `RoomWhenPut` (a
put is an accepted packet within the capacity), `Ownership` (a release is of a
packet somebody held) and `Lifecycle` (the drain is the loss at the end).
`PipelineKeepsContract` proves `CameraSpec` from the same invariant and
`NotYetOpen`: while main and ipc are still starting, no packet exists and rtsp has
not been told to stop.

`H264EncoderProofs` proves, for every number of input buffers and any set of
command lines that `ParseArgs` accepts:

| theorem | statement |
| --- | --- |
| `BuffersNotOverwritten` | `Spec => []NoWriteWhileQueued` |
| `CrashNeedsFailedInit` | `Spec => []CrashForCause` |
| `UninitReleases` | `Spec => []EncoderReleased` |
| `NodesNeverLostWithoutRace` | `Spec => []NodesKeptWithoutRace` |
| `NodesHandedOutOnce` | `Spec => []NodeHeldOnce` |
| `CopiesFit` | if each height rounds up to a multiple of 32, `Spec => []CopyStaysInPlanes` |

*Buffers.* What keeps YuvIn off a buffer being read is not the lists, which two
threads change without a lock, but that one frame at a time is on its way:
`InFlight` says that from the enqueue behind YuvIn to `Out` there is one thing,
in the queue, owed or waiting, and nothing outside of that. `Pointers` says that
a thread beyond the first access of a dequeue holds a node, which the steps
need that follow a link.

*Crash.* `Life` relates how far `Init` got to what is there and to who runs: a
thread that is inside a list runs between `Init` and the part of `Uninit` that
stops it. The buffers need no invariant, since a behaviour ends with its first
crash.

*Planes.* `PlanesInv`: the planes are those of the picture once a buffer can be
taken, because the lists are empty before and after an `Init` that gave up.
The arithmetic comes first: `LumaFits`, `ChromaFits` (the excess,
for every accepted size, nothing or eight rows), and besides `EncoderParameters`
and `QpRangeUsable`: what the codec is configured with is in range.

*Nodes.* `NodesKeptWithoutRace` speaks of what can be reached, and is kept by no
step taken alone. `TidyInv`: as long as nothing has raced, each node has an owner
(a list or a thread) and a place, such that along a list every link leads
one place on, and what a thread saw in the middle of a call still is so
(`Hand`). There is one lemma for each kind of access; `OtherHand` says that of
two threads outside one another's list neither notices the other. `Reached`
turns owners into reachability: the places behind the head have no gap, and no
more of them are taken than there are nodes.

*Nodes in races.* `NodeHeldOnce` holds in races too, where nobody knows which node
is where: a walk may follow a node onto the other list. `HeldInv` says only how
many pointers there are. A node has one at most, counting heads, links and
what a dequeue is about to make the head; the link that a dequeue has still to
clear is the exception (`LinksOnce`, `SuccessorOnce`). A node that is held
has none (`HeldAlone`), so that linking it makes no second one and overwriting
a link only loses nodes. The heads need `Roles`: of each list one thread
takes and the other adds, and the other writes the head only when it is empty.
Two lists with a node in common would have two pointers to their first
common node (`ListsDisjoint`). That one frame at a time is on its way is not
needed for any of this.

`YuvReaderProofs`, for every number of buffers:

| theorem | statement |
| --- | --- |
| `FrameStaysStable` | `Spec => []FrameStable` |
| `BuffersLostForCause` | `Spec => []LostForCause` |
| `UninitLeavesNothing` | `Spec => []NothingLeft` |
| `ReaderKeepsContract` | `Spec => CameraSpec` |

`ReaderInv` has three parts. `Circle`: a buffer is queued, filled or in the
program's hand, once and in one place only; a frame is stable because the buffer
it lies in is then not with the driver. `Resources` relates mappings,
descriptor and memory to how far `Init` got and to what the loop runs on.
`ReaderTypes` has the stages at which the loop may be (`inBuf` only with
`staFlag` 1), which the release by enc and by main needs.

`RtspStreamProofs`, for every `VRTP_MAX_NBPKTS`, any clients and any number of
frames and requests:

| theorem | statement |
| --- | --- |
| `IndexStaysInRing` | `Spec => []IndexInRing` |
| `PacketsStayInOrder` | `Spec => []PacketsInOrder` |
| `ConnectionsAreKept` | `Spec => []ConnectionsKept` |
| `FramesGetTheirSlots` | `Spec => FrameGetsItsSlots` |
| `LaggardsAloneLose` | `Spec => OnlyLaggardsLose` |

`StreamInv` measures the ring by how far a slot is from its head (`Place`): in
this order the packets held are those of increasing number (`Ordered`), a
playing client stands between head and tail, and what it has had is behind it
(`Progress`). `Listed` and `Visiting` say the same of the list of connections
and of who is visited. The two loops on the ring come first: `ReserveIs` and
`PushManyIs` show that they compute a closed form, so that a frame is one
change of head and tail (`TxVideoIsFrame`). Their recursive functions are
compared with the closed form turn by turn: a least turn at which the two differ
cannot be the first, and no other either. `RingArithmetic` does away with `%`,
so that what follows is linear. The two action properties are proved for a
single step from the invariant.

`RtspSessionProofs`, for any clients, paths and ports:

| theorem | statement |
| --- | --- |
| `SocketsAreAccounted` | `Spec => []SocketsAccounted` |
| `BoundBothWaysAlways` | `Spec => []BoundBothWays` |
| `AnswersAlwaysHold` | `Spec => []AnswersHold` |

`SessionInv`: `Bindings` ties connections to the lists of sessions and server,
`Sockets` every open port to one transport, `Promises` what a client was told to
what is there. None of the three is inductive alone: TEARDOWN and SETUP
look a session up by the binding, give sockets back and answer in one action.
`Calls` has what a port search and a deletion, which last for several
steps, leave alone: while a search runs its track has no transport, nothing is
being deleted, and its client is connected.

`RtspConnectionProofs`, for any sizes of buffers, messages and packets:

| theorem | statement |
| --- | --- |
| `LeavingQuietlyIsSafe` | `Spec => []KilledForCause` |
| `MessagesHandledAsSent` | with `LINE_MAX >= 1` and `REQBUF <= HDR_MAX + 1`, `Spec => []HandledAsSent` |
| `FramesOnlyTornBySends` | `Spec => []InFrameUnlessTorn` |

*Who ends the process.* `LeaveInv`: once a client has left
without `hungUp`, which after a TEARDOWN takes one that was granted, there is nothing that could be sent to it: it does not play,
no answer is owed and all buffers are empty, so that `Take` finds the end of the
stream. This needs a request buffer of more than one byte.

*What is handled.* `ReceiveInv`: request buffer, socket and network together
(`Unread`) are the messages not yet handled, one after the other; `Cuts` names
the places between them, so that one message more or less needs no induction.
`ParseMessage` is the heart: whatever stands behind it, a message that is there as
a whole is measured exactly, and a part of it is waited for, or the
message is one to be refused. In the code the limits are 256, 1024 and
1024. The first assumption says that the two bytes the shortest first line has
here may come one at a time. Without the second, a part of a message with a
header longer than `HDR_MAX` would be refused, although the whole would be taken;
in the code `reqbuf` is too small for that. A message longer than `reqbuf` is
never finished, but never taken for another.

*What is read.* `FrameInv`: until a send stops within a frame, the
reader is between frames, or behind a header whose body is the next thing
sent (`sending`), since no answer goes out between the two. `Between` counts: responses
heard, missed and owed are the requests handled. `HeardPart` is what a client
reads of any first part of a frame, again by a least counterexample. That
a request was taken off `reqbuf` exactly when the loop goes on needs that
`Parse` returns a number (`ParseIsInt`), but no assumption on the limits.

`TxVideoProofs`, for any packet size above 3, any number of packets, and any
frames of bytes, in H.264 and H.265:

| theorem | statement |
| --- | --- |
| `FragmentsAlwaysWellFormed` | `Spec => []FragmentsWellFormed` |
| `ToldAsKnown` | `Spec => []AnnouncedHolds` |
| `AlwaysLearnedAsSent` | `Spec => []LearnedAsSent` |
| `AlwaysRebuilt` | `Spec => []ReceiverRebuildsFrame` |

`PacketInv`: what is left of a NAL unit lies within the frame, and the last
packet is `Open`, a fragment that waits for the next, exactly while something is
left of the unit it began. That the last fragment is not empty, wherever the unit
ends, is `FragmentRoom < PAYLOAD - nalhdr`: what does not fit into one packet
does not fit into the first fragment either.

*What is told.* `DecodeEncode` is about base64 alone: three bytes are a word
(`Block`), its characters are six bits of it each (`CharIs`, in the tail too,
where a word that is not full is filled up with zeros), and four characters say
the word again (`GroupSays`); the padding counts what was filled up (`PadsAre`).
`TellInv` adds that once something was told all parameter sets are known, and
that then none is learned any more, since `More` asks for one that is missing.

*What is learned.* The units of a frame are defined over all its start codes at
once (`Codes`, `Listed`: in order, and by `CodesApart` none overlaps the next);
the code finds them one by one. `FindNext`: the search that begins behind m
units finds the next one, with its kind, also when it is empty and what is read
is the 0 of the next start code; `FindNothing`: after the last it finds none.
`LatestNext`: as long as a parameter set is missing, one unit more changes what
the stream says as it changes what the session knows; `LatestStays`: after
that nothing changes. `LearnInv` is then that while a frame is searched, none of
the frames before it had settled the tested kinds (`Settled`), and what is known
comes from those frames and the first m units of this one. `TestedKnown`: whether a
frame is searched at all depends on the same as whether one has settled them.
`Settled` follows the test of the code and is in the proof only. The property asks
what the stream has sent: `SearchedIsLearned` shows that without an SPS after all
the others the first frame that settles the tested kinds has brought all of them,
so that no later one changes anything (`UpToLater`, `LatestStays`).

*What is rebuilt.* `ReceivedMore`: one packet more is one `Receive` more.
`RebuildInv`: while the search is behind k start codes (`Between`), a receiver has
the first k units; while unit k is packed, it has those before it and, as its
part, the bytes from the start code up to `pos`. `SearchStops` and `SearchEnds`:
the byte by byte search stops exactly where a unit begins, and when it ends
no start code is left. `EncodeBegins` is about the tests for a start code by which
a packer begins: they lead to the first byte of the unit, or leave nothing to
send; that happens only for an empty unit, or for up to three zeros at the end of
the frame (`Void`), whatever the bytes behind the frame are. With
`PiecesJoin` the fragments, put together, are the unit again, and its header of
one or two bytes is where the first one has it.

`RtspMessageProofs`, for any headers, bodies, buffers and number of lines:

| theorem | statement |
| --- | --- |
| `CutMessageIncomplete` | `Spec => []CutIsIncomplete` |
| `WrittenReadsBack` | `Spec => []ReadsBack` |
| `ClientServedAsWritten` | `Spec => []ServedAsWritten` |

`MessageInv` says where builder and parser are: after k lines the builder has
the lines behind k still to write and has written those before (`Begun`); the
parser has the text behind line k still to read, and has of each header what
the last line up to k says of it (`ReadSoFar`). A text that was cut is a first
part of the message (`Cut`), and what was refused was refused for a line that
cannot be read or a negative length, in one reading or the other (`Refused`).
`Heard` are the lines without those the parser's table does not know; of these the
headers and the length of the body say the last (`ClientSays`), of all lines
together the length of the frame. That a body is not the client's when the two
differ is no failure of the proof: `ServedAsWritten` claims it only when they agree. Before that comes what the texts are: the lines with
a CRLF each, an empty line and the body, in which the parser finds the next
CRLF where the line ends (`LineRead`) and the length of the whole where the
header ends (`FrameOfPart`, of any first part of a message). The one assumption is
`DigitsAssumption`, about the constant that writes lengths: a number that is
written can be read again, and is none of CR, LF and the names of headers.

*Induction.* The library's induction theorems cannot be used, since they take
an operator as a parameter. Where data have any length, the proofs go by the
least counterexample (`LeastElement`), or by `SetInduction`, which is about a set
instead; a recursive function is compared with its closed form turn by turn.

Only model-checked:

- liveness (`Shutdown`, `EveryPacketSettled`, `FramesKeepComing`,
  `FramesKeepBeingFed`, `CallReturns`, `CallsEnd`, `EveryPacketTaken`,
  `EveryMessageServed`): fairness needs ENABLED, which the provers do not have.

## 6. Findings and observations

The evidence of each finding (run, property, line, what the document
says) is in `PROJECT.json`. Besides those, reading the code for the models
showed, without a run of its own:

- `rtspServer.cpp:154` sends a frame as the encoder produced it;
  `docs/project-overview.md:48` speaks of an access unit delimiter before it.
- `rtsp_demo.c:1801` says slow clients move to the tail; line 1807 takes the head.
- `rtsp_msg.c:816` refuses headers above 1024 bytes, which `reqbuf` (1024, one
  kept free) never holds: such a client waits with a full buffer.
- `rtsp_demo.c:1814` (1824 for H.265) tests `pps_len` twice, where one was surely
  meant to be `sps_len`: when the SPS comes in a frame after the PPS, no frame is
  searched for it any more, and the session is never announced with parameter
  sets. `LearnedAsSent` names this as its one exception (`SpsLate`). The program
  does not run into it: its encoder puts SPS and PPS into one packet, at the start and
  before each key frame (`yuvToH264Encoder.cpp:107-131`, `180`), so neither comes
  without the other, and no document speaks of other streams. It is a defect of
  the library for any other caller, hence no run of its own shows it as a violation.
- `rtsp_msg.c:827` against `707`: for `Content-Length:5` the frame is cut with 5
  bytes of body, of which the parser takes none; a negative length shortens the
  frame into its own header (`LengthRead`, `LengthFramed`).
- `rtsp_demo.c:1213`: a message larger than `reqbuf` fills it, `recv` is asked for 0
  bytes, and the connection is neither served nor deleted from then on, even when
  the client closes it (`Stuck`).
- `rtsp_demo.c:1359`: `send` without `MSG_NOSIGNAL`, and `main.cpp:152` sets a
  handler for SIGINT alone: a client that plays over TCP and closes without
  TEARDOWN, or after one that was refused or for one of its tracks, may end the program by SIGPIPE (`KilledForCause` has it as a cause).
- `yuvToH264Encoder.cpp:28` does not look at what `H264Encoder::Init` returns:
  `GetSpsPps` and `Uninit` then read members that were never set (`CrashForCause`
  has it as a cause).
- `yuvReader.cpp:533`: with a single-planar driver the first buffer is lost
  after its first frame (`LostForCause` names it as a cause).
- `rtsp_demo.c:1615` reads through the RTP connection it noted before it served
  the requests; SETUP and TEARDOWN may have freed it (`crash` of `RtspStream`,
  which ends a call as far as `CallReturns` is concerned).
- `rtspServer.cpp:106`: a full queue drops its oldest packet, which may be the
  SPS and PPS of a key frame that stays; no document promises they stay together.
- `H264Encoder.cpp:462`: a buffer is handed to the codec before its node is put
  into `empty_quene`; a callback that is quicker finds no node, and the node stays
  there for good. With two accesses to one list at a time nodes are lost
  altogether, and the camera stops without an error (`NodesKeptWithoutRace`,
  `FramesKeepBeingFed` have the race as a cause).
- `rtsp_demo.c:507`: creating a session at a path that is taken frees the session
  that has it (`crash` of `RtspSession`). The program creates one session.
- `rtsp_demo.c:1031`: a SETUP that fails with 500 has already taken the old
  transport away; the connection stays READY or PLAYING without one.
- `rtsp_msg.c:593`: a request with a Content-Type other than those in the table
  costs the client its connection (`ServedAsWritten` has it as a cause).
- `rtsp_msg.c:1097`, `1117`: setting a transport keeps the flags of one set
  before, so that a message set first for UDP and then for TCP names ports too
  (`TransportSet`). The server sets it once in a message.

## 7. Not modelled

The text inside RTSP headers and URIs and of the SDP; codec data and packers of
audio (not called); digest authentication and MD5 (never switched on by
`RtspServer::Init`); `ion_alloc` (called by nothing in the program: the codec
library has its own allocator); time measurement (log lines); the ISP library;
UDP sending (a datagram goes as a whole or not at all); the settings of the
codec that only the library reads, and the copy of the encoded stream out of it;
`malloc` without a check in `init_mb_mode` and in `Out`. The codec library, the
V4L2 driver, the network and the clients are modelled as far as the code depends
on them, and marked external.

## 8. Plan

Done, in this order: pipeline and its abstract specification; its proofs; ring
and clients; encoder buffers; packetisation; requests; interleaved sending;
camera reader and contract; sessions; messages; the encoder around its buffers,
with proofs; arguments and encoder parameters; codec data and H.265; requests
and interleaved sending on one connection, with a proof.

Next: `RtspStream` on the sessions of `RtspSession`, as one composition.

Proofs done: the pipeline with its refinements, encoder, camera reader, ring and
clients, sessions, the connection in both directions, the form of fragments, what
a session learns, a client is told and a receiver rebuilds, and messages: every
safety property of a passing run.
