----------------------------- MODULE YuvReader ------------------------------
(***************************************************************************)
(* YuvReader and the V4L2 driver behind it: Init with a failure at any     *)
(* ioctl, the three stages of YuvToH264Encoder::run that take frames from  *)
(* it and give the buffers back, and the two calls of Uninit.              *)
(* The device is opened without O_NONBLOCK: VIDIOC_DQBUF waits for a frame.*)
(***************************************************************************)
EXTENDS Integers, Sequences, SequencesExt

CONSTANTS
    YUV_BUF_NUM_MAX,   \* buffers asked for and granted, 2 in the code
    QbufFails          \* VIDIOC_QBUF may fail while streaming

ASSUME BufNumAssumption == YUV_BUF_NUM_MAX \in Nat \ {0}
ASSUME QbufAssumption == QbufFails \in BOOLEAN

VARIABLES
    pc,         \* init; loop, body, inBuf of run; uninit of main; exit
    stopFlag,   \* IThread::stopFlag
    staFlag,    \* stage of run: OutBuf, YuvIn and InBuf, Out
    result,     \* what Init returned
    driver,     \* camera.driver_type: none, single, mplane
    fd,         \* camera.videofd: none, open, closed
    buffers,    \* camera.buffers: null, live, freed
    planes,     \* read_buf.m.planes: unset, live, freed
    maps,       \* the buffers that are mapped
    queued,     \* buffers the driver has to fill
    filled,     \* buffers VIDIOC_DQBUF will return
    index,      \* read_buf.index
    refused,    \* history: buffers for which InBuf failed
    crash       \* undefined behaviour the process has run into

vars == <<pc, stopFlag, staFlag, result, driver, fd, buffers, planes, maps,
          queued, filled, index, refused, crash>>
camera == <<result, driver, fd, buffers, planes, maps>>
driverVars == <<queued, filled>>

NoCrash == "none"
Buffer == 0 .. YUV_BUF_NUM_MAX - 1
AllBuffers == [i \in 1 .. YUV_BUF_NUM_MAX |-> i - 1]

Init ==
    /\ pc = "init"
    /\ stopFlag = FALSE
    /\ staFlag = 0
    /\ result = 0
    /\ driver = "none"
    /\ fd = "none"
    /\ buffers = "null"
    /\ planes = "unset"
    /\ maps = {}
    /\ queued = <<>>
    /\ filled = <<>>
    /\ index = 0
    /\ refused = {}
    /\ crash = NoCrash

-----------------------------------------------------------------------------
(* YuvReader::Init. Its result is not looked at: the encoder starts anyway. *)
InitDone(ret) ==
    /\ pc = "init"
    /\ pc' = "loop"
    /\ result' = ret
    /\ UNCHANGED <<stopFlag, staFlag, filled, index, refused, crash>>

(* open() fails, or an ioctl up to VIDIOC_REQBUFS. *)
InitRefused ==
    /\ InitDone(-1)
    /\ fd' \in {"none", "closed"}
    /\ driver' \in IF fd' = "none" THEN {"none"} ELSE {"none", "single", "mplane"}
    /\ UNCHANGED <<buffers, planes, maps, queued>>

(* VIDIOC_QUERYBUF or VIDIOC_QBUF fails for one of the buffers: those mapped
   before stay mapped. *)
InitBufferRefused ==
    /\ InitDone(-1)
    /\ driver' \in {"single", "mplane"}
    /\ fd' = "closed"
    /\ buffers' = "freed"
    /\ \E n \in 0 .. YUV_BUF_NUM_MAX : maps' = 0 .. n - 1
    /\ UNCHANGED <<planes, queued>>

(* VIDIOC_STREAMON fails: nothing is released, and read_buf is not set. *)
InitStreamRefused ==
    /\ InitDone(-1)
    /\ driver' \in {"single", "mplane"}
    /\ fd' = "open"
    /\ buffers' = "live"
    /\ maps' = Buffer
    /\ UNCHANGED <<planes, queued>>

InitSucc ==
    /\ InitDone(0)
    /\ driver' \in {"single", "mplane"}
    /\ fd' = "open"
    /\ buffers' = "live"
    /\ maps' = Buffer
    /\ planes' = IF driver' = "mplane" THEN "live" ELSE planes
    /\ queued' = AllBuffers

YuvReaderInit == InitRefused \/ InitBufferRefused \/ InitStreamRefused \/ InitSucc

Streaming == pc # "init" /\ result = 0 /\ fd = "open"

-----------------------------------------------------------------------------
(* The driver fills a buffer. *)
Fill ==
    /\ Streaming
    /\ queued # <<>>
    /\ filled' = Append(filled, Head(queued))
    /\ queued' = Tail(queued)
    /\ UNCHANGED <<pc, stopFlag, staFlag, camera, index, refused, crash>>

(* IThread::Stop, at any moment. *)
Stop ==
    /\ ~stopFlag
    /\ stopFlag' = TRUE
    /\ UNCHANGED <<pc, staFlag, camera, driverVars, index, refused, crash>>

-----------------------------------------------------------------------------
(* YuvReader::Uninit, called from from. *)
UninitUndefined ==
    buffers = "freed" \/ (driver = "mplane" /\ planes \in {"unset", "freed"})

(* Mutant: the last buffer stays mapped. *)
Unmapped_OneLess == Buffer \ {YUV_BUF_NUM_MAX - 1}
Unmapped == Buffer

Uninit(from, to) ==
    /\ pc = from
    /\ pc' = to
    /\ crash' \in IF UninitUndefined THEN {NoCrash, "doubleFree"} ELSE {NoCrash}
    /\ maps' = IF buffers = "live" THEN maps \ Unmapped ELSE maps
    /\ buffers' = IF buffers = "live" THEN "freed" ELSE buffers
    /\ planes' = IF driver = "mplane" THEN "freed" ELSE planes
    /\ fd' = IF fd = "open" THEN "closed" ELSE fd
    /\ queued' = <<>> /\ filled' = <<>>
    /\ UNCHANGED <<stopFlag, staFlag, result, driver, index, refused>>

MainUninit == Uninit("uninit", "exit")

-----------------------------------------------------------------------------
(* YuvToH264Encoder::run *)
RunLoop ==
    \/ /\ pc = "loop" /\ ~stopFlag
       /\ pc' = "body"
       /\ UNCHANGED <<stopFlag, staFlag, camera, driverVars, index, refused, crash>>
    \/ stopFlag /\ Uninit("loop", "uninit")

(* OutBuf checks read_buf.m.userptr, which is where a single-planar driver
   puts the offset of the buffer: 0 for the first. *)
AddressNull(i) == driver = "single" /\ i = 0

(* VIDIOC_DQBUF fails: at once when nothing streams, and at any time while the
   camera does, which takes no buffer from the driver (mutant: what OutBuf
   returned is not looked at). *)
OutBufFail_NotLookedAt ==
    /\ pc = "body" /\ staFlag = 0
    /\ staFlag' = 1
    /\ UNCHANGED <<pc, stopFlag, camera, driverVars, index, refused, crash>>
OutBufFail ==
    /\ pc = "body" /\ staFlag = 0
    /\ pc' = "loop"
    /\ UNCHANGED <<stopFlag, staFlag, camera, driverVars, index, refused, crash>>

(* Mutant: the buffer goes back before its frame has been used. *)
OutBuf_Requeued ==
    /\ pc = "body" /\ staFlag = 0
    /\ Streaming
    /\ filled # <<>>
    /\ index' = Head(filled)
    /\ filled' = Tail(filled)
    /\ queued' = Append(queued, Head(filled))
    /\ IF AddressNull(Head(filled)) THEN pc' = "loop" /\ UNCHANGED staFlag
                                    ELSE staFlag' = 1 /\ UNCHANGED pc
    /\ UNCHANGED <<stopFlag, camera, refused, crash>>
OutBuf ==
    /\ pc = "body" /\ staFlag = 0
    /\ Streaming
    /\ filled # <<>>
    /\ index' = Head(filled)
    /\ filled' = Tail(filled)
    /\ IF AddressNull(Head(filled)) THEN pc' = "loop" /\ UNCHANGED staFlag
                                    ELSE staFlag' = 1 /\ UNCHANGED pc
    /\ UNCHANGED <<stopFlag, camera, queued, refused, crash>>

YuvIn ==
    /\ pc = "body" /\ staFlag = 1
    /\ pc' = "inBuf"
    /\ UNCHANGED <<stopFlag, staFlag, camera, driverVars, index, refused, crash>>

(* No input buffer is free: the frame waits (mutant: another one is taken). *)
YuvInFail_Restart ==
    /\ pc = "body" /\ staFlag = 1
    /\ pc' = "loop"
    /\ staFlag' = 0
    /\ UNCHANGED <<stopFlag, camera, driverVars, index, refused, crash>>
YuvInFail ==
    /\ pc = "body" /\ staFlag = 1
    /\ pc' = "loop"
    /\ UNCHANGED <<stopFlag, staFlag, camera, driverVars, index, refused, crash>>

(* The result of InBuf is not looked at (mutant: InBuf is forgotten). *)
InBuf_Never ==
    /\ pc = "inBuf"
    /\ pc' = "body"
    /\ staFlag' = 2
    /\ UNCHANGED <<stopFlag, camera, driverVars, index, refused, crash>>
InBuf ==
    /\ pc = "inBuf"
    /\ pc' = "body"
    /\ staFlag' = 2
    /\ \/ queued' = Append(queued, index) /\ UNCHANGED refused
       \/ QbufFails /\ refused' = refused \cup {index} /\ UNCHANGED queued
    /\ UNCHANGED <<stopFlag, camera, filled, index, crash>>

Out ==
    /\ pc = "body" /\ staFlag = 2
    /\ pc' = "loop"
    /\ staFlag' = 0
    /\ UNCHANGED <<stopFlag, camera, driverVars, index, refused, crash>>

OutFail ==
    /\ pc = "body" /\ staFlag = 2
    /\ pc' = "loop"
    /\ UNCHANGED <<stopFlag, staFlag, camera, driverVars, index, refused, crash>>

Run == RunLoop \/ OutBufFail \/ OutBuf \/ YuvIn \/ YuvInFail \/ InBuf \/ Out \/ OutFail

-----------------------------------------------------------------------------
Next == crash = NoCrash /\ (YuvReaderInit \/ Fill \/ Stop \/ Run \/ MainUninit)

Spec == Init /\ [][Next]_vars

(* The encoder thread goes on, except that it waits in VIDIOC_DQBUF while the
   driver has neither a frame for it nor an error. *)
Waits == pc = "body" /\ staFlag = 0 /\ Streaming /\ filled = <<>>

(* The threads run; VIDIOC_DQBUF does not fail for ever on a frame that is there,
   and the encoder now and then takes and gives a frame. *)
ThreadSpec ==
    /\ Spec
    /\ WF_vars(crash = NoCrash /\ YuvReaderInit)
    /\ WF_vars(crash = NoCrash /\ ~Waits /\ Run)
    /\ WF_vars(crash = NoCrash /\ MainUninit)
    /\ SF_vars(OutBuf)
    /\ SF_vars(YuvIn)
    /\ SF_vars(Out)

(* And the camera delivers. *)
FairSpec == ThreadSpec /\ WF_vars(Fill)

-----------------------------------------------------------------------------
Held == IF staFlag = 1 THEN {index} ELSE {}

(* The frame YuvIn copies is not filled again meanwhile: the buffer between
   VIDIOC_DQBUF and VIDIOC_QBUF is in neither of the driver's queues, and no
   buffer is in them twice (yuvToH264Encoder.cpp:147-165). *)
FrameStable ==
    /\ Held \cap (ToSet(queued) \cup ToSet(filled)) = {}
    /\ IsInjective(queued \o filled)

(* A buffer leaves the circle of driver and encoder only because a call of
   InBuf failed, or, with a single-planar driver, because OutBuf takes the
   first buffer for one without an address; not because the encoder was busy
   or had nothing to deliver (yuvReader.cpp:461-562). *)
LostForCause ==
    Streaming =>
        Buffer \ (ToSet(queued) \cup ToSet(filled) \cup Held)
            \subseteq refused \cup (IF driver = "single" THEN {0} ELSE {})

(* After an Init that succeeded, Uninit gives everything back: no mapping,
   descriptor or memory is left when the program ends (yuvReader.cpp:382-459). *)
NothingLeft ==
    (pc \in {"uninit", "exit"} /\ result = 0) =>
        maps = {} /\ fd = "closed" /\ buffers = "freed" /\ planes # "live"

(* The two buffers do not run out: as long as the camera delivers, frames come,
   however often VIDIOC_DQBUF fails in between, the encoder has no room or
   nothing to give, and although OutBuf may lose the first buffer; only InBuf can
   lose the last one (yuvReader.cpp:461-562, yuvToH264Encoder.cpp:147-174). *)
FramesKeepComing ==
    (Streaming /\ pc = "loop" /\ staFlag = 0) ~> (staFlag = 2 \/ stopFlag \/ refused # {})

(* The reader keeps the contract on which H264Pipeline is built: what Init
   leaves behind, when frames can be had, and what a second Uninit is. *)
Contracted == INSTANCE CameraContract WITH
    called <- pc # "init",
    frame <- staFlag >= 1,
    reader <- IF pc # "init" /\ UninitUndefined THEN "freed"
              ELSE IF buffers = "live" THEN "open" ELSE "none"
CameraSpec == Contracted!Contract

=============================================================================
