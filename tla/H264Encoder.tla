---------------------------- MODULE H264Encoder ----------------------------
(***************************************************************************)
(* The life of H264Encoder: Init in the thread of main, the encoder thread *)
(* feeding frames while the vencoder library calls back in a thread of its *)
(* own, Uninit in the thread of main after the encoder thread was joined.  *)
(* YuvToH264Encoder::Init does not look at what Init returns, so that the  *)
(* encoder thread runs in any case. The lists of input buffers are those   *)
(* of InputBufferMgr.                                                      *)
(***************************************************************************)
EXTENDS InputBufferMgr, FrameGeometry

CONSTANT Sizes      \* <<width, height, fps>>: command lines to start with

ASSUME SizesAssumption == \A s \in Sizes : Accepted(s[1], s[2], s[3])

VARIABLES
    size,       \* width, height and fps given to Init
    step,       \* main: args, run (enc runs), joined, destroyed, closed, ended
    nRet,       \* what Init returned, to nobody
    pEncContext,\* the context is allocated
    memops,     \* baseConfig.memops, and whether the memory adapter is open
    pVideoEnc,  \* the library's encoder
    sps_pps_data,
    planes,     \* sizes of the planes of each input buffer
    mapInfo,    \* length of mMBModeCtrl.p_map_info, 0: not allocated
    crash,      \* memory that is not there was used
    raced       \* history: both threads were once inside one list together

lifeVars == <<size, step, nRet, pEncContext, memops, pVideoEnc, sps_pps_data, planes, mapInfo>>
vars == <<listVars, lifeVars, crash, raced>>

Init ==
    /\ ListsEmpty
    /\ size \in Sizes
    /\ step = "args"
    /\ nRet = 0
    /\ pEncContext = FALSE
    /\ memops = "indeterminate"
    /\ pVideoEnc = "NULL"
    /\ sps_pps_data = "indeterminate"
    /\ planes = [Y |-> 0, C |-> 0]
    /\ mapInfo = 0
    /\ crash = FALSE
    /\ raced = FALSE

-----------------------------------------------------------------------------
(* H264Encoder::Init, by where it gives up. Only the memory adapter and the
   context are looked at; the result of VencAllocateInputBuf is not. *)
InitNoContext ==
    /\ step = "args"
    /\ nRet' = -1
    /\ step' = "start"
    /\ UNCHANGED <<listVars, size, pEncContext, memops, pVideoEnc, sps_pps_data, planes,
                   mapInfo, crash>>

InitNoMemops ==
    /\ step = "args"
    /\ nRet' = -2
    /\ pEncContext' = TRUE
    /\ memops' = "NULL"
    /\ step' = "start"
    /\ UNCHANGED <<listVars, size, pVideoEnc, sps_pps_data, planes, mapInfo, crash>>

InitDone ==
    /\ step = "args"
    /\ pEncContext' = TRUE
    /\ memops' = "open"
    /\ planes' = [Y |-> nSizeY(size[1], size[2]), C |-> nSizeC(size[1], size[2])]
    /\ sps_pps_data' = "set"
    /\ \E given \in SUBSET Node : FillLists(given)
    /\ pVideoEnc' = "started"
    /\ step' = "start"
    /\ UNCHANGED <<size, nRet, mapInfo, crash>>

(* YuvToH264Encoder::run begins with GetSpsPps: what Init never set may pass for
   a pointer and a length, and be copied from. *)
GetSpsPps ==
    /\ step = "start"
    /\ crash' \in IF sps_pps_data = "indeterminate" THEN BOOLEAN ELSE {crash}
    /\ step' = "run"
    /\ UNCHANGED <<listVars, size, nRet, pEncContext, memops, pVideoEnc, sps_pps_data, planes,
                   mapInfo>>

-----------------------------------------------------------------------------
(* The encoder thread. A frame is fed by way of pEncContext, and copied into a
   buffer that may never have been allocated. *)
FeedFrame ==
    /\ step = "run"
    /\ YuvIn
    /\ crash' = ~pEncContext
    /\ UNCHANGED lifeVars

CopyFrame ==
    /\ YuvInQueue
    /\ UNCHANGED <<lifeVars, crash>>

CopyToNowhere ==
    /\ pc["enc"] = "got"
    /\ buffer[node["enc"]] = NULL
    /\ crash' = TRUE
    /\ UNCHANGED <<listVars, lifeVars>>

FetchFrame ==
    /\ step = "run"
    /\ Out
    /\ UNCHANGED <<lifeVars, crash>>

(* Whatever is in the lists is gone with the context they are part of. *)
MoveNode(t) ==
    /\ ListStep(t)
    /\ crash' = ~pEncContext
    /\ UNCHANGED lifeVars

(* The flag is seen between two rounds of the loop, and main joins the thread. *)
RunEnds ==
    /\ step = "run"
    /\ pc["enc"] = "idle"
    /\ step' = "joined"
    /\ UNCHANGED <<listVars, size, nRet, pEncContext, memops, pVideoEnc, sps_pps_data, planes,
                   mapInfo, crash>>

-----------------------------------------------------------------------------
(* The library's thread, as long as the encoder is there. *)
EncodedFrame ==
    /\ pVideoEnc = "started"
    /\ VencOutput
    /\ UNCHANGED <<lifeVars, crash>>

BufferDone ==
    /\ pVideoEnc = "started"
    /\ InputBufferDone
    /\ crash' = ~pEncContext
    /\ UNCHANGED lifeVars

BufferDoneCopy ==
    /\ InputBufferDoneCopy
    /\ crash' = ~pEncContext
    /\ UNCHANGED lifeVars

(* EventHandler, UpdateMbModeInfo: init_mb_mode allocates the map once and
   writes an entry for each macroblock. The other events change nothing. *)
UpdateMbModeInfo ==
    /\ pVideoEnc = "started"
    /\ pc["venc"] = "idle"
    /\ mapInfo' = IF mapInfo = 0 THEN mb_num(size[1], size[2]) ELSE mapInfo
    /\ crash' = ~pEncContext
    /\ UNCHANGED <<listVars, size, step, nRet, pEncContext, memops, pVideoEnc, sps_pps_data,
                   planes>>

-----------------------------------------------------------------------------
(* H264Encoder::Uninit. VencDestroy returns when no callback runs any more;
   releaseMb finds h264MBMode.mode_ctrl_en 0 and frees nothing. *)
UninitDestroy ==
    /\ step = "joined"
    /\ pc["venc"] = "idle"
    /\ pVideoEnc' = "NULL"
    /\ step' = "destroyed"
    /\ UNCHANGED <<listVars, size, nRet, pEncContext, memops, sps_pps_data, planes, mapInfo,
                   crash>>

(* Mutant: the memory adapter stays open. *)
UninitMemClose_NotClosed ==
    /\ step = "destroyed"
    /\ step' = "closed"
    /\ UNCHANGED <<listVars, size, nRet, pEncContext, memops, pVideoEnc, sps_pps_data, planes,
                   mapInfo, crash>>

UninitMemClose ==
    /\ step = "destroyed"
    /\ memops' = IF memops = "open" THEN "closed" ELSE memops
    /\ crash' \in IF memops = "indeterminate" THEN BOOLEAN ELSE {crash}
    /\ step' = "closed"
    /\ UNCHANGED <<listVars, size, nRet, pEncContext, pVideoEnc, sps_pps_data, planes, mapInfo>>

(* Mutant: the context is freed while the library runs. *)
UninitContext_First ==
    /\ step = "joined"
    /\ pEncContext' = FALSE
    /\ UNCHANGED <<listVars, size, step, nRet, memops, pVideoEnc, sps_pps_data, planes, mapInfo,
                   crash>>

UninitContext ==
    /\ step = "closed"
    /\ pEncContext' = FALSE
    /\ step' = "ended"
    /\ UNCHANGED <<listVars, size, nRet, memops, pVideoEnc, sps_pps_data, planes, mapInfo, crash>>

-----------------------------------------------------------------------------
(* Both threads are between the first and the last access to one list. *)
Together ==
    /\ list["enc"] = list["venc"]
    /\ \A t \in Thread : pc[t] \notin {"idle", "got"}

EncStep ==
    \/ FeedFrame \/ CopyFrame \/ CopyToNowhere \/ FetchFrame
    \/ MoveNode("enc")

VencStep == EncodedFrame \/ BufferDone \/ BufferDoneCopy \/ MoveNode("venc")

MainStep ==
    \/ InitNoContext \/ InitNoMemops \/ InitDone \/ GetSpsPps
    \/ RunEnds \/ UninitDestroy \/ UninitMemClose \/ UninitContext

Next ==
    /\ ~crash
    /\ EncStep \/ VencStep \/ UpdateMbModeInfo \/ MainStep
    /\ raced' = (raced \/ Together')

(* Each thread goes on when it can, and the library encodes what it was given.
   Nothing makes the program stop. *)
Spec ==
    /\ Init /\ [][Next]_vars
    /\ WF_vars(Next /\ EncStep) /\ WF_vars(Next /\ VencStep)
    /\ WF_vars(Next /\ (InitDone \/ GetSpsPps))

-----------------------------------------------------------------------------
(* Types of the variables. *)
TypeOK ==
    /\ ListsTypeOK
    /\ size \in Sizes
    /\ step \in {"args", "start", "run", "joined", "destroyed", "closed", "ended"}
    /\ nRet \in {0, -1, -2}
    /\ pEncContext \in BOOLEAN
    /\ memops \in {"indeterminate", "NULL", "open", "closed"}
    /\ pVideoEnc \in {"NULL", "started"}
    /\ sps_pps_data \in {"indeterminate", "set"}
    /\ planes \in [{"Y", "C"} -> Nat]
    /\ mapInfo \in Nat
    /\ crash \in BOOLEAN
    /\ raced \in BOOLEAN

AllGiven == nRet = 0 /\ \A n \in Node : buffer[n] # NULL

(* As long as the two threads have never been inside one list together, no node
   is lost: each is on a list or in a hand. A camera that stops for want of a
   buffer has met that race, and nothing else (H264Encoder.cpp:1587-1627). *)
NodesKeptWithoutRace ==
    nRet = 0 /\ step # "args" /\ ~raced =>
        OnList("valid") \cup OnList("empty") \cup UNION {InHand(t) : t \in Thread} = Node

(* The copies of YuvIn stay inside the planes that Init asked for
   (H264Encoder.cpp:231-232, 442-443). *)
CopyStaysInPlanes ==
    pc["enc"] = "got" =>
        /\ CopyY(size[1], size[2]) <= planes.Y
        /\ CopyC(size[1], size[2]) <= planes.C

(* Memory that is not there is used only if Init gave up, which nobody notices,
   or was not given a buffer, which Init does not notice. After an Init that
   worked, no callback meets a context that Uninit has freed
   (H264Encoder.cpp:87, 185, 390, 408-430; yuvToH264Encoder.cpp:28). *)
CrashForCause == crash => ~AllGiven

(* However far Init got, Uninit leaves no encoder, no context and no open memory
   adapter (H264Encoder.cpp:408-430). The macroblock map stays: it is reached
   only from the context. *)
EncoderReleased ==
    step = "ended" => pVideoEnc = "NULL" /\ ~pEncContext /\ memops # "open"

(* Frames go on being fed as long as the program runs, unless a race has taken
   nodes away or the codec was never complete (yuvToH264Encoder.cpp:158). *)
FramesKeepBeingFed ==
    \/ []<>(pc["enc"] = "got")
    \/ <>(raced \/ step = "joined")
    \/ <>[](~AllGiven)

=============================================================================
