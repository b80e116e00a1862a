------------------------- MODULE H264EncoderProofs -------------------------
(***************************************************************************)
(* The two threads on the lists of input buffers, and the life of the      *)
(* encoder around them, for any number of buffers and any command line:    *)
(* no frame is copied into a buffer that the library still has, no step    *)
(* uses memory that is not there unless Init failed unnoticed, and no node *)
(* is lost unless both threads were once inside one list together; and     *)
(* even then none is handed out twice. First, what holds of the numbers of *)
(* FrameGeometry for every size and rate that the program accepts.         *)
(***************************************************************************)
EXTENDS H264Encoder, FiniteSetTheorems, WellFoundedInduction, TLAPS

-----------------------------------------------------------------------------
(* A set of natural numbers that is not empty has a least element: what is
   shown by induction elsewhere is shown here for the least counterexample. *)
LEMMA LeastElement ==
    ASSUME NEW T \in SUBSET Nat, T # {}
    PROVE  \E x \in T : \A y \in T : x <= y
<1>1. PICK x \in T : \A y \in T : ~ (<<y, x>> \in OpToRel(<, Nat))
  BY NatLessThanWellFounded, WFMin
<1>2. ASSUME NEW y \in T PROVE x <= y
  <2>1. <<y, x>> \notin OpToRel(<, Nat) /\ <<y, x>> \in Nat \X Nat
    BY <1>1
  <2>2. ~(y < x) /\ x \in Nat /\ y \in Nat
    BY <2>1 DEF OpToRel
  <2> QED
    BY <2>2
<1> QED
  BY <1>2

-----------------------------------------------------------------------------
(* Rounding up gives a multiple of 16, less than 16 above (h264Encoder.h:36). *)
LEMMA AlignUp ==
    ASSUME NEW x \in Nat
    PROVE  /\ ALIGN_16B(x) \in Nat
           /\ x <= ALIGN_16B(x) /\ ALIGN_16B(x) <= x + 15
           /\ ALIGN_16B(x) % 16 = 0
  BY DEF ALIGN_16B

(* The rows of chroma that YuvIn copies are half of the rows of luma, rounded
   up to whole macroblocks once more (H264Encoder.cpp:443). *)
LEMMA ChromaRows ==
    ASSUME NEW height \in Nat, height % 2 = 0
    PROVE  ALIGN_16B(height \div 2) = ALIGN_16B(height) \div 2
                                      + (IF ALIGN_16B(height) % 32 = 0 THEN 0 ELSE 8)
  <1>1. PICK m \in Nat : height = 2 * m
    <2>1. height \div 2 \in Nat /\ height = 2 * (height \div 2)
      OBVIOUS
    <2> QED BY <2>1
  <1>2. PICK k \in Nat, r \in 0 .. 15 : m + 15 = 16 * k + r
    <2>1. (m + 15) \div 16 \in Nat /\ (m + 15) % 16 \in 0 .. 15
      BY <1>1
    <2>2. m + 15 = 16 * ((m + 15) \div 16) + ((m + 15) % 16)
      BY <1>1
    <2> QED BY <2>1, <2>2
  <1>3. height \div 2 = m /\ ALIGN_16B(m) = 16 * k
    BY <1>1, <1>2 DEF ALIGN_16B
  <1>4. CASE r \in 8 .. 15
    <2>1. (2 * m + 15) \div 16 = 2 * k
      BY <1>1, <1>2, <1>4
    <2> QED BY <1>1, <1>3, <2>1 DEF ALIGN_16B
  <1>5. CASE r \in 0 .. 7
    <2>1. (2 * m + 15) \div 16 = 2 * k - 1
      BY <1>1, <1>2, <1>5
    <2> QED BY <1>1, <1>3, <2>1 DEF ALIGN_16B
  <1> QED BY <1>2, <1>4, <1>5

(* The copy of the luma fills its plane exactly (H264Encoder.cpp:231, 442). *)
THEOREM LumaFits ==
    ASSUME NEW width, NEW height
    PROVE  CopyY(width, height) = nSizeY(width, height)
  BY DEF CopyY, nSizeY

(* The copy of the chroma stays in its plane for exactly those heights whose
   rounding to 16 gives a multiple of 32, and is eight rows too long for every
   other height that the program accepts: it fits for 480 and 1080, not for
   720 or 2160 (H264Encoder.cpp:232, 443). *)
THEOREM ChromaFits ==
    ASSUME NEW width, NEW height, NEW fps, Accepted(width, height, fps)
    PROVE  CopyC(width, height) = nSizeC(width, height)
             + (IF ALIGN_16B(height) % 32 = 0 THEN 0 ELSE 8 * ALIGN_16B(width))
  <1>1. width \in Nat /\ height \in Nat /\ height % 2 = 0
    BY DEF Accepted
  <1>2. PICK w \in Nat : ALIGN_16B(width) = 2 * w
    <2>1. /\ (width + 15) \div 16 \in Nat
          /\ ALIGN_16B(width) = 2 * (8 * ((width + 15) \div 16))
      BY <1>1 DEF ALIGN_16B
    <2> QED BY <2>1
  <1>3. PICK h \in Nat : ALIGN_16B(height) = 2 * h
    <2>1. /\ (height + 15) \div 16 \in Nat
          /\ ALIGN_16B(height) = 2 * (8 * ((height + 15) \div 16))
      BY <1>1 DEF ALIGN_16B
    <2> QED BY <2>1
  <1>4. nSizeC(width, height) = 2 * (w * h)
    <2>1. w * h \in Nat
      OBVIOUS
    <2>2. (2 * w) * (2 * h) = 2 * (2 * (w * h))
      OBVIOUS
    <2>3. \A q \in Nat : (2 * (2 * q)) \div 2 = 2 * q
      OBVIOUS
    <2> QED BY <1>2, <1>3, <2>1, <2>2, <2>3 DEF nSizeC, nSizeY
  <1>5. CopyC(width, height)
            = (2 * w) * (h + (IF ALIGN_16B(height) % 32 = 0 THEN 0 ELSE 8))
    <2>1. ALIGN_16B(height) \div 2 = h
      BY <1>3
    <2> QED BY <1>1, <1>2, <2>1, ChromaRows DEF CopyC
  <1>6. CASE ALIGN_16B(height) % 32 = 0
    BY <1>2, <1>4, <1>5, <1>6
  <1>7. CASE ALIGN_16B(height) % 32 # 0
    BY <1>2, <1>4, <1>5, <1>7
  <1> QED BY <1>6, <1>7

(* Whatever range is asked for, the codec gets one it can work with
   (H264Encoder.cpp:1104-1137). *)
THEOREM QpRangeUsable ==
    ASSUME NEW min \in Int, NEW max \in Int, NEW init \in Int
    PROVE  /\ QpRange(min, max).nMinqp \in 1 .. 50
           /\ QpRange(min, max).nMaxqp \in 2 .. 51
           /\ QpRange(min, max).nMinqp < QpRange(min, max).nMaxqp
           /\ QpInit(init) \in 1 .. 51
  BY DEF QpRange, QpInit

(* What the codec is configured with is in range for every accepted size and
   rate: a key frame at least every half second and never a distance of 0,
   which initH264Func would replace; a bit buffer between its two limits; time
   stamps that go up (H264Encoder.cpp:41-65, 163-176, 453, 1099). *)
THEOREM EncoderParameters ==
    ASSUME NEW width, NEW height, NEW fps, Accepted(width, height, fps)
    PROVE  /\ h264Param(width, fps).nMaxKeyInterval = lowLatencyGopFrames(fps)
           /\ lowLatencyGopFrames(fps) \in 1 .. 30
           /\ 2 * lowLatencyGopFrames(fps) <= fps \/ fps = 1
           /\ LOW_LATENCY_VBV_MIN <= lowLatencyVbvSize(BitRate(width))
           /\ lowLatencyVbvSize(BitRate(width)) <= LOW_LATENCY_VBV_MAX
           /\ PtsStep(fps) > 0
           /\ fps * PtsStep(fps) <= US_PER_S
  <1>1. fps \in 1 .. 60
    BY DEF Accepted
  <1>2. /\ lowLatencyGopFrames(fps) \in 1 .. 30
        /\ 2 * lowLatencyGopFrames(fps) <= fps \/ fps = 1
    BY <1>1 DEF lowLatencyGopFrames, LOW_LATENCY_GOP_DIVISOR
  <1>3. BitRate(width) \in Nat
    BY SMT DEF BitRate
  <1>4. /\ LOW_LATENCY_VBV_MIN <= lowLatencyVbvSize(BitRate(width))
        /\ lowLatencyVbvSize(BitRate(width)) <= LOW_LATENCY_VBV_MAX
    <2>1. (BitRate(width) * LOW_LATENCY_VBV_MS) \div 8000 \in Nat
      BY SMT, <1>3 DEF LOW_LATENCY_VBV_MS
    <2>2. LOW_LATENCY_VBV_MIN = 262144 /\ LOW_LATENCY_VBV_MAX = 2097152
      BY SMT DEF LOW_LATENCY_VBV_MIN, LOW_LATENCY_VBV_MAX
    <2> QED BY SMT, <2>1, <2>2 DEF lowLatencyVbvSize
  <1>5. PtsStep(fps) > 0 /\ fps * PtsStep(fps) <= US_PER_S
    <2>1. \A d \in 1 .. 60 : 1000000 \div d >= 16666 /\ d * (1000000 \div d) <= 1000000
      BY SMT
    <2> QED BY SMT, <1>1, <2>1 DEF PtsStep, US_PER_S
  <1>6. h264Param(width, fps).nMaxKeyInterval = lowLatencyGopFrames(fps)
    BY <1>2 DEF h264Param
  <1> QED BY <1>2, <1>4, <1>5, <1>6

Enqueueing == {"enqRead", "enqHead", "enqWalk", "enqLink", "enqClear"}

(* The pointers point to nodes, and a thread beyond the first access of
   dequeue has one. *)
Pointers ==
    /\ head \in [List -> Node \cup {NULL}]
    /\ next \in [Node -> Node \cup {NULL}]
    /\ pc \in [Thread -> {"idle", "deqRead", "deqNext", "deqHead", "deqClear", "got"}
                         \cup Enqueueing]
    /\ list \in [Thread -> List]
    /\ node \in [Thread -> Node \cup {NULL}]
    /\ cur \in [Thread -> Node \cup {NULL}]
    /\ \A t \in Thread :
          /\ pc[t] \notin {"idle", "deqRead"} => node[t] \in Node
          /\ pc[t] \in {"enqWalk", "enqLink"} => cur[t] \in Node

(* One frame at a time is between YuvInQueue and Out: in the queue of the
   library, owed, or waiting to be fetched. *)
Fed == staFlag = "fetch" \/ pc["enc"] \in Enqueueing

InFlight ==
    /\ staFlag = "fetch" => pc["enc"] = "idle"
    /\ ~Fed => queued = <<>> /\ ~owed /\ outputs = 0
    /\ queued # <<>> => ~owed /\ outputs = 0 /\ Tail(queued) = <<>>
    /\ owed => outputs = 0
    /\ outputs \in {0, 1}

ListInv == Pointers /\ InFlight

(* How far Init got, and who runs. *)
Life ==
    /\ step = "args" => nRet = 0 /\ pVideoEnc = "NULL"
    /\ pVideoEnc = "started" => step \in {"start", "run", "joined"} /\ pEncContext
    /\ nRet = 0 /\ step # "args" => sps_pps_data = "set" /\ memops # "indeterminate"
    /\ nRet = 0 /\ step \in {"start", "run"} => pEncContext
    /\ pc["enc"] # "idle" => step = "run"
    /\ pc["venc"] # "idle" => pVideoEnc = "started"
    /\ step \in {"closed", "ended"} => memops # "open"
    /\ step \in {"destroyed", "closed", "ended"} => pVideoEnc = "NULL"
    /\ step = "ended" => ~pEncContext
    /\ CrashForCause

IInv == ListInv /\ Life

(* What stays out of a list action of thread t: the other thread, and all that
   Life says except where t is. *)
LEMMA ListStepFrame ==
    ASSUME Pointers, NEW t \in Thread, ListStep(t)
    PROVE  /\ pc[t] # "idle"
           /\ \A u \in Thread : u # t => pc'[u] = pc[u]
           /\ UNCHANGED <<buffer, libraryVars, done>>
  BY DEF ListStep, Pointers, Goto, memory,
         DequeueRead, DequeueNext, DequeueHead, DequeueClear,
         EnqueueRead, EnqueueHead, EnqueueWalk, EnqueueLink, EnqueueClear

(* No step of enqueue or dequeue leaves the nodes. *)
LEMMA ListStepPointers ==
    ASSUME Pointers, NEW t \in Thread, ListStep(t)
    PROVE  Pointers'
  <1> USE DEF Pointers, Goto, memory, Enqueueing
  <1>1. CASE DequeueRead(t)
    BY <1>1 DEF DequeueRead
  <1>2. CASE DequeueNext(t)
    BY <1>2 DEF DequeueNext
  <1>3. CASE DequeueHead(t)
    BY <1>3 DEF DequeueHead
  <1>4. CASE DequeueClear(t)
    BY <1>4 DEF DequeueClear
  <1>5. CASE EnqueueRead(t)
    BY <1>5 DEF EnqueueRead
  <1>6. CASE EnqueueHead(t)
    BY <1>6 DEF EnqueueHead
  <1>7. CASE EnqueueWalk(t)
    <2>1. CASE next[cur[t]] = NULL
      BY <1>7, <2>1 DEF EnqueueWalk
    <2>2. CASE next[cur[t]] # NULL
      BY <1>7, <2>2 DEF EnqueueWalk
    <2> QED BY <2>1, <2>2
  <1>8. CASE EnqueueLink(t)
    BY <1>8 DEF EnqueueLink
  <1>9. CASE EnqueueClear(t)
    BY <1>9 DEF EnqueueClear
  <1> QED
    BY <1>1, <1>2, <1>3, <1>4, <1>5, <1>6, <1>7, <1>8, <1>9 DEF ListStep

(* Nor does one change what is in flight: a frame counts as fed from the first
   step of the enqueue behind YuvIn until Out. *)
LEMMA ListStepInFlight ==
    ASSUME ListInv, NEW t \in Thread, ListStep(t)
    PROVE  InFlight'
  <1> USE DEF ListInv, InFlight, Fed, Enqueueing
  <1>1. UNCHANGED <<queued, owed, outputs>>
    BY ListStepFrame DEF libraryVars
  <1>2. CASE t = "venc"
    <2>1. pc'["enc"] = pc["enc"]
      BY <1>2, ListStepFrame DEF Thread
    <2>2. staFlag' = staFlag
      BY <1>2 DEF ListStep, DequeueRead, DequeueNext, DequeueHead, DequeueClear,
                  EnqueueRead, EnqueueHead, EnqueueWalk, EnqueueLink, EnqueueClear
    <2> QED BY <1>1, <2>1, <2>2
  <1>3. CASE t = "enc"
    <2>1. staFlag # "fetch"
      BY <1>3, ListStepFrame
    <2>2. CASE EnqueueClear(t)
      BY <1>1, <1>3, <2>2 DEF EnqueueClear, Goto, Pointers, Thread
    <2>3. CASE ~EnqueueClear(t)
      <3>1. staFlag' = staFlag /\ (pc'["enc"] \in Enqueueing <=> pc["enc"] \in Enqueueing)
        BY <1>3, <2>3 DEF ListStep, Goto, Pointers, Thread,
               DequeueRead, DequeueNext, DequeueHead, DequeueClear,
               EnqueueRead, EnqueueHead, EnqueueWalk, EnqueueLink
      <3> QED BY <1>1, <2>1, <3>1
    <2> QED BY <2>2, <2>3
  <1> QED BY <1>2, <1>3 DEF Thread


-----------------------------------------------------------------------------
(* Both halves of the invariant hold at the start. *)
LEMMA InitIInv == Init => IInv
  <1> SUFFICES ASSUME Init PROVE IInv
    OBVIOUS
  <1>1. NULL \notin Node
    BY DEF NULL, Node
  <1>2. Pointers
    BY <1>1 DEF Init, ListsEmpty, Pointers, List, Thread
  <1>3. InFlight
    BY DEF Init, ListsEmpty, InFlight, Fed, Enqueueing, Thread
  <1>4. Life
    BY DEF Init, ListsEmpty, Life, CrashForCause, Thread
  <1> QED
    BY <1>2, <1>3, <1>4 DEF IInv, ListInv

(* Init puts every node on valid_quene. *)
LEMMA FillListsPointers ==
    ASSUME Pointers, NEW given, FillLists(given)
    PROVE  Pointers'
  <1>1. 1 \in Node /\ \A n \in Node : n < DEMO_INPUT_BUFFER_NUM => n + 1 \in Node
    BY BufferNumAssumption DEF Node
  <1>2. head' \in [List -> Node \cup {NULL}]
    BY <1>1 DEF FillLists, Pointers
  <1>3. next' \in [Node -> Node \cup {NULL}]
    BY <1>1 DEF FillLists
  <1> QED
    BY <1>2, <1>3 DEF FillLists, Pointers

(* The calls into the lists, and the queue of the library, one by one. *)
LEMMA NextListInv == ListInv /\ [Next]_vars => ListInv'
  <1> SUFFICES ASSUME ListInv, [Next]_vars
               PROVE  ListInv'
    OBVIOUS
  <1> USE DEF ListInv
  <1>1. ASSUME UNCHANGED listVars PROVE ListInv'
    BY <1>1 DEF listVars, libraryVars, Pointers, InFlight, Fed
  <1>2. ASSUME NEW t \in Thread, ListStep(t) PROVE ListInv'
    BY <1>2, ListStepPointers, ListStepInFlight
  <1>3. CASE InitDone
    <2>1. PICK given : FillLists(given)
      BY <1>3 DEF InitDone
    <2>2. Pointers'
      BY <2>1, FillListsPointers
    <2> QED BY <2>1, <2>2 DEF FillLists, libraryVars, InFlight, Fed
  <1>4. CASE YuvIn
    BY <1>4 DEF YuvIn, Call, Goto, memory, libraryVars, Pointers, InFlight, Fed, Enqueueing, Thread, List
  <1>5. CASE YuvInQueue
    <2>1. Pointers'
      BY <1>5 DEF YuvInQueue, Call, Goto, memory, Pointers, Enqueueing, Thread, List
    <2>2. pc'["enc"] = "enqRead" /\ UNCHANGED <<staFlag, owed, outputs>>
      BY <1>5 DEF YuvInQueue, Call, Goto, Pointers, Thread
    <2>3. queued = <<>> /\ ~owed /\ outputs = 0 /\ staFlag # "fetch"
      BY <1>5 DEF YuvInQueue, InFlight, Fed, Enqueueing
    <2>4. Tail(queued') = <<>>
      BY <1>5, <2>3 DEF YuvInQueue
    <2> QED BY <2>1, <2>2, <2>3, <2>4 DEF InFlight, Fed, Enqueueing
  <1>6. CASE Out
    BY <1>6 DEF Out, memory, Pointers, InFlight, Fed, Enqueueing
  <1>7. CASE VencOutput
    BY <1>7 DEF VencOutput, memory, Pointers, InFlight, Fed, Enqueueing
  <1>8. CASE InputBufferDone
    <2>1. Pointers'
      BY <1>8 DEF InputBufferDone, Call, Goto, memory, Pointers, Enqueueing, Thread, List
    <2>2. pc'["enc"] = pc["enc"] /\ UNCHANGED <<staFlag, outputs>>
      BY <1>8 DEF InputBufferDone, Call, Goto, Pointers, Thread
    <2>3. queued # <<>> /\ queued' = Tail(queued) /\ owed'
      BY <1>8 DEF InputBufferDone
    <2> QED BY <2>1, <2>2, <2>3 DEF InFlight, Fed
  <1>9. CASE InputBufferDoneCopy
    <2>1. Pointers'
      BY <1>9 DEF InputBufferDoneCopy, Call, Goto, Pointers, Enqueueing, Thread, List
    <2>2. pc'["enc"] = pc["enc"] /\ UNCHANGED <<staFlag, queued, owed, outputs>>
      BY <1>9 DEF InputBufferDoneCopy, Call, Goto, libraryVars, Pointers, Thread
    <2> QED BY <2>1, <2>2 DEF InFlight, Fed
  <1>10. CASE EncStep
    BY <1>10, <1>1, <1>2, <1>4, <1>5, <1>6
       DEF EncStep, FeedFrame, CopyFrame, CopyToNowhere, FetchFrame, MoveNode, Thread
  <1>11. CASE VencStep
    BY <1>11, <1>2, <1>7, <1>8, <1>9
       DEF VencStep, EncodedFrame, BufferDone, BufferDoneCopy, MoveNode, Thread
  <1>12. CASE UpdateMbModeInfo
    BY <1>12, <1>1 DEF UpdateMbModeInfo
  <1>13. CASE MainStep
    BY <1>13, <1>1, <1>3 DEF MainStep, InitNoContext, InitNoMemops, GetSpsPps, RunEnds,
       UninitDestroy, UninitMemClose, UninitContext
  <1>14. CASE UNCHANGED vars
    BY <1>14, <1>1 DEF vars
  <1> QED
    BY <1>10, <1>11, <1>12, <1>13, <1>14 DEF Next

-----------------------------------------------------------------------------
(* The context is there whenever one of the threads uses it, after an Init that
   worked. *)
LEMMA NextLife == IInv /\ [Next]_vars => Life'
  <1> SUFFICES ASSUME IInv, [Next]_vars
               PROVE  Life'
    OBVIOUS
  <1> USE DEF IInv, ListInv, Life
  <1>1. CASE UNCHANGED vars
    BY <1>1 DEF vars, listVars, lifeVars, CrashForCause, AllGiven
  <1> SUFFICES ASSUME ~crash, EncStep \/ VencStep \/ UpdateMbModeInfo \/ MainStep
               PROVE  Life'
    BY <1>1 DEF Next
  <1>2. ASSUME NEW t \in Thread, MoveNode(t) PROVE Life'
    <2>1. pc[t] # "idle" /\ \A u \in Thread : u # t => pc'[u] = pc[u]
      BY <1>2, ListStepFrame DEF MoveNode
    <2>2. nRet = 0 => pEncContext
      BY <2>1 DEF Thread
    <2>3. /\ pc'["enc"] # "idle" => step = "run"
          /\ pc'["venc"] # "idle" => pVideoEnc = "started"
      BY <2>1 DEF Thread
    <2> QED BY <1>2, <2>2, <2>3 DEF MoveNode, lifeVars, CrashForCause, AllGiven
  <1>3. CASE FeedFrame
    BY <1>3 DEF FeedFrame, YuvIn, Call, Goto, lifeVars, Pointers, Thread, CrashForCause, AllGiven
  <1>4. CASE CopyFrame
    BY <1>4 DEF CopyFrame, YuvInQueue, Call, Goto, lifeVars, Pointers, Thread, CrashForCause, AllGiven
  <1>5. CASE CopyToNowhere
    <2>1. node["enc"] \in Node
      BY <1>5 DEF CopyToNowhere, Pointers, Thread
    <2>2. ~AllGiven'
      BY <1>5, <2>1 DEF CopyToNowhere, listVars, lifeVars, AllGiven
    <2> QED BY <1>5, <2>2 DEF CopyToNowhere, listVars, lifeVars, CrashForCause
  <1>6. CASE FetchFrame
    BY <1>6 DEF FetchFrame, Out, lifeVars, CrashForCause
  <1>7. CASE EncodedFrame
    BY <1>7 DEF EncodedFrame, VencOutput, lifeVars, CrashForCause
  <1>8. CASE BufferDone
    BY <1>8 DEF BufferDone, InputBufferDone, Call, Goto, lifeVars, Pointers, Thread, CrashForCause
  <1>9. CASE BufferDoneCopy
    <2>1. pVideoEnc = "started"
      BY <1>9 DEF BufferDoneCopy, InputBufferDoneCopy
    <2>2. pc'["enc"] = pc["enc"]
      BY <1>9 DEF BufferDoneCopy, InputBufferDoneCopy, Call, Goto, Pointers, Thread
    <2> QED BY <1>9, <2>1, <2>2 DEF BufferDoneCopy, lifeVars, CrashForCause
  <1>10. CASE UpdateMbModeInfo
    BY <1>10 DEF UpdateMbModeInfo, listVars, CrashForCause
  <1>11. CASE InitNoContext
    BY <1>11 DEF InitNoContext, listVars, CrashForCause
  <1>12. CASE InitNoMemops
    BY <1>12 DEF InitNoMemops, listVars, CrashForCause
  <1>13. CASE InitDone
    <2>1. pc' = pc
      BY <1>13 DEF InitDone, FillLists
    <2> QED BY <1>13, <2>1 DEF InitDone, CrashForCause, Pointers, Thread
  <1>14. CASE GetSpsPps
    BY <1>14 DEF GetSpsPps, listVars, CrashForCause, AllGiven
  <1>15. CASE RunEnds
    BY <1>15 DEF RunEnds, listVars, CrashForCause
  <1>16. CASE UninitDestroy
    BY <1>16 DEF UninitDestroy, listVars, CrashForCause
  <1>17. CASE UninitMemClose
    BY <1>17 DEF UninitMemClose, listVars, CrashForCause, AllGiven
  <1>18. CASE UninitContext
    BY <1>18 DEF UninitContext, listVars, CrashForCause
  <1> QED
    BY <1>2, <1>3, <1>4, <1>5, <1>6, <1>7, <1>8, <1>9, <1>10, <1>11, <1>12, <1>13, <1>14,
       <1>15, <1>16, <1>17, <1>18 DEF EncStep, VencStep, MainStep, Thread

LEMMA Invariance == Spec => []IInv
  <1>1. IInv /\ [Next]_vars => IInv'
    BY NextListInv, NextLife DEF IInv
  <1> QED
    BY InitIInv, <1>1, PTL DEF Spec

-----------------------------------------------------------------------------
(* YuvIn never fills a buffer that the library has not given back, with any
   number of buffers: when one is taken, everything fed before has come out
   (H264Encoder.cpp:433-462, yuvToH264Encoder.cpp:158-168). *)
THEOREM BuffersNotOverwritten == Spec => []NoWriteWhileQueued
  <1>1. IInv => NoWriteWhileQueued
    BY DEF IInv, ListInv, InFlight, Fed, Enqueueing, NoWriteWhileQueued
  <1> QED
    BY Invariance, <1>1, PTL

(* Memory that is not there is used only after an Init that failed or was short
   of buffers (H264Encoder.cpp:87-430, yuvToH264Encoder.cpp:28). *)
THEOREM CrashNeedsFailedInit == Spec => []CrashForCause
  <1>1. IInv => CrashForCause
    BY DEF IInv, Life
  <1> QED
    BY Invariance, <1>1, PTL

(* Uninit takes back what Init made, also after an Init that gave up in the
   middle (H264Encoder.cpp:408-430). *)
THEOREM UninitReleases == Spec => []EncoderReleased
  <1>1. IInv => EncoderReleased
    BY DEF IInv, Life, EncoderReleased
  <1> QED
    BY Invariance, <1>1, PTL

-----------------------------------------------------------------------------
(* The planes are those of the picture once the codec is complete; before, and
   when it never is, the lists stay empty. *)
PlanesInv ==
    /\ size \in Sizes
    /\ step # "args" /\ nRet = 0 =>
          planes = [Y |-> nSizeY(size[1], size[2]), C |-> nSizeC(size[1], size[2])]
    /\ step = "args" \/ nRet # 0 =>
          /\ \A l \in List : head[l] = NULL
          /\ pc["enc"] \in {"idle", "deqRead"}
          /\ pVideoEnc = "NULL"

LEMMA InitPlanesInv == Init => PlanesInv
  BY DEF Init, ListsEmpty, PlanesInv, List, Thread

LEMMA NextPlanesInv == IInv /\ PlanesInv /\ [Next]_vars => PlanesInv'
  <1> SUFFICES ASSUME IInv, PlanesInv, [Next]_vars
               PROVE  PlanesInv'
    OBVIOUS
  <1> USE DEF PlanesInv
  <1>1. CASE step # "args" /\ nRet = 0
    <2>1. UNCHANGED <<size, nRet, planes>> /\ step' # "args"
      BY <1>1 DEF Next, vars, lifeVars, EncStep, FeedFrame, CopyFrame, CopyToNowhere, FetchFrame,
         MoveNode, VencStep, EncodedFrame, BufferDone, BufferDoneCopy, UpdateMbModeInfo,
         MainStep, InitNoContext, InitNoMemops, InitDone, GetSpsPps, RunEnds,
         UninitDestroy, UninitMemClose, UninitContext
    <2> QED BY <1>1, <2>1
  <1>2. CASE step = "args" \/ nRet # 0
    <2>1. pc["venc"] = "idle" /\ pVideoEnc = "NULL" /\ pc["enc"] \in {"idle", "deqRead"}
      BY <1>2 DEF IInv, Life
    <2>2. ASSUME UNCHANGED <<head, pc, size, planes, pVideoEnc>>, step' # "args", nRet' # 0
          PROVE  PlanesInv'
      BY <1>2, <2>2
    <2>3. ASSUME step # "args", UNCHANGED <<head, pc, nRet, size, planes, pVideoEnc>>, step' # "args"
          PROVE  PlanesInv'
      BY <1>2, <2>3
    <2>4. CASE InitDone
      BY <2>4 DEF InitDone, IInv, Life
    <2>5. CASE FeedFrame
      <3>1. pc'["enc"] = "deqRead" /\ UNCHANGED <<head, nRet, step, size, planes, pVideoEnc>>
        BY <2>5 DEF FeedFrame, YuvIn, Call, Goto, memory, lifeVars, IInv, ListInv, Pointers, Thread
      <3> QED BY <1>2, <2>5, <3>1 DEF FeedFrame
    <2>6. CASE MoveNode("enc")
      <3>1. pc["enc"] = "deqRead"
        BY <2>1, <2>6, ListStepFrame DEF MoveNode, IInv, ListInv, Thread
      <3>2. DequeueRead("enc")
        BY <2>6, <3>1 DEF MoveNode, ListStep, DequeueNext, DequeueHead, DequeueClear,
           EnqueueRead, EnqueueHead, EnqueueWalk, EnqueueLink, EnqueueClear
      <3>3. head[list["enc"]] = NULL
        BY <1>2 DEF IInv, ListInv, Pointers, Thread
      <3>4. pc'["enc"] = "idle" /\ UNCHANGED <<head, nRet, step, size, planes, pVideoEnc>>
        BY <2>6, <3>2, <3>3
           DEF MoveNode, DequeueRead, Goto, memory, lifeVars, IInv, ListInv, Pointers, Thread
      <3> QED BY <1>2, <3>4
    <2>7. CASE FetchFrame
      BY <1>2, <2>7 DEF FetchFrame, Out, memory, lifeVars
    <2>8. ~(CopyFrame \/ CopyToNowhere)
      BY <2>1 DEF CopyFrame, YuvInQueue, CopyToNowhere
    <2>9. ~VencStep /\ ~UpdateMbModeInfo
      BY <2>1, ListStepFrame DEF VencStep, EncodedFrame, BufferDone, BufferDoneCopy,
         InputBufferDoneCopy, MoveNode, UpdateMbModeInfo, IInv, ListInv, Thread
    <2>10. CASE InitNoContext \/ InitNoMemops
      BY <2>2, <2>10 DEF InitNoContext, InitNoMemops, listVars
    <2>11. CASE GetSpsPps \/ RunEnds \/ UninitMemClose \/ UninitContext
      BY <2>3, <2>11 DEF GetSpsPps, RunEnds, UninitMemClose, UninitContext, listVars
    <2>12. CASE UninitDestroy
      BY <1>2, <2>12 DEF UninitDestroy, listVars
    <2>13. CASE UNCHANGED vars
      BY <1>2, <2>13 DEF vars, listVars, lifeVars
    <2> QED
      BY <2>4, <2>5, <2>6, <2>7, <2>8, <2>9, <2>10, <2>11, <2>12, <2>13
         DEF Next, EncStep, MainStep
  <1> QED BY <1>1, <1>2

(* A size that the program accepts is a size. *)
LEMMA AcceptedSizes ==
    ASSUME NEW width, NEW height, NEW fps, Accepted(width, height, fps)
    PROVE  width \in Nat /\ height \in Nat
  BY DEF Accepted

(* With heights that round up to a multiple of 32 no copy leaves its plane
   (640x480 and 1920x1080 do, 1280x720 and 3840x2160 do not;
   H264Encoder.cpp:231-232, 442-443). *)
THEOREM CopiesFit ==
    ASSUME \A s \in Sizes : ALIGN_16B(s[2]) % 32 = 0
    PROVE  Spec => []CopyStaysInPlanes
  <1>1. IInv /\ PlanesInv => CopyStaysInPlanes
    <2> SUFFICES ASSUME IInv, PlanesInv, pc["enc"] = "got"
                 PROVE  /\ CopyY(size[1], size[2]) <= planes.Y
                        /\ CopyC(size[1], size[2]) <= planes.C
      BY DEF CopyStaysInPlanes
    <2>1. /\ planes.Y = nSizeY(size[1], size[2])
          /\ planes.C = nSizeC(size[1], size[2])
      BY DEF PlanesInv
    <2>2. /\ Accepted(size[1], size[2], size[3])
          /\ ALIGN_16B(size[2]) % 32 = 0
      BY SizesAssumption DEF PlanesInv
    <2>3. CopyC(size[1], size[2]) = nSizeC(size[1], size[2]) + 0
      BY <2>2, ChromaFits
    <2>4. CopyY(size[1], size[2]) = nSizeY(size[1], size[2])
      BY LumaFits
    <2>5. nSizeY(size[1], size[2]) \in Int /\ nSizeC(size[1], size[2]) \in Int
      <3>1. size[1] \in Nat /\ size[2] \in Nat
        BY <2>2, AcceptedSizes
      <3>2. ALIGN_16B(size[1]) \in Nat /\ ALIGN_16B(size[2]) \in Nat
        BY <3>1, AlignUp
      <3> QED BY <3>2 DEF nSizeY, nSizeC
    <2> QED BY <2>1, <2>3, <2>4, <2>5
  <1> QED
    BY Invariance, InitPlanesInv, NextPlanesInv, <1>1, PTL DEF Spec

-----------------------------------------------------------------------------
(* The nodes as long as nothing has raced. w says for each on which list or in
   whose hand it is, a in which order those of a list come. *)
Holding == {"deqClear", "got", "enqRead", "enqHead", "enqWalk", "enqLink"}

Heads(w, a) ==
    \A l \in List :
        /\ head[l] = NULL => \A n \in Node : w[n] # l
        /\ head[l] # NULL => w[head[l]] = l /\ \A n \in Node : w[n] = l => a[head[l]] <= a[n]

Links(w, a) ==
    \A n \in Node : w[n] \in List =>
        /\ next[n] = NULL => \A m \in Node : w[m] = w[n] => a[m] <= a[n]
        /\ next[n] # NULL => w[next[n]] = w[n] /\ a[next[n]] = a[n] + 1
        /\ head[w[n]] # n => \E m \in Node : w[m] = w[n] /\ next[m] = n

Apart(w, a) ==
    \A m, n \in Node : w[m] = w[n] /\ w[n] \in List /\ a[m] = a[n] => m = n

(* What a thread in the middle of a call has seen is still so. *)
Hand(w, t) ==
    /\ \A n \in Node : w[n] = t <=> pc[t] \in Holding /\ node[t] = n
    /\ pc[t] \in {"deqNext", "deqHead"} => node[t] = head[list[t]]
    /\ pc[t] = "deqHead" => cur[t] = next[node[t]]
    /\ pc[t] = "enqHead" => head[list[t]] = NULL
    /\ pc[t] \in {"enqWalk", "enqLink"} => w[cur[t]] = list[t]
    /\ pc[t] = "enqLink" => next[cur[t]] = NULL
    /\ pc[t] \in {"got", "enqRead", "enqHead", "enqWalk", "enqLink"} => next[node[t]] = NULL
    /\ pc[t] = "enqClear" => w[node[t]] = list[t] /\ next[node[t]] = NULL

Tidy(w, a) ==
    /\ w \in [Node -> List \cup Thread] /\ a \in [Node -> Int]
    /\ Heads(w, a) /\ Links(w, a) /\ Apart(w, a)
    /\ \A t \in Thread : Hand(w, t)

TidyInv ==
    /\ Together => raced
    /\ nRet = 0 /\ step # "args" /\ ~raced => \E w, a : Tidy(w, a)

(* The other thread, when t takes a step on a list that both are not in. *)
LEMMA OtherHand ==
    ASSUME Pointers, ~Together, NEW t \in Thread, ListStep(t), NEW u \in Thread \ {t}
    PROVE  /\ pc'[u] = pc[u] /\ list'[u] = list[u] /\ node'[u] = node[u] /\ cur'[u] = cur[u]
           /\ pc[u] \in {"idle", "got"} \/ list[u] # list[t]
           /\ list' = list
<1>1. pc[t] \notin {"idle", "got"}
  BY DEF ListStep, DequeueRead, DequeueNext, DequeueHead, DequeueClear,
         EnqueueRead, EnqueueHead, EnqueueWalk, EnqueueLink, EnqueueClear
<1>2. pc[u] \in {"idle", "got"} \/ list[u] # list[t]
  BY <1>1 DEF Together, Thread
<1>3. pc'[u] = pc[u] /\ list' = list /\ node'[u] = node[u] /\ cur'[u] = cur[u]
  BY DEF Pointers, ListStep, Goto, DequeueRead, DequeueNext, DequeueHead, DequeueClear,
         EnqueueRead, EnqueueHead, EnqueueWalk, EnqueueLink, EnqueueClear
<1> QED
  BY <1>2, <1>3

(* Steps that only read. *)
LEMMA ReadKeepsTidy ==
    ASSUME Pointers, NEW w, NEW a, Tidy(w, a), ~Together, NEW t \in Thread,
           DequeueRead(t) \/ DequeueNext(t) \/ EnqueueRead(t) \/ EnqueueWalk(t)
    PROVE  Tidy(w, a)'
<1>1. UNCHANGED <<head, next, list>> /\ ListStep(t)
  BY DEF DequeueRead, DequeueNext, EnqueueRead, EnqueueWalk, ListStep, memory
<1>2. (Heads(w, a) /\ Links(w, a) /\ Apart(w, a))'
  BY <1>1 DEF Tidy, Heads, Links, Apart
<1>3. ASSUME NEW u \in Thread \ {t} PROVE Hand(w, u)'
  BY <1>1, OtherHand DEF Tidy, Hand
<1>4. Hand(w, t) /\ Heads(w, a) /\ Links(w, a) /\ list[t] \in List
  BY DEF Tidy, Pointers
<1>5. Hand(w, t)'
  <2>1. CASE DequeueRead(t)
    BY <1>1, <1>4, <2>1 DEF DequeueRead, Goto, Pointers, Hand, Holding
  <2>2. CASE DequeueNext(t)
    BY <1>1, <1>4, <2>2 DEF DequeueNext, Goto, Pointers, Hand, Holding
  <2>3. CASE EnqueueRead(t)
    BY <1>1, <1>4, <2>3 DEF EnqueueRead, Goto, Pointers, Hand, Holding, Heads
  <2>4. CASE EnqueueWalk(t)
    <3>1. pc[t] = "enqWalk" /\ cur[t] \in Node /\ w[cur[t]] = list[t] /\ node' = node
      BY <1>4, <2>4 DEF EnqueueWalk, Pointers, Hand
    <3>2. CASE next[cur[t]] = NULL
      BY <1>1, <1>4, <2>4, <3>1, <3>2 DEF EnqueueWalk, Goto, Pointers, Hand, Holding
    <3>3. CASE next[cur[t]] # NULL
      <4>1. cur'[t] = next[cur[t]] /\ pc' = pc
        BY <2>4, <3>3 DEF EnqueueWalk, Pointers
      <4>2. w[next[cur[t]]] = list[t]
        BY <1>4, <3>1, <3>3 DEF Links
      <4> QED
        BY <1>1, <1>4, <3>1, <4>1, <4>2 DEF Hand
    <3> QED
      BY <3>2, <3>3
  <2> QED
    BY <2>1, <2>2, <2>3, <2>4
<1> QED
  BY <1>2, <1>3, <1>5 DEF Tidy

LEMMA DequeueHeadKeepsTidy ==
    ASSUME Pointers, NEW w, NEW a, Tidy(w, a), ~Together, NEW t \in Thread, DequeueHead(t)
    PROVE  \E v : Tidy(v, a)'
<1> DEFINE l == list[t]
           h == node[t]
<1>0. PICK v : v = [w EXCEPT ![h] = t]
  OBVIOUS
<1>1. ListStep(t)
  BY DEF ListStep
<1>2. /\ pc[t] = "deqHead" /\ pc'[t] = "deqClear" /\ UNCHANGED <<next, list, node, cur>>
      /\ head' = [head EXCEPT ![l] = cur[t]]
  BY DEF DequeueHead, Goto, Pointers
<1>3. /\ l \in List /\ h \in Node /\ h # NULL /\ t \notin List
      /\ head \in [List -> Node \cup {NULL}] /\ next \in [Node -> Node \cup {NULL}]
  BY <1>2 DEF Pointers, List, Thread, Node, NULL
<1>4. /\ w \in [Node -> List \cup Thread] /\ a \in [Node -> Int]
      /\ Heads(w, a) /\ Links(w, a) /\ Apart(w, a) /\ Hand(w, t)
  BY DEF Tidy
<1>5. h = head[l] /\ cur[t] = next[h] /\ w[h] = l /\ \A n \in Node : w[n] = l => a[h] <= a[n]
  BY <1>2, <1>3, <1>4 DEF Hand, Heads
<1>6. v \in [Node -> List \cup Thread] /\ v[h] = t /\ \A n \in Node \ {h} : v[n] = w[n]
  BY <1>0, <1>3, <1>4
<1>7. \A k \in List : head'[k] = IF k = l THEN next[h] ELSE head[k]
  BY <1>2, <1>3, <1>5
<1>8. next[h] # NULL => next[h] \in Node \ {h} /\ w[next[h]] = l /\ a[next[h]] = a[h] + 1
  <2> SUFFICES ASSUME next[h] # NULL
               PROVE  next[h] \in Node \ {h} /\ w[next[h]] = l /\ a[next[h]] = a[h] + 1
    OBVIOUS
  <2>1. next[h] \in Node /\ w[next[h]] = l /\ a[next[h]] = a[h] + 1
    BY <1>3, <1>4, <1>5 DEF Links
  <2>2. a[h] \in Int /\ a[h] # a[h] + 1
    BY <1>3, <1>4
  <2> QED
    BY <2>1, <2>2
<1>9. Heads(v, a)'
  <2> SUFFICES ASSUME NEW k \in List
               PROVE  /\ head'[k] = NULL => \A n \in Node : v[n] # k
                      /\ head'[k] # NULL => v[head'[k]] = k
                                            /\ \A n \in Node : v[n] = k => a[head'[k]] <= a[n]
    BY DEF Heads
  <2>1. CASE k # l
    BY <1>3, <1>4, <1>5, <1>6, <1>7, <2>1 DEF Heads
  <2>2. CASE k = l /\ next[h] = NULL
    <3>1. ASSUME NEW n \in Node, w[n] = l PROVE n = h
      <4>1. a[n] <= a[h] /\ a[h] <= a[n] /\ a[n] \in Int /\ a[h] \in Int
        BY <1>3, <1>4, <1>5, <2>2, <3>1 DEF Links
      <4> QED
        BY <1>3, <1>4, <1>5, <3>1, <4>1 DEF Apart
    <3> QED
      BY <1>3, <1>6, <1>7, <2>2, <3>1
  <2>3. CASE k = l /\ next[h] # NULL
    <3>1. ASSUME NEW n \in Node, v[n] = l PROVE a[next[h]] <= a[n]
      <4>1. n # h /\ w[n] = l
        BY <1>3, <1>6, <3>1
      <4>2. a[h] <= a[n] /\ a[h] # a[n] /\ a[n] \in Int /\ a[h] \in Int
        BY <1>3, <1>4, <1>5, <4>1 DEF Apart
      <4> QED
        BY <1>8, <2>3, <4>2
    <3> QED
      BY <1>6, <1>7, <1>8, <2>3, <3>1
  <2> QED
    BY <2>1, <2>2, <2>3
<1>10. Links(v, a)'
  <2> SUFFICES ASSUME NEW n \in Node, v[n] \in List
               PROVE  /\ next[n] = NULL => \A m \in Node : v[m] = v[n] => a[m] <= a[n]
                      /\ next[n] # NULL => v[next[n]] = v[n] /\ a[next[n]] = a[n] + 1
                      /\ head'[v[n]] # n => \E m \in Node : v[m] = v[n] /\ next[m] = n
    BY <1>2 DEF Links
  <2>1. n # h /\ v[n] = w[n] /\ w[n] \in List
    BY <1>3, <1>6
  <2>2. next[n] = NULL => \A m \in Node : v[m] = v[n] => a[m] <= a[n]
    BY <1>3, <1>4, <1>6, <2>1 DEF Links
  <2>3. ASSUME next[n] # NULL PROVE v[next[n]] = v[n] /\ a[next[n]] = a[n] + 1
    <3>1. next[n] \in Node /\ w[next[n]] = w[n] /\ a[next[n]] = a[n] + 1
      BY <1>3, <1>4, <2>1, <2>3 DEF Links
    <3>2. next[n] # h
      <4> SUFFICES ASSUME next[n] = h PROVE FALSE
        OBVIOUS
      <4>1. w[n] = l /\ a[h] = a[n] + 1 /\ a[h] <= a[n] /\ a[n] \in Int /\ a[h] \in Int
        BY <1>3, <1>4, <1>5, <3>1
      <4> QED
        BY <4>1
    <3> QED
      BY <1>6, <2>1, <3>1, <3>2
  <2>4. ASSUME head'[v[n]] # n PROVE \E m \in Node : v[m] = v[n] /\ next[m] = n
    <3>1. head[w[n]] # n
      BY <1>3, <1>5, <1>7, <2>1, <2>4
    <3>2. PICK m \in Node : w[m] = w[n] /\ next[m] = n
      BY <1>4, <2>1, <3>1 DEF Links
    <3>3. m # h
      BY <1>3, <1>5, <1>7, <2>1, <2>4, <3>2
    <3> QED
      BY <1>6, <2>1, <3>2, <3>3
  <2> QED
    BY <2>2, <2>3, <2>4
<1>11. Apart(v, a)'
  BY <1>3, <1>4, <1>6 DEF Apart
<1>12. Hand(v, t)'
  <2>1. \A n \in Node : w[n] # t
    BY <1>2, <1>4 DEF Hand, Holding
  <2> QED
    BY <1>2, <1>3, <1>6, <2>1 DEF Hand, Holding
<1>13. ASSUME NEW u \in Thread \ {t} PROVE Hand(v, u)'
  <2>1. /\ pc'[u] = pc[u] /\ list'[u] = list[u] /\ node'[u] = node[u] /\ cur'[u] = cur[u]
        /\ pc[u] \in {"idle", "got"} \/ list[u] # l
    BY <1>1, OtherHand
  <2>2. Hand(w, u) /\ list[u] \in List /\ u \notin List
    BY DEF Tidy, Pointers, List, Thread
  <2>3. /\ pc[u] \notin {"idle", "deqRead"} => node[u] \in Node
        /\ pc[u] \in {"enqWalk", "enqLink"} => cur[u] \in Node
    BY DEF Pointers
  <2>4. \A n \in Node : v[n] = u <=> w[n] = u
    BY <1>3, <1>5, <1>6, <2>2
  <2>5. list[u] # l => head'[list[u]] = head[list[u]]
    BY <1>7, <2>2
  <2>6. \A n \in Node : list[u] # l /\ w[n] = list[u] => v[n] = list[u]
    BY <1>5, <1>6
  <2> QED
    BY <1>2, <2>1, <2>2, <2>3, <2>4, <2>5, <2>6 DEF Hand
<1>14. Tidy(v, a)'
  BY <1>4, <1>6, <1>9, <1>10, <1>11, <1>12, <1>13 DEF Tidy
<1> QED
  BY <1>14

LEMMA ClearKeepsTidy ==
    ASSUME Pointers, NEW w, NEW a, Tidy(w, a), ~Together, NEW t \in Thread,
           DequeueClear(t) \/ EnqueueClear(t)
    PROVE  Tidy(w, a)'
<1> DEFINE d == node[t]
<1>1. ListStep(t)
  BY DEF ListStep
<1>2. /\ pc[t] \in {"deqClear", "enqClear"} /\ UNCHANGED <<head, list, node, cur>>
      /\ pc'[t] = IF pc[t] = "deqClear" THEN "got" ELSE "idle"
      /\ next' = [next EXCEPT ![d] = NULL]
  BY DEF DequeueClear, EnqueueClear, Goto, Pointers
<1>3. /\ d \in Node /\ next \in [Node -> Node \cup {NULL}] /\ t \notin List
      /\ next' \in [Node -> Node \cup {NULL}]
      /\ next'[d] = NULL /\ \A n \in Node \ {d} : next'[n] = next[n]
  BY <1>2 DEF Pointers, List, Thread
<1>4. /\ w \in [Node -> List \cup Thread] /\ a \in [Node -> Int]
      /\ Heads(w, a) /\ Links(w, a) /\ Apart(w, a) /\ Hand(w, t)
  BY DEF Tidy
<1>5. w[d] = t \/ next[d] = NULL
  BY <1>2, <1>3, <1>4 DEF Hand, Holding
<1>6. \A n \in Node : w[n] # t => next'[n] = next[n]
  BY <1>3, <1>5
<1>7. Heads(w, a)' /\ Apart(w, a)'
  BY <1>2, <1>4 DEF Heads, Apart
<1>8. Links(w, a)'
  <2> SUFFICES ASSUME NEW n \in Node, w[n] \in List
               PROVE  /\ next'[n] = NULL => \A m \in Node : w[m] = w[n] => a[m] <= a[n]
                      /\ next'[n] # NULL => w[next'[n]] = w[n] /\ a[next'[n]] = a[n] + 1
                      /\ head[w[n]] # n => \E m \in Node : w[m] = w[n] /\ next'[m] = n
    BY <1>2 DEF Links
  <2>1. next'[n] = next[n]
    BY <1>3, <1>6
  <2>2. ASSUME head[w[n]] # n PROVE \E m \in Node : w[m] = w[n] /\ next'[m] = n
    <3>1. PICK m \in Node : w[m] = w[n] /\ next[m] = n
      BY <1>4, <2>2 DEF Links
    <3>2. next'[m] = n
      BY <1>3, <1>6, <3>1
    <3> QED
      BY <3>1, <3>2
  <2> QED
    BY <1>4, <2>1, <2>2 DEF Links
<1>9. Hand(w, t)'
  <2>1. CASE pc[t] = "deqClear"
    BY <1>2, <1>3, <1>4, <2>1 DEF Hand, Holding
  <2>2. CASE pc[t] = "enqClear"
    BY <1>2, <1>3, <1>4, <2>2 DEF Hand, Holding
  <2> QED
    BY <1>2, <2>1, <2>2
<1>10. ASSUME NEW u \in Thread \ {t} PROVE Hand(w, u)'
  <2>1. /\ pc'[u] = pc[u] /\ list'[u] = list[u] /\ node'[u] = node[u] /\ cur'[u] = cur[u]
        /\ pc[u] \in {"idle", "got"} \/ list[u] # list[t]
    BY <1>1, OtherHand
  <2>2. Hand(w, u) /\ list[u] \in List /\ u \notin List /\ u # t
    BY DEF Tidy, Pointers, List, Thread
  <2>3. /\ pc[u] \notin {"idle", "deqRead"} => node[u] \in Node
        /\ pc[u] \in {"enqWalk", "enqLink"} => cur[u] \in Node
    BY DEF Pointers
  <2>4. pc[u] = "deqHead" => w[node[u]] # t
    BY <1>3, <1>4, <2>2, <2>3 DEF Hand, Heads, NULL, Node
  <2>5. pc[u] \in Holding => w[node[u]] = u
    BY <2>2, <2>3 DEF Hand, Holding
  <2>6. pc[u] = "enqClear" => w[node[u]] # t
    BY <1>3, <2>2 DEF Hand
  <2>7. pc[u] = "enqLink" => w[cur[u]] # t
    BY <1>3, <2>2 DEF Hand
  <2>8. pc[u] \in {"deqHead", "enqClear"} \cup Holding => next'[node[u]] = next[node[u]]
    BY <1>6, <2>2, <2>3, <2>4, <2>5, <2>6 DEF Holding
  <2>9. pc[u] = "enqLink" => next'[cur[u]] = next[cur[u]]
    BY <1>6, <2>3, <2>7
  <2> QED
    BY <1>2, <2>1, <2>2, <2>8, <2>9 DEF Hand, Holding
<1> QED
  BY <1>4, <1>7, <1>8, <1>9, <1>10 DEF Tidy

LEMMA EnqueueHeadKeepsTidy ==
    ASSUME Pointers, NEW w, NEW a, Tidy(w, a), ~Together, NEW t \in Thread, EnqueueHead(t)
    PROVE  \E v : Tidy(v, a)'
<1> DEFINE l == list[t]
           d == node[t]
<1>0. PICK v : v = [w EXCEPT ![d] = l]
  OBVIOUS
<1>1. ListStep(t)
  BY DEF ListStep
<1>2. /\ pc[t] = "enqHead" /\ pc'[t] = "enqClear" /\ UNCHANGED <<next, list, node, cur>>
      /\ head' = [head EXCEPT ![l] = d]
  BY DEF EnqueueHead, Goto, Pointers
<1>3. /\ l \in List /\ d \in Node /\ d # NULL /\ t \notin List
      /\ head \in [List -> Node \cup {NULL}] /\ next \in [Node -> Node \cup {NULL}]
  BY <1>2 DEF Pointers, List, Thread, Node, NULL
<1>4. /\ w \in [Node -> List \cup Thread] /\ a \in [Node -> Int]
      /\ Heads(w, a) /\ Links(w, a) /\ Apart(w, a) /\ Hand(w, t)
  BY DEF Tidy
<1>5. w[d] = t /\ next[d] = NULL /\ \A n \in Node : w[n] # l
  BY <1>2, <1>3, <1>4 DEF Hand, Holding, Heads
<1>6. v \in [Node -> List \cup Thread] /\ v[d] = l /\ \A n \in Node \ {d} : v[n] = w[n]
  BY <1>0, <1>3, <1>4
<1>7. \A k \in List : head'[k] = IF k = l THEN d ELSE head[k]
  BY <1>2, <1>3
<1>8. \A n \in Node : v[n] = l => n = d
  BY <1>5, <1>6
<1>9. Heads(v, a)'
  <2> SUFFICES ASSUME NEW k \in List
               PROVE  /\ head'[k] = NULL => \A n \in Node : v[n] # k
                      /\ head'[k] # NULL => v[head'[k]] = k
                                            /\ \A n \in Node : v[n] = k => a[head'[k]] <= a[n]
    BY DEF Heads
  <2>1. CASE k # l
    <3>1. head'[k] = head[k] /\ \A n \in Node : v[n] = k <=> w[n] = k
      BY <1>3, <1>5, <1>6, <1>7, <2>1
    <3> QED
      BY <1>3, <1>4, <3>1 DEF Heads
  <2>2. CASE k = l
    BY <1>3, <1>4, <1>6, <1>7, <1>8, <2>2
  <2> QED
    BY <2>1, <2>2
<1>10. Links(v, a)'
  <2> SUFFICES ASSUME NEW n \in Node, v[n] \in List
               PROVE  /\ next[n] = NULL => \A m \in Node : v[m] = v[n] => a[m] <= a[n]
                      /\ next[n] # NULL => v[next[n]] = v[n] /\ a[next[n]] = a[n] + 1
                      /\ head'[v[n]] # n => \E m \in Node : v[m] = v[n] /\ next[m] = n
    BY <1>2 DEF Links
  <2>1. CASE n = d
    BY <1>3, <1>4, <1>5, <1>6, <1>7, <1>8, <2>1
  <2>2. CASE n # d
    <3>1. v[n] = w[n] /\ w[n] # l /\ \A m \in Node : v[m] = w[n] <=> w[m] = w[n]
      BY <1>3, <1>5, <1>6, <2>2
    <3>2. head'[w[n]] = head[w[n]]
      BY <1>7, <3>1
    <3>3. next[n] # NULL => next[n] \in Node
      BY <1>3
    <3> QED
      BY <1>4, <3>1, <3>2, <3>3 DEF Links
  <2> QED
    BY <2>1, <2>2
<1>11. Apart(v, a)'
  BY <1>4, <1>6, <1>8 DEF Apart
<1>12. Hand(v, t)'
  <2>1. \A n \in Node : w[n] = t <=> n = d
    BY <1>2, <1>4 DEF Hand, Holding
  <2>2. \A n \in Node : v[n] # t
    BY <1>3, <1>6, <2>1
  <2> QED
    BY <1>2, <1>5, <1>6, <2>2 DEF Hand, Holding
<1>13. ASSUME NEW u \in Thread \ {t} PROVE Hand(v, u)'
  <2>1. /\ pc'[u] = pc[u] /\ list'[u] = list[u] /\ node'[u] = node[u] /\ cur'[u] = cur[u]
        /\ pc[u] \in {"idle", "got"} \/ list[u] # l
    BY <1>1, OtherHand
  <2>2. Hand(w, u) /\ list[u] \in List /\ u \notin List /\ u # t
    BY DEF Tidy, Pointers, List, Thread
  <2>3. /\ pc[u] \notin {"idle", "deqRead"} => node[u] \in Node
        /\ pc[u] \in {"enqWalk", "enqLink"} => cur[u] \in Node
    BY DEF Pointers
  <2>4. \A n \in Node : v[n] = u <=> w[n] = u
    BY <1>3, <1>5, <1>6, <2>2
  <2>5. list[u] # l => head'[list[u]] = head[list[u]]
    BY <1>7, <2>2
  <2>6. \A n \in Node : list[u] # l /\ w[n] = list[u] => v[n] = list[u]
    BY <1>3, <1>5, <1>6, <2>2
  <2> QED
    BY <1>2, <2>1, <2>2, <2>3, <2>4, <2>5, <2>6 DEF Hand
<1>14. Tidy(v, a)'
  BY <1>4, <1>6, <1>9, <1>10, <1>11, <1>12, <1>13 DEF Tidy
<1> QED
  BY <1>14

LEMMA EnqueueLinkKeepsTidy ==
    ASSUME Pointers, NEW w, NEW a, Tidy(w, a), ~Together, NEW t \in Thread, EnqueueLink(t)
    PROVE  \E v, b : Tidy(v, b)'
<1> DEFINE l == list[t]
           d == node[t]
           e == cur[t]
<1>0. PICK v, b : v = [w EXCEPT ![d] = l] /\ b = [a EXCEPT ![d] = a[e] + 1]
  OBVIOUS
<1>1. ListStep(t)
  BY DEF ListStep
<1>2. /\ pc[t] = "enqLink" /\ pc'[t] = "enqClear" /\ UNCHANGED <<head, list, node, cur>>
      /\ next' = [next EXCEPT ![e] = d]
  BY DEF EnqueueLink, Goto, Pointers
<1>3. /\ l \in List /\ d \in Node /\ d # NULL /\ e \in Node /\ t \notin List
      /\ head \in [List -> Node \cup {NULL}] /\ next \in [Node -> Node \cup {NULL}]
  BY <1>2 DEF Pointers, List, Thread, Node, NULL
<1>4. /\ w \in [Node -> List \cup Thread] /\ a \in [Node -> Int]
      /\ Heads(w, a) /\ Links(w, a) /\ Apart(w, a) /\ Hand(w, t)
  BY DEF Tidy
<1>5. w[d] = t /\ next[d] = NULL /\ w[e] = l /\ next[e] = NULL /\ e # d
  BY <1>2, <1>3, <1>4 DEF Hand, Holding
<1>6. /\ v \in [Node -> List \cup Thread] /\ v[d] = l /\ \A n \in Node \ {d} : v[n] = w[n]
      /\ b \in [Node -> Int] /\ b[d] = a[e] + 1 /\ \A n \in Node \ {d} : b[n] = a[n]
  BY <1>0, <1>3, <1>4
<1>7. /\ next'[e] = d /\ \A n \in Node \ {e} : next'[n] = next[n]
      /\ head[l] \in Node \ {d} /\ \A n \in Node : w[n] = l => a[n] <= a[e]
  BY <1>2, <1>3, <1>4, <1>5 DEF Heads, Links
<1>8. Heads(v, b)'
  <2> SUFFICES ASSUME NEW k \in List
               PROVE  /\ head[k] = NULL => \A n \in Node : v[n] # k
                      /\ head[k] # NULL => v[head[k]] = k
                                           /\ \A n \in Node : v[n] = k => b[head[k]] <= b[n]
    BY <1>2 DEF Heads
  <2>1. CASE k # l
    <3>1. \A n \in Node : v[n] = k <=> w[n] = k
      BY <1>3, <1>5, <1>6, <2>1
    <3>2. \A n \in Node : w[n] = k => b[n] = a[n]
      BY <1>3, <1>5, <1>6
    <3> QED
      BY <1>3, <1>4, <3>1, <3>2 DEF Heads
  <2>2. CASE k = l
    <3>1. head[l] # NULL /\ w[head[l]] = l /\ v[head[l]] = l /\ b[head[l]] = a[head[l]]
      BY <1>3, <1>4, <1>6, <1>7 DEF Heads, NULL, Node
    <3>2. ASSUME NEW n \in Node, v[n] = l PROVE b[head[l]] <= b[n]
      <4>1. CASE n = d
        <5>1. a[head[l]] <= a[e] /\ a[head[l]] \in Int /\ a[e] \in Int
          BY <1>3, <1>4, <1>7, <3>1
        <5> QED
          BY <1>6, <3>1, <4>1, <5>1
      <4>2. CASE n # d
        BY <1>3, <1>4, <1>6, <3>1, <3>2, <4>2 DEF Heads
      <4> QED
        BY <4>1, <4>2
    <3> QED
      BY <2>2, <3>1, <3>2
  <2> QED
    BY <2>1, <2>2
<1>9. Links(v, b)'
  <2> SUFFICES ASSUME NEW n \in Node, v[n] \in List
               PROVE  /\ next'[n] = NULL => \A m \in Node : v[m] = v[n] => b[m] <= b[n]
                      /\ next'[n] # NULL => v[next'[n]] = v[n] /\ b[next'[n]] = b[n] + 1
                      /\ head[v[n]] # n => \E m \in Node : v[m] = v[n] /\ next'[m] = n
    BY <1>2 DEF Links
  <2>1. CASE n = d
    <3>1. next'[n] = NULL /\ v[n] = l /\ v[e] = l
      BY <1>3, <1>5, <1>6, <1>7, <2>1
    <3>2. ASSUME NEW m \in Node, v[m] = l PROVE b[m] <= b[d]
      <4>1. CASE m = d
        BY <1>3, <1>6, <4>1
      <4>2. CASE m # d
        <5>1. b[m] = a[m] /\ a[m] <= a[e] /\ a[m] \in Int /\ a[e] \in Int
          BY <1>3, <1>4, <1>6, <1>7, <3>2, <4>2
        <5> QED
          BY <1>6, <5>1
      <4> QED
        BY <4>1, <4>2
    <3> QED
      BY <1>3, <1>7, <2>1, <3>1, <3>2
  <2>2. CASE n = e
    <3>1. v[n] = l /\ b[n] = a[e] /\ next'[n] = d /\ w[n] = l
      BY <1>3, <1>5, <1>6, <1>7, <2>2
    <3>2. ASSUME head[l] # n PROVE \E m \in Node : v[m] = l /\ next'[m] = n
      <4>1. PICK m \in Node : w[m] = l /\ next[m] = n
        BY <1>3, <1>4, <3>1, <3>2 DEF Links
      <4>2. m # e /\ m # d
        BY <1>3, <1>5, <2>2, <4>1 DEF Node, NULL
      <4> QED
        BY <1>6, <1>7, <4>1, <4>2
    <3> QED
      BY <1>3, <1>6, <3>1, <3>2
  <2>3. CASE n # d /\ n # e
    <3>1. v[n] = w[n] /\ b[n] = a[n] /\ next'[n] = next[n]
      BY <1>6, <1>7, <2>3
    <3>2. ASSUME next[n] = NULL, NEW m \in Node, v[m] = v[n] PROVE b[m] <= b[n]
      <4>1. w[n] # l
        <5> SUFFICES ASSUME w[n] = l PROVE FALSE
          OBVIOUS
        <5>1. a[e] <= a[n] /\ a[n] <= a[e] /\ a[e] \in Int /\ a[n] \in Int
          BY <1>3, <1>4, <1>5, <1>7, <3>2 DEF Links
        <5> QED
          BY <1>3, <1>4, <1>5, <2>3, <5>1 DEF Apart
      <4>2. m # d /\ w[m] = w[n]
        BY <1>6, <3>1, <3>2, <4>1
      <4> QED
        BY <1>4, <1>6, <3>1, <3>2, <4>2 DEF Links
    <3>3. ASSUME next[n] # NULL PROVE v[next[n]] = v[n] /\ b[next[n]] = b[n] + 1
      <4>1. next[n] \in Node /\ w[next[n]] = w[n] /\ a[next[n]] = a[n] + 1
        BY <1>3, <1>4, <3>1, <3>3 DEF Links
      <4>2. next[n] # d
        BY <1>3, <1>5, <3>1, <4>1
      <4> QED
        BY <1>6, <3>1, <4>1, <4>2
    <3>4. ASSUME head[v[n]] # n PROVE \E m \in Node : v[m] = v[n] /\ next'[m] = n
      <4>1. PICK m \in Node : w[m] = w[n] /\ next[m] = n
        BY <1>4, <3>1, <3>4 DEF Links
      <4>2. m # e /\ m # d
        BY <1>3, <1>5, <3>1, <4>1 DEF Node, NULL
      <4> QED
        BY <1>6, <1>7, <3>1, <4>1, <4>2
    <3> QED
      BY <3>1, <3>2, <3>3, <3>4
  <2> QED
    BY <2>1, <2>2, <2>3
<1>10. Apart(v, b)'
  <2> SUFFICES ASSUME NEW m \in Node, NEW n \in Node, v[m] = v[n], v[n] \in List, b[m] = b[n]
               PROVE  m = n
    BY DEF Apart
  <2>1. ASSUME NEW k \in Node, k # d, v[k] = l PROVE b[k] # b[d]
    <3>1. b[k] = a[k] /\ a[k] <= a[e] /\ a[k] \in Int /\ a[e] \in Int
      BY <1>3, <1>4, <1>6, <1>7, <2>1
    <3> QED
      BY <1>6, <3>1
  <2>2. CASE m # d /\ n # d
    BY <1>4, <1>6, <2>2 DEF Apart
  <2> QED
    BY <1>6, <2>1, <2>2
<1>11. Hand(v, t)'
  <2>1. \A n \in Node : w[n] = t <=> n = d
    BY <1>2, <1>4 DEF Hand, Holding
  <2>2. \A n \in Node : v[n] # t
    BY <1>3, <1>6, <2>1
  <2>3. next'[d] = NULL
    BY <1>3, <1>5, <1>7
  <2> QED
    BY <1>2, <1>5, <1>6, <2>2, <2>3 DEF Hand, Holding
<1>12. ASSUME NEW u \in Thread \ {t} PROVE Hand(v, u)'
  <2>1. /\ pc'[u] = pc[u] /\ list'[u] = list[u] /\ node'[u] = node[u] /\ cur'[u] = cur[u]
        /\ pc[u] \in {"idle", "got"} \/ list[u] # l
    BY <1>1, OtherHand
  <2>2. Hand(w, u) /\ list[u] \in List /\ u \notin List /\ u # t
    BY DEF Tidy, Pointers, List, Thread
  <2>3. /\ pc[u] \notin {"idle", "deqRead"} => node[u] \in Node
        /\ pc[u] \in {"enqWalk", "enqLink"} => cur[u] \in Node
    BY DEF Pointers
  <2>4. \A n \in Node : v[n] = u <=> w[n] = u
    BY <1>3, <1>5, <1>6, <2>2
  <2>5. \A n \in Node : list[u] # l /\ w[n] = list[u] => v[n] = list[u] /\ next'[n] = next[n]
    BY <1>3, <1>5, <1>6, <1>7, <2>2
  <2>6. \A n \in Node : w[n] = u => next'[n] = next[n]
    BY <1>3, <1>5, <1>7, <2>2
  <2>7. pc[u] \in Holding => w[node[u]] = u
    BY <2>2, <2>3 DEF Hand, Holding
  <2>8. pc[u] = "deqHead" => list[u] # l /\ w[node[u]] = list[u]
    BY <1>3, <1>4, <2>1, <2>2, <2>3 DEF Hand, Heads, NULL, Node
  <2>9. /\ pc[u] \in Holding \cup {"deqHead", "enqClear"} => next'[node[u]] = next[node[u]]
        /\ pc[u] \in {"enqWalk", "enqLink"} => next'[cur[u]] = next[cur[u]]
                                               /\ v[cur[u]] = list[u]
        /\ pc[u] = "enqClear" => v[node[u]] = list[u]
    BY <2>1, <2>2, <2>3, <2>5, <2>6, <2>7, <2>8 DEF Hand, Holding
  <2> QED
    BY <1>2, <2>1, <2>2, <2>4, <2>9 DEF Hand, Holding
<1>13. Tidy(v, b)'
  BY <1>6, <1>8, <1>9, <1>10, <1>11, <1>12 DEF Tidy
<1> QED
  BY <1>13

LEMMA ListStepKeepsTidy ==
    ASSUME Pointers, NEW w, NEW a, Tidy(w, a), ~Together, NEW t \in Thread, ListStep(t)
    PROVE  \E v, b : Tidy(v, b)'
<1>1. CASE DequeueRead(t) \/ DequeueNext(t) \/ EnqueueRead(t) \/ EnqueueWalk(t)
  <2>1. Tidy(w, a)'
    BY <1>1, ReadKeepsTidy
  <2> QED
    BY <2>1
<1>2. CASE DequeueHead(t)
  <2>1. PICK v : Tidy(v, a)'
    BY <1>2, DequeueHeadKeepsTidy
  <2> QED
    BY <2>1
<1>3. CASE DequeueClear(t) \/ EnqueueClear(t)
  <2>1. Tidy(w, a)'
    BY <1>3, ClearKeepsTidy
  <2> QED
    BY <2>1
<1>4. CASE EnqueueHead(t)
  <2>1. PICK v : Tidy(v, a)'
    BY <1>4, EnqueueHeadKeepsTidy
  <2> QED
    BY <2>1
<1>5. CASE EnqueueLink(t)
  BY <1>5, EnqueueLinkKeepsTidy
<1> QED
  BY <1>1, <1>2, <1>3, <1>4, <1>5 DEF ListStep

(* A call begins, or goes on from one list to the other. *)
LEMMA CallKeepsTidy ==
    ASSUME Pointers, NEW w, NEW a, Tidy(w, a), NEW t \in Thread, NEW l \in List, NEW entry,
           UNCHANGED <<head, next, node, cur>>, Call(t, l, entry),
           \/ pc[t] = "idle" /\ entry = "deqRead"
           \/ pc[t] = "got" /\ entry = "enqRead"
    PROVE  Tidy(w, a)'
<1>1. pc'[t] = entry /\ \A u \in Thread \ {t} : pc'[u] = pc[u] /\ list'[u] = list[u]
  BY DEF Call, Goto, Pointers
<1>2. (Heads(w, a) /\ Links(w, a) /\ Apart(w, a))'
  BY DEF Tidy, Heads, Links, Apart
<1>3. ASSUME NEW u \in Thread \ {t} PROVE Hand(w, u)'
  BY <1>1 DEF Tidy, Hand
<1>4. Hand(w, t)'
  BY <1>1 DEF Tidy, Hand, Holding
<1> QED
  BY <1>2, <1>3, <1>4 DEF Tidy

(* Init puts all nodes on valid_quene, in their order. *)
LEMMA FilledIsTidy ==
    ASSUME IInv, step = "args", NEW given, FillLists(given), head["empty"] = NULL
    PROVE  \E w, a : Tidy(w, a)'
<1>0. PICK w, a : w = [n \in Node |-> "valid"] /\ a = [n \in Node |-> n]
  OBVIOUS
<1>1. DEMO_INPUT_BUFFER_NUM \in Nat \ {0} /\ NULL \notin Node /\ 1 \in Node
  BY BufferNumAssumption DEF Node, NULL
<1>2. /\ w \in [Node -> List \cup Thread] /\ a \in [Node -> Int]
      /\ \A n \in Node : w[n] = "valid" /\ a[n] = n
  BY <1>0 DEF Node, List
<1>3. /\ head'["valid"] = 1 /\ head'["empty"] = NULL
      /\ \A n \in Node : next'[n] = IF n < DEMO_INPUT_BUFFER_NUM THEN n + 1 ELSE NULL
      /\ pc' = pc
  BY DEF FillLists, IInv, ListInv, Pointers, List
<1>4. \A t \in Thread : pc'[t] = "idle"
  BY <1>3 DEF IInv, Life, Thread
<1>5. Heads(w, a)'
  BY <1>1, <1>2, <1>3 DEF Heads, List, Node
<1>6. Links(w, a)'
  <2> SUFFICES ASSUME NEW n \in Node
               PROVE  /\ next'[n] = NULL => \A m \in Node : w[m] = w[n] => a[m] <= a[n]
                      /\ next'[n] # NULL => w[next'[n]] = w[n] /\ a[next'[n]] = a[n] + 1
                      /\ head'[w[n]] # n => \E m \in Node : w[m] = w[n] /\ next'[m] = n
    BY DEF Links
  <2>1. ASSUME n # 1 PROVE \E m \in Node : w[m] = w[n] /\ next'[m] = n
    <3>1. n - 1 \in Node /\ n - 1 < DEMO_INPUT_BUFFER_NUM /\ (n - 1) + 1 = n
      BY <1>1, <2>1 DEF Node
    <3> QED
      BY <1>2, <1>3, <3>1
  <2>2. head'[w[n]] = 1
    BY <1>2, <1>3
  <2>3. CASE n < DEMO_INPUT_BUFFER_NUM
    <3>1. next'[n] = n + 1 /\ n + 1 \in Node /\ n + 1 # NULL
      BY <1>1, <1>3, <2>3 DEF Node, NULL
    <3>2. w[n + 1] = w[n] /\ a[n + 1] = a[n] + 1
      BY <1>2, <3>1
    <3>3. head'[w[n]] # n => \E m \in Node : w[m] = w[n] /\ next'[m] = n
      BY <2>1, <2>2
    <3> QED
      BY <3>1, <3>2, <3>3
  <2>4. CASE ~(n < DEMO_INPUT_BUFFER_NUM)
    <3>1. next'[n] = NULL /\ \A m \in Node : m <= n
      BY <1>1, <1>3, <2>4 DEF Node
    <3>2. \A m \in Node : a[m] <= a[n]
      BY <1>2, <3>1
    <3>3. head'[w[n]] # n => \E m \in Node : w[m] = w[n] /\ next'[m] = n
      BY <2>1, <2>2
    <3> QED
      BY <3>1, <3>2, <3>3
  <2> QED
    BY <2>3, <2>4
<1>7. Apart(w, a)'
  BY <1>2 DEF Apart
<1>8. \A t \in Thread : Hand(w, t)'
  BY <1>2, <1>4 DEF Hand, Holding, Thread
<1> QED
  BY <1>2, <1>5, <1>6, <1>7, <1>8 DEF Tidy

LEMMA NextTidyInv == IInv /\ PlanesInv /\ TidyInv /\ [Next]_vars => TidyInv'
<1> SUFFICES ASSUME IInv, PlanesInv, TidyInv, [Next]_vars
             PROVE  TidyInv'
  OBVIOUS
<1>0. (Together => raced)'
  <2>1. CASE UNCHANGED vars
    BY <2>1 DEF TidyInv, Together, vars, listVars
  <2>2. CASE Next
    BY <2>2 DEF Next
  <2> QED
    BY <2>1, <2>2
<1> SUFFICES ASSUME nRet' = 0, step' # "args", ~raced'
             PROVE  (\E w, a : Tidy(w, a))'
  BY <1>0 DEF TidyInv
<1>1. Pointers
  BY DEF IInv, ListInv
<1>2. CASE InitDone
  <2>1. step = "args" /\ head["empty"] = NULL /\ \E given : FillLists(given)
    BY <1>2 DEF InitDone, PlanesInv, List
  <2> QED
    BY <2>1, FilledIsTidy
<1>3. CASE ~InitDone
  <2>1. nRet = 0 /\ step # "args" /\ ~raced
    <3>1. ~raced
      BY DEF Next, vars
    <3>2. UNCHANGED <<nRet, step>> => nRet = 0 /\ step # "args"
      OBVIOUS
    <3>3. CASE EncStep \/ VencStep \/ UpdateMbModeInfo \/ UNCHANGED vars
      BY <3>1, <3>2, <3>3 DEF vars, lifeVars, EncStep, FeedFrame, CopyFrame, CopyToNowhere,
         FetchFrame, MoveNode, VencStep, EncodedFrame, BufferDone, BufferDoneCopy,
         UpdateMbModeInfo
    <3>4. CASE MainStep
      BY <1>3, <3>1, <3>4 DEF lifeVars, MainStep, InitNoContext, InitNoMemops, GetSpsPps,
         RunEnds, UninitDestroy, UninitMemClose, UninitContext
    <3> QED
      BY <3>3, <3>4 DEF Next
  <2>2. PICK w, a : Tidy(w, a)
    BY <2>1 DEF TidyInv
  <2>3. ASSUME UNCHANGED <<head, next, pc, list, node, cur>> PROVE Tidy(w, a)'
    BY <2>2, <2>3 DEF Tidy, Heads, Links, Apart, Hand
  <2>4. ASSUME NEW t \in Thread, MoveNode(t), Next PROVE (\E v, b : Tidy(v, b))'
    <3>1. ListStep(t) /\ ~Together
      BY <2>1, <2>4 DEF MoveNode, TidyInv
    <3> QED
      BY <1>1, <2>2, <3>1, ListStepKeepsTidy
  <2>5. ASSUME NEW t \in Thread, NEW l \in List, NEW entry,
               UNCHANGED <<head, next, node, cur>>, Call(t, l, entry),
               \/ pc[t] = "idle" /\ entry = "deqRead"
               \/ pc[t] = "got" /\ entry = "enqRead"
        PROVE  Tidy(w, a)'
    BY <1>1, <2>2, <2>5, CallKeepsTidy
  <2>6. CASE FeedFrame
    <3>1. Tidy(w, a)'
      BY <2>5, <2>6 DEF FeedFrame, YuvIn, memory, Thread, List
    <3> QED
      BY <3>1
  <2>7. CASE CopyFrame
    <3>1. Tidy(w, a)'
      BY <2>5, <2>7 DEF CopyFrame, YuvInQueue, memory, Thread, List
    <3> QED
      BY <3>1
  <2>8. CASE BufferDone
    <3>1. Tidy(w, a)'
      BY <2>5, <2>8 DEF BufferDone, InputBufferDone, memory, Thread, List
    <3> QED
      BY <3>1
  <2>9. CASE BufferDoneCopy
    <3>1. Tidy(w, a)'
      BY <2>5, <2>9 DEF BufferDoneCopy, InputBufferDoneCopy, Thread, List
    <3> QED
      BY <3>1
  <2>10. CASE FetchFrame \/ EncodedFrame
    <3>1. Tidy(w, a)'
      BY <2>3, <2>10 DEF FetchFrame, Out, EncodedFrame, VencOutput, memory
    <3> QED
      BY <3>1
  <2>11. CASE \/ CopyToNowhere \/ UpdateMbModeInfo \/ UNCHANGED vars
              \/ InitNoContext \/ InitNoMemops \/ GetSpsPps
              \/ RunEnds \/ UninitDestroy \/ UninitMemClose \/ UninitContext
    <3>1. UNCHANGED listVars
      BY <2>11 DEF CopyToNowhere, UpdateMbModeInfo, vars, InitNoContext, InitNoMemops, GetSpsPps,
         RunEnds, UninitDestroy, UninitMemClose, UninitContext
    <3>2. Tidy(w, a)'
      BY <2>3, <3>1 DEF listVars
    <3> QED
      BY <3>2
  <2> QED
    BY <1>3, <2>4, <2>6, <2>7, <2>8, <2>9, <2>10, <2>11
       DEF Next, EncStep, VencStep, MainStep, Thread
<1> QED
  BY <1>2, <1>3

-----------------------------------------------------------------------------
(* What OnList collects step by step is there, for as many steps as one likes. *)
After(g, l, K) ==
    /\ g = [k \in 0 .. K |-> g[k]] /\ g[0] = {head[l]}
    /\ \A k \in 1 .. K : g[k] = g[k - 1] \cup {next[m] : m \in g[k - 1] \ {NULL}}

LEMMA StepsDefined ==
    ASSUME NEW N \in Nat, NEW l
    PROVE  \E g : After(g, l, N)
<1> DEFINE T == {K \in 0 .. N : ~\E g : After(g, l, K)}
<1> SUFFICES ASSUME T # {} PROVE FALSE
  OBVIOUS
<1>1. T \in SUBSET Nat
  OBVIOUS
<1>2. PICK K \in T : \A j \in T : K <= j
  BY <1>1, LeastElement
<1>3. K \in 0 .. N /\ ~\E g : After(g, l, K)
  OBVIOUS
<1> HIDE DEF T
<1>4. CASE K = 0
  <2>1. PICK g : g = [k \in 0 .. 0 |-> {head[l]}]
    OBVIOUS
  <2>2. After(g, l, 0)
    BY <2>1 DEF After
  <2> QED
    BY <1>3, <1>4, <2>2
<1>5. CASE K # 0
  <2>1. K \in Nat \ {0} /\ K - 1 \in 0 .. N /\ ~(K <= K - 1)
    BY <1>3, <1>5
  <2>2. K - 1 \notin T
    BY <1>2, <2>1
  <2>3. PICK e : After(e, l, K - 1)
    BY <2>1, <2>2 DEF T
  <2>4. PICK g : g = [k \in 0 .. K |-> IF k < K THEN e[k]
                         ELSE e[K - 1] \cup {next[m] : m \in e[K - 1] \ {NULL}}]
    OBVIOUS
  <2>5. /\ \A k \in 0 .. K - 1 : g[k] = e[k]
        /\ g[K] = e[K - 1] \cup {next[m] : m \in e[K - 1] \ {NULL}}
    BY <2>1, <2>4
  <2>6. g = [k \in 0 .. K |-> g[k]]
    BY <2>4
  <2>7. g[0] = {head[l]}
    BY <2>1, <2>3, <2>5 DEF After
  <2>8. ASSUME NEW k \in 1 .. K
        PROVE  g[k] = g[k - 1] \cup {next[m] : m \in g[k - 1] \ {NULL}}
    <3>1. CASE k < K
      <4>1. k \in 1 .. K - 1 /\ k \in 0 .. K - 1 /\ k - 1 \in 0 .. K - 1
        BY <2>1, <3>1
      <4>2. e[k] = e[k - 1] \cup {next[m] : m \in e[k - 1] \ {NULL}}
        BY <2>3, <4>1 DEF After
      <4> QED
        BY <2>5, <4>1, <4>2
    <3>2. CASE k = K
      <4>1. K - 1 \in 0 .. K - 1
        BY <2>1
      <4> QED
        BY <2>5, <3>2, <4>1
    <3> QED
      BY <2>1, <3>1, <3>2
  <2>9. After(g, l, K)
    BY <2>6, <2>7, <2>8 DEF After
  <2> QED
    BY <1>3, <2>9
<1> QED
  BY <1>4, <1>5

LEMMA OnListSteps ==
    ASSUME NEW l
    PROVE  \E g : After(g, l, DEMO_INPUT_BUFFER_NUM) /\ OnList(l) = g[DEMO_INPUT_BUFFER_NUM] \ {NULL}
<1> DEFINE N == DEMO_INPUT_BUFFER_NUM
           f == CHOOSE f : f = [k \in 0 .. N |-> IF k = 0 THEN {head[l]}
                     ELSE f[k - 1] \cup {next[m] : m \in f[k - 1] \ {NULL}}]
<1>1. N \in Nat
  BY BufferNumAssumption
<1>2. OnList(l) = f[N] \ {NULL}
  BY DEF OnList
<1>3. After(f, l, N)
  <2>1. \E g : g = [k \in 0 .. N |-> IF k = 0 THEN {head[l]}
                     ELSE g[k - 1] \cup {next[m] : m \in g[k - 1] \ {NULL}}]
    <3> HIDE DEF N
    <3>2. PICK g : After(g, l, N)
      BY <1>1, StepsDefined
    <3>3. ASSUME NEW k \in 0 .. N
          PROVE  g[k] = IF k = 0 THEN {head[l]}
                        ELSE g[k - 1] \cup {next[m] : m \in g[k - 1] \ {NULL}}
      <4>1. CASE k = 0
        BY <3>2, <4>1 DEF After
      <4>2. CASE k # 0
        <5>1. k \in 1 .. N
          BY <1>1, <4>2
        <5> QED
          BY <3>2, <4>2, <5>1 DEF After
      <4> QED
        BY <4>1, <4>2
    <3>4. g = [k \in 0 .. N |-> IF k = 0 THEN {head[l]}
                     ELSE g[k - 1] \cup {next[m] : m \in g[k - 1] \ {NULL}}]
      BY <3>2, <3>3 DEF After
    <3> QED
      BY <3>4
  <2>2. f = [k \in 0 .. N |-> IF k = 0 THEN {head[l]}
                     ELSE f[k - 1] \cup {next[m] : m \in f[k - 1] \ {NULL}}]
    BY <2>1, Zenon DEF f
  <2> HIDE DEF f, N
  <2>3. 0 \in 0 .. N /\ \A k \in 1 .. N : k \in 0 .. N /\ k # 0
    BY <1>1
  <2>4. \A k \in 0 .. N : f[k] = IF k = 0 THEN {head[l]}
                     ELSE f[k - 1] \cup {next[m] : m \in f[k - 1] \ {NULL}}
    BY <2>2, Zenon
  <2>5. f = [k \in 0 .. N |-> f[k]]
    BY <2>2
  <2> QED
    BY <2>3, <2>4, <2>5 DEF After
<1> QED
  BY <1>2, <1>3

(* From the head of a list its nodes are reached one after the other, in no more
   steps than there are nodes. *)
LEMMA Reached ==
    ASSUME Pointers, NEW w, NEW a, Tidy(w, a), NEW l \in List, NEW n \in Node, w[n] = l
    PROVE  n \in OnList(l)
<1> DEFINE N == DEMO_INPUT_BUFFER_NUM
           h == head[l]
<1>1. N \in Nat \ {0} /\ Node = 1 .. N /\ NULL \notin Node
  BY BufferNumAssumption DEF Node, NULL
<1>2. /\ w \in [Node -> List \cup Thread] /\ a \in [Node -> Int]
      /\ h \in Node /\ w[h] = l /\ \A m \in Node : w[m] = l => a[h] <= a[m]
      /\ Links(w, a) /\ Apart(w, a)
  BY DEF Tidy, Heads, Pointers
<1>3. PICK f : After(f, l, N) /\ OnList(l) = f[N] \ {NULL}
  BY OnListSteps
<1>4. /\ f[0] = {h}
      /\ \A k \in 1 .. N : f[k] = f[k - 1] \cup {next[m] : m \in f[k - 1] \ {NULL}}
  BY <1>3 DEF After
<1> DEFINE d == a[n] - a[h]
<1>5. d \in Nat
  BY <1>2
<1> HIDE DEF d
(* Each place before that of n has its node. *)
<1>6. \A i \in 0 .. d : \E m \in Node : w[m] = l /\ a[m] = a[n] - i
  <2> DEFINE T == {i \in 0 .. d : ~\E m \in Node : w[m] = l /\ a[m] = a[n] - i}
  <2> SUFFICES ASSUME T # {} PROVE FALSE
    OBVIOUS
  <2>1. T \in SUBSET Nat
    BY <1>5
  <2>2. PICK i \in T : \A j \in T : i <= j
    BY <2>1, LeastElement
  <2>3. i \in 0 .. d /\ ~\E m \in Node : w[m] = l /\ a[m] = a[n] - i
    OBVIOUS
  <2>4. i # 0
    <3>1. a[n] \in Int /\ a[n] - 0 = a[n]
      BY <1>2
    <3> QED
      BY <2>3, <3>1
  <2>5. i - 1 \in 0 .. d /\ ~(i <= i - 1)
    BY <1>5, <2>3, <2>4
  <2>6. PICK m \in Node : w[m] = l /\ a[m] = a[n] - (i - 1)
    BY <2>2, <2>5
  <2>7. m # h
    BY <1>2, <1>5, <2>3, <2>5, <2>6 DEF d
  <2>8. PICK p \in Node : w[p] = l /\ next[p] = m
    BY <1>2, <2>6, <2>7 DEF Links
  <2>9. a[m] = a[p] + 1
    BY <1>1, <1>2, <2>8, ZenonT(60) DEF Links
  <2>10. a[p] = a[n] - i
    BY <1>2, <2>3, <2>6, <2>8, <2>9
  <2> QED
    BY <2>3, <2>8, <2>10
<1>7. d <= N
  <2> SUFFICES ASSUME d > N PROVE FALSE
    BY <1>1, <1>5
  <2>1. PICK g \in [0 .. d -> Node] : \A i \in 0 .. d : a[g[i]] = a[n] - i
    <3>1. [i \in 0 .. d |-> CHOOSE m \in Node : w[m] = l /\ a[m] = a[n] - i] \in [0 .. d -> Node]
      BY <1>6
    <3> QED
      BY <1>6, <3>1
  <2>2. IsFiniteSet(0 .. d) /\ Cardinality(0 .. d) = d + 1
    BY <1>5, FS_Interval
  <2>3. IsFiniteSet(Node) /\ Cardinality(Node) = N
    BY <1>1, FS_Interval
  <2>4. PICK i, j \in 0 .. d : i # j /\ g[i] = g[j]
    <3>1. Cardinality(Node) < Cardinality(0 .. d)
      BY <1>1, <1>5, <2>2, <2>3
    <3> QED
      BY <2>2, <2>3, <3>1, FS_PigeonHole
  <2>5. a[n] - i = a[n] - j /\ a[n] \in Int
    BY <1>2, <2>1, <2>4
  <2> QED
    BY <1>5, <2>4, <2>5
(* The node at place k is reached after k steps. *)
<1>8. \A k \in 0 .. N : \A m \in Node : w[m] = l /\ a[m] = a[h] + k => m \in f[k]
  <2> DEFINE T == {k \in 0 .. N : ~\A m \in Node : w[m] = l /\ a[m] = a[h] + k => m \in f[k]}
  <2> SUFFICES ASSUME T # {} PROVE FALSE
    OBVIOUS
  <2>1. T \in SUBSET Nat
    BY <1>1
  <2>2. PICK k \in T : \A j \in T : k <= j
    BY <2>1, LeastElement
  <2>3. k \in 0 .. N
    OBVIOUS
  <2>4. PICK m \in Node : w[m] = l /\ a[m] = a[h] + k /\ m \notin f[k]
    BY <2>2
  <2>5. k # 0
    <3> SUFFICES ASSUME k = 0 PROVE FALSE
      OBVIOUS
    <3>1. a[m] = a[h]
      BY <1>2, <2>4
    <3>2. m = h
      BY <1>2, <2>4, <3>1 DEF Apart
    <3> QED
      BY <1>4, <2>4, <3>2
  <2>6. k - 1 \in 0 .. N /\ k \in 1 .. N /\ ~(k <= k - 1)
    BY <1>1, <2>3, <2>5
  <2>7. m # h
    BY <1>2, <2>4, <2>5, <2>6
  <2>8. PICK p \in Node : w[p] = l /\ next[p] = m
    BY <1>2, <2>4, <2>7 DEF Links
  <2>9. a[m] = a[p] + 1
    BY <1>1, <1>2, <2>8, ZenonT(60) DEF Links
  <2>10. a[p] = a[h] + (k - 1)
    <3>1. a[p] \in Int /\ a[h] \in Int /\ k \in Int
      BY <1>2, <2>3, <2>8
    <3> QED
      BY <2>4, <2>9, <3>1
  <2>11. p \in f[k - 1]
    BY <2>2, <2>6, <2>8, <2>10
  <2>12. m \in f[k]
    BY <1>1, <1>4, <2>6, <2>8, <2>11
  <2> QED
    BY <2>4, <2>12
<1>9. \A k \in 0 .. N : k >= d => n \in f[k]
  <2> DEFINE T == {k \in 0 .. N : k >= d /\ n \notin f[k]}
  <2> SUFFICES ASSUME T # {} PROVE FALSE
    OBVIOUS
  <2>1. T \in SUBSET Nat
    BY <1>1
  <2>2. PICK k \in T : \A j \in T : k <= j
    BY <2>1, LeastElement
  <2>3. k \in 0 .. N /\ k >= d /\ n \notin f[k]
    OBVIOUS
  <2>4. k # d
    <3>1. a[n] = a[h] + d
      BY <1>2 DEF d
    <3> QED
      BY <1>8, <2>3, <3>1
  <2>5. k \in 1 .. N /\ k - 1 \in 0 .. N /\ k - 1 >= d /\ ~(k <= k - 1)
    BY <1>1, <1>5, <2>3, <2>4
  <2>6. n \in f[k - 1]
    BY <2>2, <2>5
  <2> QED
    BY <1>4, <2>3, <2>5, <2>6
<1>10. n \in f[N]
  BY <1>1, <1>5, <1>7, <1>9
<1> QED
  BY <1>1, <1>3, <1>10

(* What is reached is the head or what some node reached before leads to. *)
LEMMA ReachedIsPointedTo ==
    ASSUME Pointers, NEW l \in List, NEW f, After(f, l, DEMO_INPUT_BUFFER_NUM),
           NEW k \in 0 .. DEMO_INPUT_BUFFER_NUM, NEW x \in f[k] \ {NULL}
    PROVE  /\ x \in Node
           /\ x = head[l] \/ (k > 0 /\ \E m \in f[k - 1] \ {NULL} : m \in Node /\ next[m] = x)
<1> DEFINE N == DEMO_INPUT_BUFFER_NUM
           Good(i) == \A y \in f[i] \ {NULL} :
                         /\ y \in Node
                         /\ y = head[l] \/ (i > 0 /\ \E m \in f[i - 1] \ {NULL} : m \in Node /\ next[m] = y)
           T == {i \in 0 .. N : ~Good(i)}
<1>1. /\ N \in Nat /\ head[l] \in Node \cup {NULL} /\ \A n \in Node : next[n] \in Node \cup {NULL}
  BY BufferNumAssumption DEF Pointers
<1>2. /\ f[0] = {head[l]}
      /\ \A i \in 1 .. N : f[i] = f[i - 1] \cup {next[m] : m \in f[i - 1] \ {NULL}}
  BY DEF After
<1>3. T = {}
  <2> SUFFICES ASSUME T # {} PROVE FALSE
    OBVIOUS
  <2> HIDE DEF Good
  <2>1. T \in SUBSET Nat
    BY <1>1
  <2>2. PICK i \in T : \A j \in T : i <= j
    BY <2>1, LeastElement
  <2>3. i \in 0 .. N /\ ~Good(i)
    OBVIOUS
  <2>4. i # 0
    <3>1. Good(0)
      <4>1. ASSUME NEW y \in f[0] \ {NULL} PROVE y \in Node /\ y = head[l]
        BY <1>1, <1>2
      <4> QED
        BY <4>1, Zenon DEF Good
    <3> QED
      BY <2>3, <3>1
  <2>5. i \in 1 .. N /\ i - 1 \in 0 .. N /\ ~(i <= i - 1)
    BY <1>1, <2>3, <2>4
  <2>6. Good(i - 1)
    BY <2>2, <2>5
  <2>7. ASSUME NEW y \in f[i] \ {NULL}
        PROVE  /\ y \in Node
               /\ y = head[l] \/ \E m \in f[i - 1] \ {NULL} : m \in Node /\ next[m] = y
    <3>1. CASE y \in f[i - 1]
      <4>1. y \in Node /\ (y = head[l] \/ (i - 1 > 0 /\ \E m \in f[(i - 1) - 1] \ {NULL} : m \in Node /\ next[m] = y))
        BY <2>6, <3>1 DEF Good
      <4>2. ASSUME i - 1 > 0 PROVE f[(i - 1) - 1] \subseteq f[i - 1]
        <5>1. i - 1 \in 1 .. N
          BY <2>5, <4>2
        <5> QED
          BY <1>2, <5>1
      <4> QED
        BY <4>1, <4>2
    <3>2. CASE y \notin f[i - 1]
      <4>1. PICK m \in f[i - 1] \ {NULL} : next[m] = y
        BY <1>2, <2>5, <3>2
      <4>2. m \in Node
        BY <2>6, <4>1 DEF Good
      <4> QED
        BY <1>1, <4>1, <4>2
    <3> QED
      BY <3>1, <3>2
  <2>8. Good(i)
    <3>1. i > 0
      BY <2>5
    <3> QED
      BY <2>7, <3>1, Zenon DEF Good
  <2> QED
    BY <2>3, <2>8
<1>4. Good(k)
  <2> HIDE DEF Good
  <2> QED
    BY <1>3
<1> QED
  BY <1>4

LEMMA OnListIsNodes ==
    ASSUME Pointers, NEW l \in List
    PROVE  OnList(l) \subseteq Node
<1>1. DEMO_INPUT_BUFFER_NUM \in 0 .. DEMO_INPUT_BUFFER_NUM
  BY BufferNumAssumption
<1>2. PICK f : /\ After(f, l, DEMO_INPUT_BUFFER_NUM)
               /\ OnList(l) = f[DEMO_INPUT_BUFFER_NUM] \ {NULL}
  BY OnListSteps
<1> QED
  BY <1>1, <1>2, ReachedIsPointedTo

LEMMA InitTidyInv == Init => TidyInv
  BY DEF Init, ListsEmpty, TidyInv, Together, Thread

(* As long as the two threads have never been inside one list together, every
   node is on a list or in a hand: for any number of buffers, a camera that stops
   for want of one has met that race (H264Encoder.cpp:1587-1627). *)
THEOREM NodesNeverLostWithoutRace == Spec => []NodesKeptWithoutRace
<1>1. Spec => []PlanesInv
  BY Invariance, InitPlanesInv, NextPlanesInv, PTL DEF Spec
<1>2. Spec => []TidyInv
  BY <1>1, Invariance, InitTidyInv, NextTidyInv, PTL DEF Spec
<1>3. ASSUME IInv, TidyInv PROVE NodesKeptWithoutRace
  <2> SUFFICES ASSUME nRet = 0, step # "args", ~raced
               PROVE  OnList("valid") \cup OnList("empty")
                         \cup UNION {InHand(t) : t \in Thread} = Node
    BY DEF NodesKeptWithoutRace
  <2>1. Pointers
    BY <1>3 DEF IInv, ListInv
  <2>2. PICK w, a : Tidy(w, a)
    BY <1>3 DEF TidyInv
  <2>3. ASSUME NEW n \in Node
        PROVE  n \in OnList("valid") \cup OnList("empty") \cup UNION {InHand(t) : t \in Thread}
    <3>1. w[n] \in List \cup Thread
      BY <2>2 DEF Tidy
    <3>2. ASSUME NEW l \in List, w[n] = l PROVE n \in OnList(l)
      BY <2>1, <2>2, <3>2, Reached
    <3>3. ASSUME NEW t \in Thread, w[n] = t PROVE n \in InHand(t)
      BY <2>2, <3>3 DEF Tidy, Hand, Holding, InHand
    <3> QED
      BY <3>1, <3>2, <3>3 DEF List
  <2>4. OnList("valid") \subseteq Node /\ OnList("empty") \subseteq Node
    BY <2>1, OnListIsNodes DEF List
  <2>5. ASSUME NEW t \in Thread PROVE InHand(t) \subseteq Node
    BY <2>1 DEF Pointers, InHand
  <2> QED
    BY <2>3, <2>4, <2>5
<1> QED
  BY <1>2, <1>3, Invariance, PTL

-----------------------------------------------------------------------------
(* The lists in races too. What is never broken is that each node has at most one
   pointer to it, but for the ones a dequeue is about to replace. *)
Dequeueing == {"deqRead", "deqNext", "deqHead", "deqClear"}
Source(t) == IF t = "enc" THEN "valid" ELSE "empty"
Target(t) == IF t = "enc" THEN "empty" ELSE "valid"

(* Each list has one thread that takes from it and one that adds to it, so that
   neither finds the head changed under it. *)
Roles ==
    \A t \in Thread :
        /\ pc[t] \in Dequeueing => list[t] = Source(t)
        /\ pc[t] \in Enqueueing => list[t] = Target(t)
        /\ pc[t] \in {"deqNext", "deqHead"} => head[list[t]] = node[t]
        /\ pc[t] = "enqHead" => head[list[t]] = NULL

LinksOnce ==
    /\ \A m, n \in Node : m # n /\ next[m] # NULL => next[m] # next[n]
    /\ head["valid"] # NULL => head["valid"] # head["empty"]
    /\ \A l \in List, m \in Node : next[m] # NULL /\ next[m] = head[l] =>
          \E t \in Thread : pc[t] = "deqClear" /\ node[t] = m /\ list[t] = l

(* What a dequeue will make the head. *)
SuccessorOnce ==
    \A t \in Thread : pc[t] = "deqHead" /\ cur[t] # NULL =>
        /\ \A l \in List : head[l] # cur[t]
        /\ \A m \in Node : next[m] = cur[t] => m = node[t]
        /\ \A u \in Thread \ {t} : pc[u] = "deqHead" => cur[u] # cur[t]

(* Nothing points to a node that is held. *)
HeldAlone ==
    \A t \in Thread : pc[t] \in Holding =>
        /\ \A l \in List : head[l] # node[t]
        /\ \A m \in Node : next[m] # node[t]
        /\ \A u \in Thread : pc[u] = "deqHead" => cur[u] # node[t]
        /\ \A u \in Thread \ {t} : pc[u] \in Holding => node[u] # node[t]

HeldInv == Roles /\ LinksOnce /\ SuccessorOnce /\ HeldAlone

LEMMA InitHeldInv == Init => HeldInv
  BY DEF Init, ListsEmpty, HeldInv, Roles, LinksOnce, SuccessorOnce, HeldAlone, Dequeueing,
     Enqueueing, Holding, List, Thread

(* Steps that write neither a head nor a link. *)
LEMMA ReadKeepsHeld ==
    ASSUME Pointers, HeldInv, NEW t \in Thread,
           DequeueRead(t) \/ DequeueNext(t) \/ EnqueueRead(t) \/ EnqueueWalk(t)
    PROVE  HeldInv'
<1>1. CASE DequeueRead(t)
  <2>1. /\ pc[t] = "deqRead" /\ UNCHANGED <<head, next, list, cur>>
        /\ pc'[t] \in {"idle", "deqNext"} /\ node'[t] = head[list[t]]
        /\ \A u \in Thread \ {t} : pc'[u] = pc[u] /\ node'[u] = node[u]
    BY <1>1 DEF DequeueRead, Goto, memory, Pointers
  <2>2. Roles' /\ LinksOnce'
    BY <2>1 DEF HeldInv, Roles, LinksOnce, Dequeueing, Enqueueing
  <2>3. SuccessorOnce' /\ HeldAlone'
    BY <2>1 DEF HeldInv, SuccessorOnce, HeldAlone, Holding
  <2> QED
    BY <2>2, <2>3 DEF HeldInv
<1>2. CASE DequeueNext(t)
  <2>1. /\ pc[t] = "deqNext" /\ UNCHANGED <<head, next, list, node>>
        /\ pc'[t] = "deqHead" /\ cur'[t] = next[node[t]]
        /\ \A u \in Thread \ {t} : pc'[u] = pc[u] /\ cur'[u] = cur[u]
        /\ node[t] \in Node /\ list[t] \in List /\ head[list[t]] = node[t]
    BY <1>2 DEF DequeueNext, Goto, memory, Pointers, HeldInv, Roles
  <2>2. Roles' /\ LinksOnce'
    BY <2>1 DEF HeldInv, Roles, LinksOnce, Dequeueing, Enqueueing
  <2>3. SuccessorOnce'
    <3>1. ASSUME next[node[t]] # NULL, NEW l \in List PROVE head[l] # next[node[t]]
      <4> SUFFICES ASSUME head[l] = next[node[t]] PROVE FALSE
        OBVIOUS
      <4>1. PICK u \in Thread : pc[u] = "deqClear" /\ node[u] = node[t]
        BY <2>1, <3>1 DEF HeldInv, LinksOnce
      <4> QED
        BY <2>1, <4>1 DEF HeldInv, HeldAlone, Holding
    <3>2. ASSUME next[node[t]] # NULL, NEW m \in Node, next[m] = next[node[t]] PROVE m = node[t]
      BY <2>1, <3>2 DEF HeldInv, LinksOnce
    <3>3. ASSUME next[node[t]] # NULL, NEW u \in Thread \ {t}, pc[u] = "deqHead", cur[u] = next[node[t]]
          PROVE  FALSE
      <4>1. node[t] = node[u] /\ head[list[u]] = node[u] /\ list[u] \in List /\ list[u] # list[t]
        BY <2>1, <3>3 DEF HeldInv, SuccessorOnce, Roles, Pointers, Dequeueing, Source, Thread
      <4> QED
        BY <2>1, <4>1 DEF HeldInv, LinksOnce, List, Node, NULL
    <3> QED
      BY <2>1, <3>1, <3>2, <3>3 DEF HeldInv, SuccessorOnce
  <2>4. HeldAlone'
    BY <2>1 DEF HeldInv, HeldAlone, Holding
  <2> QED
    BY <2>2, <2>3, <2>4 DEF HeldInv
<1>3. CASE EnqueueRead(t) \/ EnqueueWalk(t)
  <2>1. /\ UNCHANGED <<head, next, list, node>>
        /\ pc[t] \in {"enqRead", "enqWalk"} /\ pc'[t] \in {"enqHead", "enqWalk", "enqLink"}
        /\ pc'[t] = "enqHead" => head[list[t]] = NULL
        /\ \A u \in Thread \ {t} : pc'[u] = pc[u] /\ cur'[u] = cur[u]
    BY <1>3 DEF EnqueueRead, EnqueueWalk, Goto, memory, Pointers
  <2>2. Roles' /\ LinksOnce'
    BY <2>1 DEF HeldInv, Roles, LinksOnce, Dequeueing, Enqueueing
  <2>3. SuccessorOnce' /\ HeldAlone'
    BY <2>1 DEF HeldInv, SuccessorOnce, HeldAlone, Holding
  <2> QED
    BY <2>2, <2>3 DEF HeldInv
<1> QED
  BY <1>1, <1>2, <1>3

LEMMA DequeueHeadKeepsHeld ==
    ASSUME Pointers, HeldInv, NEW t \in Thread, DequeueHead(t)
    PROVE  HeldInv'
<1>1. /\ pc[t] = "deqHead" /\ pc'[t] = "deqClear" /\ UNCHANGED <<next, list, node, cur>>
      /\ head' = [head EXCEPT ![list[t]] = cur[t]]
      /\ \A u \in Thread \ {t} : pc'[u] = pc[u]
  BY DEF DequeueHead, Goto, Pointers
<1>2. /\ list[t] = Source(t) /\ list[t] \in List /\ node[t] \in Node /\ head[list[t]] = node[t]
      /\ \A l \in List : head'[l] = IF l = list[t] THEN cur[t] ELSE head[l]
      /\ NULL \notin Node
  BY <1>1 DEF HeldInv, Roles, Pointers, Dequeueing, Node, NULL
<1>3. Roles'
  <2>1. ASSUME NEW u \in Thread \ {t}, pc[u] \in {"deqNext", "deqHead"} PROVE list[u] # list[t]
    BY <1>1, <1>2, <2>1 DEF HeldInv, Roles, Dequeueing, Source, Thread
  <2>2. ASSUME NEW u \in Thread \ {t}, pc[u] = "enqHead" PROVE list[u] # list[t]
    BY <1>1, <1>2, <2>2 DEF HeldInv, Roles
  <2> QED
    BY <1>1, <1>2, <2>1, <2>2 DEF HeldInv, Roles, Dequeueing, Enqueueing, Pointers
<1>4. /\ cur[t] # NULL => /\ \A l \in List : head[l] # cur[t]
                          /\ \A m \in Node : next[m] = cur[t] => m = node[t]
                          /\ \A u \in Thread \ {t} : pc[u] = "deqHead" => cur[u] # cur[t]
  BY <1>1 DEF HeldInv, SuccessorOnce
<1>5. LinksOnce'
  <2>1. head'["valid"] # NULL => head'["valid"] # head'["empty"]
    BY <1>2, <1>4 DEF HeldInv, LinksOnce, List
  <2>2. ASSUME NEW l \in List, NEW m \in Node, next[m] # NULL, next[m] = head'[l]
        PROVE  \E u \in Thread : pc'[u] = "deqClear" /\ node[u] = m /\ list[u] = l
    <3>1. CASE l = list[t]
      BY <1>1, <1>2, <1>4, <2>2, <3>1
    <3>2. CASE l # list[t]
      <4>1. PICK u \in Thread : pc[u] = "deqClear" /\ node[u] = m /\ list[u] = l
        BY <1>2, <2>2, <3>2 DEF HeldInv, LinksOnce
      <4> QED
        BY <1>1, <4>1
    <3> QED
      BY <3>1, <3>2
  <2> QED
    BY <1>1, <2>1, <2>2 DEF HeldInv, LinksOnce
<1>6. SuccessorOnce'
  BY <1>1, <1>2, <1>4 DEF HeldInv, SuccessorOnce
<1>7. HeldAlone'
  <2>1. ASSUME NEW l \in List PROVE head'[l] # node[t]
    <3>1. l # list[t] => head[l] # head[list[t]]
      BY <1>2 DEF HeldInv, LinksOnce, List
    <3>2. cur[t] # node[t]
      BY <1>2, <1>4
    <3> QED
      BY <1>2, <3>1, <3>2
  <2>2. ASSUME NEW m \in Node, next[m] = node[t] PROVE FALSE
    <3>1. PICK u \in Thread : pc[u] = "deqClear" /\ node[u] = m /\ list[u] = list[t]
      BY <1>2, <2>2 DEF HeldInv, LinksOnce
    <3> QED
      BY <1>1, <1>2, <3>1 DEF HeldInv, Roles, Dequeueing, Source, Thread
  <2>3. ASSUME NEW u \in Thread, pc[u] = "deqHead" PROVE cur[u] # node[t]
    BY <1>2, <2>3 DEF HeldInv, SuccessorOnce
  <2>4. ASSUME NEW u \in Thread \ {t}, pc[u] \in Holding PROVE node[u] # node[t]
    BY <1>2, <2>4 DEF HeldInv, HeldAlone
  <2>5. ASSUME NEW u \in Thread \ {t}, pc[u] \in Holding
        PROVE  /\ \A l \in List : head'[l] # node[u]
               /\ \A m \in Node : next[m] # node[u]
               /\ \A v \in Thread : pc[v] = "deqHead" => cur[v] # node[u]
               /\ \A v \in Thread \ {u, t} : pc[v] \in Holding => node[v] # node[u]
    BY <1>1, <1>2, <2>5 DEF HeldInv, HeldAlone
  <2>6. \A u \in Thread : pc'[u] = "deqHead" => pc[u] = "deqHead"
    BY <1>1
  <2> QED
    BY <1>1, <2>1, <2>2, <2>3, <2>4, <2>5, <2>6 DEF HeldAlone
<1> QED
  BY <1>3, <1>5, <1>6, <1>7 DEF HeldInv

LEMMA ClearKeepsHeld ==
    ASSUME Pointers, HeldInv, NEW t \in Thread, DequeueClear(t) \/ EnqueueClear(t)
    PROVE  HeldInv'
<1>1. /\ UNCHANGED <<head, list, node, cur>> /\ next' = [next EXCEPT ![node[t]] = NULL]
      /\ \/ pc[t] = "deqClear" /\ pc'[t] = "got"
         \/ pc[t] = "enqClear" /\ pc'[t] = "idle"
      /\ \A u \in Thread \ {t} : pc'[u] = pc[u]
  BY DEF DequeueClear, EnqueueClear, Goto, Pointers
<1>2. /\ node[t] \in Node /\ NULL \notin Node
      /\ \A m \in Node : next'[m] = IF m = node[t] THEN NULL ELSE next[m]
      /\ \A u \in Thread : pc[u] \in Holding \cup {"deqHead"} => node[u] \in Node
  <2>1. node[t] \in Node /\ next \in [Node -> Node \cup {NULL}]
    BY <1>1 DEF Pointers
  <2>2. NULL \notin Node
    BY DEF Node, NULL
  <2>3. \A u \in Thread : pc[u] \in Holding \cup {"deqHead"} => node[u] \in Node
    BY DEF Pointers, Holding
  <2> QED
    BY <1>1, <2>1, <2>2, <2>3
<1>3. Roles'
  BY <1>1 DEF HeldInv, Roles, Dequeueing, Enqueueing
<1>4. LinksOnce'
  <2>1. ASSUME NEW l \in List, NEW m \in Node, next'[m] # NULL, next'[m] = head[l]
        PROVE  \E u \in Thread : pc'[u] = "deqClear" /\ node[u] = m /\ list[u] = l
    <3>1. next[m] = next'[m] /\ m # node[t]
      BY <1>2, <2>1
    <3>2. PICK u \in Thread : pc[u] = "deqClear" /\ node[u] = m /\ list[u] = l
      BY <2>1, <3>1 DEF HeldInv, LinksOnce
    <3> QED
      BY <1>1, <3>1, <3>2
  <2> QED
    BY <1>1, <1>2, <2>1 DEF HeldInv, LinksOnce
<1>5. SuccessorOnce'
  BY <1>1, <1>2 DEF HeldInv, SuccessorOnce
<1>6. HeldAlone'
  <2>1. \A u \in Thread : /\ pc'[u] \in Holding => pc[u] \in Holding
                          /\ pc'[u] = "deqHead" => pc[u] = "deqHead"
    BY <1>1 DEF Holding
  <2> QED
    BY <1>1, <1>2, <2>1 DEF HeldInv, HeldAlone
<1> QED
  BY <1>3, <1>4, <1>5, <1>6 DEF HeldInv

(* A held node is put somewhere: at the head of a list, or behind node c, which
   by now may be anywhere. *)
LEMMA EnqueueHeadKeepsHeld ==
    ASSUME Pointers, HeldInv, NEW t \in Thread, EnqueueHead(t)
    PROVE  HeldInv'
<1>1. /\ pc[t] = "enqHead" /\ pc'[t] = "enqClear" /\ UNCHANGED <<next, list, node, cur>>
      /\ head' = [head EXCEPT ![list[t]] = node[t]]
      /\ \A u \in Thread \ {t} : pc'[u] = pc[u]
  BY DEF EnqueueHead, Goto, Pointers
<1>2. /\ list[t] = Target(t) /\ list[t] \in List /\ node[t] \in Node /\ head[list[t]] = NULL
      /\ \A l \in List : head'[l] = IF l = list[t] THEN node[t] ELSE head[l]
      /\ NULL \notin Node
  BY <1>1 DEF HeldInv, Roles, Pointers, Enqueueing, Node, NULL
<1>3. /\ \A l \in List : head[l] # node[t]
      /\ \A m \in Node : next[m] # node[t]
      /\ \A u \in Thread : pc[u] = "deqHead" => cur[u] # node[t]
      /\ \A u \in Thread \ {t} : pc[u] \in Holding => node[u] # node[t]
  BY <1>1 DEF HeldInv, HeldAlone, Holding
<1>4. Roles'
  <2>1. ASSUME NEW u \in Thread \ {t}, pc[u] \in {"deqNext", "deqHead"} PROVE list[u] # list[t]
    <3>1. node[u] \in Node /\ head[list[u]] = node[u]
      BY <2>1 DEF HeldInv, Roles, Pointers
    <3> QED
      BY <1>2, <3>1
  <2>2. ASSUME NEW u \in Thread \ {t}, pc[u] = "enqHead" PROVE list[u] # list[t]
    BY <1>1, <1>2, <2>2 DEF HeldInv, Roles, Enqueueing, Target, Thread
  <2> QED
    BY <1>1, <1>2, <2>1, <2>2 DEF HeldInv, Roles, Dequeueing, Enqueueing, Pointers
<1>5. LinksOnce'
  <2>1. head'["valid"] # NULL => head'["valid"] # head'["empty"]
    BY <1>2, <1>3 DEF HeldInv, LinksOnce, List
  <2>2. ASSUME NEW l \in List, NEW m \in Node, next[m] # NULL, next[m] = head'[l]
        PROVE  \E u \in Thread : pc'[u] = "deqClear" /\ node[u] = m /\ list[u] = l
    <3>1. l # list[t]
      BY <1>2, <1>3, <2>2
    <3>2. PICK u \in Thread : pc[u] = "deqClear" /\ node[u] = m /\ list[u] = l
      BY <1>2, <2>2, <3>1 DEF HeldInv, LinksOnce
    <3> QED
      BY <1>1, <3>2
  <2> QED
    BY <1>1, <2>1, <2>2 DEF HeldInv, LinksOnce
<1>6. SuccessorOnce'
  BY <1>1, <1>2, <1>3 DEF HeldInv, SuccessorOnce
<1>7. HeldAlone'
  BY <1>1, <1>2, <1>3 DEF HeldInv, HeldAlone, Holding
<1> QED
  BY <1>4, <1>5, <1>6, <1>7 DEF HeldInv

LEMMA EnqueueLinkKeepsHeld ==
    ASSUME Pointers, HeldInv, NEW t \in Thread, EnqueueLink(t)
    PROVE  HeldInv'
<1>1. /\ pc[t] = "enqLink" /\ pc'[t] = "enqClear" /\ UNCHANGED <<head, list, node, cur>>
      /\ next' = [next EXCEPT ![cur[t]] = node[t]]
      /\ \A u \in Thread \ {t} : pc'[u] = pc[u]
  BY DEF EnqueueLink, Goto, Pointers
<1>2. /\ node[t] \in Node /\ cur[t] \in Node /\ NULL \notin Node
      /\ \A m \in Node : next'[m] = IF m = cur[t] THEN node[t] ELSE next[m]
  BY <1>1 DEF Pointers, Node, NULL
<1>3. /\ \A l \in List : head[l] # node[t]
      /\ \A m \in Node : next[m] # node[t]
      /\ \A u \in Thread : pc[u] = "deqHead" => cur[u] # node[t]
      /\ \A u \in Thread \ {t} : pc[u] \in Holding => node[u] # node[t]
  BY <1>1 DEF HeldInv, HeldAlone, Holding
<1>4. Roles'
  BY <1>1 DEF HeldInv, Roles, Dequeueing, Enqueueing
<1>5. LinksOnce'
  <2>1. ASSUME NEW l \in List, NEW m \in Node, next'[m] # NULL, next'[m] = head[l]
        PROVE  \E u \in Thread : pc'[u] = "deqClear" /\ node[u] = m /\ list[u] = l
    <3>1. next[m] = next'[m]
      BY <1>2, <1>3, <2>1
    <3>2. PICK u \in Thread : pc[u] = "deqClear" /\ node[u] = m /\ list[u] = l
      BY <2>1, <3>1 DEF HeldInv, LinksOnce
    <3> QED
      BY <1>1, <3>2
  <2> QED
    BY <1>1, <1>2, <1>3, <2>1 DEF HeldInv, LinksOnce
<1>6. SuccessorOnce'
  BY <1>1, <1>2, <1>3 DEF HeldInv, SuccessorOnce
<1>7. HeldAlone'
  <2>1. \A u \in Thread : /\ pc'[u] \in Holding => pc[u] \in Holding /\ u # t
                          /\ pc'[u] = "deqHead" => pc[u] = "deqHead"
    BY <1>1 DEF Holding
  <2> QED
    BY <1>1, <1>2, <1>3, <2>1 DEF HeldInv, HeldAlone
<1> QED
  BY <1>4, <1>5, <1>6, <1>7 DEF HeldInv

(* A call begins, or goes on from one list to the other. *)
LEMMA CallKeepsHeld ==
    ASSUME Pointers, HeldInv, NEW t \in Thread, NEW l \in List, NEW entry,
           UNCHANGED <<head, next, node, cur>>, Call(t, l, entry),
           \/ pc[t] = "idle" /\ entry = "deqRead" /\ l = Source(t)
           \/ pc[t] = "got" /\ entry = "enqRead" /\ l = Target(t)
    PROVE  HeldInv'
<1>1. /\ pc'[t] = entry /\ list'[t] = l
      /\ \A u \in Thread \ {t} : pc'[u] = pc[u] /\ list'[u] = list[u]
  BY DEF Call, Goto, Pointers
<1>2. Roles' /\ LinksOnce'
  BY <1>1 DEF HeldInv, Roles, LinksOnce, Dequeueing, Enqueueing
<1>3. SuccessorOnce' /\ HeldAlone'
  BY <1>1 DEF HeldInv, SuccessorOnce, HeldAlone, Holding
<1> QED
  BY <1>2, <1>3 DEF HeldInv

(* Init puts all nodes on valid_quene. *)
LEMMA FilledIsHeld ==
    ASSUME IInv, step = "args", NEW given, FillLists(given), head["empty"] = NULL
    PROVE  HeldInv'
<1>1. /\ DEMO_INPUT_BUFFER_NUM \in Nat \ {0} /\ NULL \notin Node /\ Node = 1 .. DEMO_INPUT_BUFFER_NUM
      /\ NULL = 0
  BY BufferNumAssumption DEF Node, NULL
<1>2. /\ head'["valid"] = 1 /\ head'["empty"] = NULL
      /\ \A n \in Node : next'[n] = IF n < DEMO_INPUT_BUFFER_NUM THEN n + 1 ELSE NULL
      /\ pc' = pc
  BY DEF FillLists, IInv, ListInv, Pointers, List
<1>3. \A t \in Thread : pc'[t] = "idle"
  BY <1>2 DEF IInv, Life, Thread
<1>4. LinksOnce'
  <2>1. ASSUME NEW m \in Node, NEW n \in Node, m # n, next'[m] # NULL PROVE next'[m] # next'[n]
    BY <1>1, <1>2, <2>1
  <2>2. ASSUME NEW l \in List, NEW m \in Node, next'[m] # NULL PROVE next'[m] # head'[l]
    <3>1. head'[l] \in {NULL, 1}
      BY <1>2 DEF List
    <3> QED
      BY <1>1, <1>2, <2>2, <3>1
  <2> QED
    BY <1>1, <1>2, <2>1, <2>2 DEF LinksOnce
<1> QED
  BY <1>3, <1>4 DEF HeldInv, Roles, SuccessorOnce, HeldAlone, Dequeueing, Enqueueing, Holding

LEMMA NextHeldInv == IInv /\ PlanesInv /\ HeldInv /\ [Next]_vars => HeldInv'
<1> SUFFICES ASSUME IInv, PlanesInv, HeldInv, [Next]_vars PROVE HeldInv'
  OBVIOUS
<1>1. Pointers
  BY DEF IInv, ListInv
<1>2. CASE InitDone
  <2>1. step = "args" /\ head["empty"] = NULL /\ \E given : FillLists(given)
    BY <1>2 DEF InitDone, PlanesInv, List
  <2> QED
    BY <2>1, FilledIsHeld
<1>3. ASSUME UNCHANGED <<head, next, pc, list, node, cur>> PROVE HeldInv'
  BY <1>3 DEF HeldInv, Roles, LinksOnce, SuccessorOnce, HeldAlone
<1>4. ASSUME NEW t \in Thread, MoveNode(t) PROVE HeldInv'
  BY <1>1, <1>4, ReadKeepsHeld, DequeueHeadKeepsHeld, ClearKeepsHeld, EnqueueHeadKeepsHeld,
     EnqueueLinkKeepsHeld DEF MoveNode, ListStep
<1>5. CASE FeedFrame
  <2>1. "enc" \in Thread /\ "valid" \in List /\ Source("enc") = "valid"
    BY DEF Thread, List, Source
  <2>2. pc["enc"] = "idle" /\ Call("enc", "valid", "deqRead") /\ UNCHANGED <<head, next, node, cur>>
    BY <1>5 DEF FeedFrame, YuvIn, memory
  <2> QED
    BY <1>1, <2>1, <2>2, CallKeepsHeld
<1>6. CASE CopyFrame
  <2>1. "enc" \in Thread /\ "empty" \in List /\ Target("enc") = "empty"
    BY DEF Thread, List, Target
  <2>2. pc["enc"] = "got" /\ Call("enc", "empty", "enqRead") /\ UNCHANGED <<head, next, node, cur>>
    BY <1>6 DEF CopyFrame, YuvInQueue, memory
  <2> QED
    BY <1>1, <2>1, <2>2, CallKeepsHeld
<1>7. CASE BufferDone
  <2>1. "venc" \in Thread /\ "empty" \in List /\ Source("venc") = "empty"
    BY DEF Thread, List, Source
  <2>2. pc["venc"] = "idle" /\ Call("venc", "empty", "deqRead") /\ UNCHANGED <<head, next, node, cur>>
    BY <1>7 DEF BufferDone, InputBufferDone, memory
  <2> QED
    BY <1>1, <2>1, <2>2, CallKeepsHeld
<1>8. CASE BufferDoneCopy
  <2>1. "venc" \in Thread /\ "valid" \in List /\ Target("venc") = "valid"
    BY DEF Thread, List, Target
  <2>2. pc["venc"] = "got" /\ Call("venc", "valid", "enqRead") /\ UNCHANGED <<head, next, node, cur>>
    BY <1>8 DEF BufferDoneCopy, InputBufferDoneCopy
  <2> QED
    BY <1>1, <2>1, <2>2, CallKeepsHeld
<1>9. CASE \/ FetchFrame \/ EncodedFrame \/ CopyToNowhere \/ UpdateMbModeInfo \/ UNCHANGED vars
           \/ InitNoContext \/ InitNoMemops \/ GetSpsPps
           \/ RunEnds \/ UninitDestroy \/ UninitMemClose \/ UninitContext
  <2>1. UNCHANGED <<head, next, pc, list, node, cur>>
    BY <1>9 DEF FetchFrame, Out, EncodedFrame, VencOutput, memory, CopyToNowhere, UpdateMbModeInfo,
       vars, listVars, InitNoContext, InitNoMemops, GetSpsPps,
       RunEnds, UninitDestroy, UninitMemClose, UninitContext
  <2> QED
    BY <1>3, <2>1
<1> QED
  BY <1>2, <1>4, <1>5, <1>6, <1>7, <1>8, <1>9 DEF Next, EncStep, VencStep, MainStep, Thread

-----------------------------------------------------------------------------
(* What is held is on no list. *)
LEMMA HeldIsOffLists ==
    ASSUME Pointers, HeldInv, NEW t \in Thread, pc[t] \in Holding,
           NEW l \in List, NEW f, After(f, l, DEMO_INPUT_BUFFER_NUM),
           NEW k \in 0 .. DEMO_INPUT_BUFFER_NUM
    PROVE  node[t] \notin f[k]
<1>1. node[t] \in Node /\ node[t] # NULL
  BY DEF Pointers, Holding, Node, NULL
<1>2. node[t] # head[l] /\ \A m \in Node : next[m] # node[t]
  BY DEF HeldInv, HeldAlone
<1> SUFFICES ASSUME node[t] \in f[k] \ {NULL} PROVE FALSE
  BY <1>1
<1> QED
  BY <1>2, ReachedIsPointedTo

(* No node on a list leads to the head of the other. *)
LEMMA NoLinkToHead ==
    ASSUME Pointers, HeldInv, NEW l \in List, NEW f, After(f, l, DEMO_INPUT_BUFFER_NUM),
           NEW k \in 0 .. DEMO_INPUT_BUFFER_NUM, NEW m \in f[k] \ {NULL}, m \in Node,
           NEW h \in List, next[m] # NULL
    PROVE  next[m] # head[h]
<1> SUFFICES ASSUME next[m] = head[h] PROVE FALSE
  OBVIOUS
<1>1. PICK t \in Thread : pc[t] = "deqClear" /\ node[t] = m
  BY DEF HeldInv, LinksOnce
<1> QED
  BY <1>1, HeldIsOffLists DEF Holding

LEMMA ListsDisjoint ==
    ASSUME Pointers, HeldInv
    PROVE  OnList("valid") \cap OnList("empty") = {}
<1> DEFINE N == DEMO_INPUT_BUFFER_NUM
<1>1. N \in Nat /\ "valid" \in List /\ "empty" \in List
  BY BufferNumAssumption DEF List
<1>2. PICK f : After(f, "valid", N) /\ OnList("valid") = f[N] \ {NULL}
  BY OnListSteps
<1>3. PICK g : After(g, "empty", N) /\ OnList("empty") = g[N] \ {NULL}
  BY OnListSteps
<1> DEFINE Common(i, j) == (f[i] \cap g[j]) \ {NULL}
           T == {i \in 0 .. N : \E j \in 0 .. N : Common(i, j) # {}}
<1>4. SUFFICES ASSUME T # {} PROVE FALSE
  <2>1. N \in 0 .. N
    BY <1>1
  <2> QED
    BY <1>2, <1>3, <1>4, <2>1
<1>5. PICK i \in T : \A m \in T : i <= m
  <2>1. T \in SUBSET Nat
    BY <1>1
  <2> QED
    BY <1>4, <2>1, LeastElement
<1>6. i \in 0 .. N /\ (i > 0 => i - 1 \in 0 .. N /\ ~(i <= i - 1))
  BY <1>1
<1>met. PICK j \in 0 .. N : \E x \in f[i] : x \in g[j] /\ x # NULL
  <2>1. PICK j \in 0 .. N : Common(i, j) # {}
    OBVIOUS
  <2> QED
    BY <2>1
<1>7. PICK x \in f[i] : x \in g[j] /\ x # NULL
  BY <1>met
<1>8. ASSUME i > 0, NEW k \in 0 .. N PROVE Common(i - 1, k) = {}
  <2> HIDE DEF Common
  <2> QED
    BY <1>5, <1>6, <1>8
<1>9. /\ x \in Node
      /\ x = head["valid"] \/ (i > 0 /\ \E m \in f[i - 1] \ {NULL} : m \in Node /\ next[m] = x)
  BY <1>1, <1>2, <1>6, <1>7, ReachedIsPointedTo
<1>10. x = head["empty"] \/ (j > 0 /\ \E m \in g[j - 1] \ {NULL} : m \in Node /\ next[m] = x)
  BY <1>1, <1>3, <1>7, ReachedIsPointedTo
<1>11. j > 0 => j - 1 \in 0 .. N
  BY <1>1
<1>12. CASE x = head["valid"] /\ x = head["empty"]
  BY <1>7, <1>12 DEF HeldInv, LinksOnce
<1>13. ASSUME j > 0, NEW m \in g[j - 1] \ {NULL}, m \in Node, next[m] = x, x = head["valid"] PROVE FALSE
  BY <1>1, <1>3, <1>7, <1>11, <1>13, NoLinkToHead
<1>14. ASSUME i > 0, NEW m \in f[i - 1] \ {NULL}, m \in Node, next[m] = x, x = head["empty"] PROVE FALSE
  BY <1>1, <1>2, <1>6, <1>7, <1>14, NoLinkToHead
<1>15. ASSUME i > 0, j > 0, NEW m \in f[i - 1] \ {NULL}, m \in Node, next[m] = x,
              NEW n \in g[j - 1] \ {NULL}, n \in Node, next[n] = x
       PROVE  FALSE
  <2>1. m = n
    BY <1>7, <1>15 DEF HeldInv, LinksOnce
  <2> QED
    BY <1>8, <1>11, <1>15, <2>1
<1> QED
  BY <1>9, <1>10, <1>12, <1>13, <1>14, <1>15

(* Whatever the two threads do at once, for any number of buffers, no node is
   handed out twice: a node on one list is not on the other, one that was taken
   off is on none, and the two threads never hold the same (H264Encoder.cpp:445,
   1640). *)
THEOREM NodesHandedOutOnce == Spec => []NodeHeldOnce
<1>1. Spec => []PlanesInv
  BY Invariance, InitPlanesInv, NextPlanesInv, PTL DEF Spec
<1>2. Spec => []HeldInv
  BY <1>1, Invariance, InitHeldInv, NextHeldInv, PTL DEF Spec
<1>3. ASSUME IInv, HeldInv PROVE NodeHeldOnce
  <2>1. Pointers
    BY <1>3 DEF IInv, ListInv
  <2>2. ASSUME NEW t \in Thread, pc[t] = "got", NEW l \in List PROVE node[t] \notin OnList(l)
    <3>1. PICK f : After(f, l, DEMO_INPUT_BUFFER_NUM) /\ OnList(l) = f[DEMO_INPUT_BUFFER_NUM] \ {NULL}
      BY OnListSteps
    <3>2. DEMO_INPUT_BUFFER_NUM \in 0 .. DEMO_INPUT_BUFFER_NUM /\ pc[t] \in Holding
      BY <2>2, BufferNumAssumption DEF Holding
    <3> QED
      BY <1>3, <2>1, <3>1, <3>2, HeldIsOffLists
  <2>3. ASSUME \A t \in Thread : pc[t] \in {"got", "enqRead", "enqHead", "enqWalk", "enqLink"}
        PROVE  node["enc"] # node["venc"]
    BY <1>3, <2>3 DEF HeldInv, HeldAlone, Holding, Thread
  <2> QED
    BY <1>3, <2>1, <2>2, <2>3, ListsDisjoint DEF NodeHeldOnce, List
<1> QED
  BY <1>2, <1>3, Invariance, PTL

=============================================================================
