-------------------------- MODULE YuvReaderProofs ---------------------------
(***************************************************************************)
(* Proofs about YuvReader, for every number of buffers: the circle of      *)
(* buffers between driver and encoder, what Uninit leaves, and that the    *)
(* reader keeps CameraContract.                                            *)
(***************************************************************************)
EXTENDS YuvReader, TLAPS

-----------------------------------------------------------------------------
(* Taking the head of a queue. *)
LEMMA TakeHead ==
    ASSUME NEW S, NEW s \in Seq(S), s # <<>>
    PROVE  /\ Head(s) \in S
           /\ Tail(s) \in Seq(S)
           /\ ToSet(s) = ToSet(Tail(s)) \cup {Head(s)}
           /\ IsInjective(s) => IsInjective(Tail(s)) /\ Head(s) \notin ToSet(Tail(s))
<1>1. /\ Tail(s) \in Seq(S) /\ Len(Tail(s)) = Len(s) - 1 /\ Len(s) \in Nat \ {0}
      /\ \A i \in 1 .. Len(s) - 1 : Tail(s)[i] = s[i + 1]
      /\ Head(s) = s[1]
      /\ Head(s) \in S
  OBVIOUS
<1>2. DOMAIN s = 1 .. Len(s) /\ DOMAIN Tail(s) = 1 .. Len(s) - 1
  BY <1>1
<1>3. ToSet(s) \subseteq ToSet(Tail(s)) \cup {Head(s)}
  <2> SUFFICES ASSUME NEW i \in 1 .. Len(s), i # 1 PROVE s[i] \in ToSet(Tail(s))
    BY <1>1, <1>2 DEF ToSet
  <2>1. i - 1 \in 1 .. Len(s) - 1 /\ Tail(s)[i - 1] = s[i]
    BY <1>1
  <2> QED
    BY <2>1, <1>2 DEF ToSet
<1>4. ToSet(Tail(s)) \cup {Head(s)} \subseteq ToSet(s)
  <2>1. Head(s) \in ToSet(s)
    BY <1>1, <1>2 DEF ToSet
  <2>2. ASSUME NEW i \in 1 .. Len(s) - 1 PROVE Tail(s)[i] \in ToSet(s)
    <3>1. i + 1 \in 1 .. Len(s)
      BY <1>1
    <3> QED
      BY <1>1, <1>2, <3>1 DEF ToSet
  <2> QED
    BY <1>2, <2>1, <2>2 DEF ToSet
<1>5. IsInjective(s) => IsInjective(Tail(s)) /\ Head(s) \notin ToSet(Tail(s))
  BY <1>1, <1>2 DEF IsInjective, ToSet
<1> QED
  BY <1>1, <1>3, <1>4, <1>5

(* Adding at the end of a queue. *)
LEMMA AddLast ==
    ASSUME NEW S, NEW s \in Seq(S), NEW e \in S
    PROVE  /\ Append(s, e) \in Seq(S)
           /\ ToSet(Append(s, e)) = ToSet(s) \cup {e}
           /\ IsInjective(s) /\ e \notin ToSet(s) => IsInjective(Append(s, e))
<1>1. /\ Append(s, e) \in Seq(S) /\ Len(Append(s, e)) = Len(s) + 1 /\ Len(s) \in Nat
      /\ \A i \in 1 .. Len(s) : Append(s, e)[i] = s[i]
      /\ Append(s, e)[Len(s) + 1] = e
  OBVIOUS
<1>2. DOMAIN s = 1 .. Len(s) /\ DOMAIN Append(s, e) = 1 .. Len(s) + 1
  BY <1>1
<1>3. ToSet(Append(s, e)) = ToSet(s) \cup {e}
  BY <1>1, <1>2 DEF ToSet
<1>4. IsInjective(s) /\ e \notin ToSet(s) => IsInjective(Append(s, e))
  BY <1>1, <1>2 DEF IsInjective, ToSet
<1> QED
  BY <1>1, <1>3, <1>4

(* Two queues without repetition and without a common element. *)
LEMMA TogetherInjective ==
    ASSUME NEW S, NEW s \in Seq(S), NEW t \in Seq(S),
           IsInjective(s), IsInjective(t), ToSet(s) \cap ToSet(t) = {}
    PROVE  IsInjective(s \o t)
<1>1. /\ Len(s) \in Nat /\ Len(t) \in Nat
      /\ DOMAIN s = 1 .. Len(s) /\ DOMAIN t = 1 .. Len(t)
      /\ DOMAIN (s \o t) = 1 .. Len(s) + Len(t)
      /\ \A i \in 1 .. Len(s) : (s \o t)[i] = s[i]
      /\ \A i \in Len(s) + 1 .. Len(s) + Len(t) :
            (s \o t)[i] = t[i - Len(s)] /\ i - Len(s) \in 1 .. Len(t)
  OBVIOUS
<1>2. \A i \in 1 .. Len(s), j \in 1 .. Len(t) : s[i] # t[j]
  BY <1>1 DEF ToSet
<1> QED
  BY <1>1, <1>2 DEF IsInjective

-----------------------------------------------------------------------------
(* Types, and where the run loop can be with each of its stages. *)
ReaderTypes ==
    /\ pc \in {"init", "loop", "body", "inBuf", "uninit", "exit"}
    /\ staFlag \in 0 .. 2
    /\ pc = "init" => staFlag = 0
    /\ pc = "inBuf" => staFlag = 1
    /\ result \in {0, -1}
    /\ driver \in {"none", "single", "mplane"}
    /\ buffers \in {"null", "live", "freed"}
    /\ planes \in {"unset", "live", "freed"}
    /\ queued \in Seq(Buffer)
    /\ filled \in Seq(Buffer)
    /\ index \in Buffer

(* What Init set up and Uninit released. *)
Resources ==
    /\ pc = "init" => planes = "unset" /\ driver = "none" /\ buffers = "null"
    /\ planes = "live" => buffers = "live" /\ driver = "mplane"
    /\ (pc \in {"loop", "body", "inBuf"} /\ result = 0) =>
          /\ fd = "open" /\ buffers = "live" /\ maps = Buffer
          /\ driver = "mplane" => planes = "live"
    /\ (pc \in {"uninit", "exit"} /\ result = 0) =>
          maps = {} /\ fd = "closed" /\ buffers = "freed" /\ planes # "live"

(* A buffer is queued, filled, in the hand of the encoder, or lost, and in one
   of these places only. *)
Circle ==
    /\ pc = "init" => queued = <<>> /\ filled = <<>>
    /\ IsInjective(queued) /\ IsInjective(filled)
    /\ ToSet(queued) \cap ToSet(filled) = {}
    /\ Held \cap (ToSet(queued) \cup ToSet(filled)) = {}
    /\ LostForCause

ReaderInv == ReaderTypes /\ Resources /\ Circle

LEMMA InitReaderInv == Init => ReaderInv
<1> SUFFICES ASSUME Init PROVE ReaderInv
  OBVIOUS
<1>1. ReaderTypes
  BY BufNumAssumption DEF Init, ReaderTypes, Buffer
<1>2. Resources
  BY DEF Init, Resources
<1>3. Circle
  BY DEF Init, Circle, Held, LostForCause, Streaming, IsInjective, ToSet
<1> QED
  BY <1>1, <1>2, <1>3 DEF ReaderInv

(* All buffers are queued once when streaming starts. *)
LEMMA AllBuffersFacts ==
    /\ AllBuffers \in Seq(Buffer)
    /\ IsInjective(AllBuffers)
    /\ ToSet(AllBuffers) = Buffer
<1>1. /\ AllBuffers \in Seq(Buffer)
      /\ DOMAIN AllBuffers = 1 .. YUV_BUF_NUM_MAX
      /\ \A i \in 1 .. YUV_BUF_NUM_MAX : AllBuffers[i] = i - 1
  BY BufNumAssumption DEF AllBuffers, Buffer
<1>2. IsInjective(AllBuffers)
  BY <1>1, BufNumAssumption DEF IsInjective
<1>3. Buffer \subseteq ToSet(AllBuffers)
  <2> SUFFICES ASSUME NEW b \in Buffer PROVE b \in ToSet(AllBuffers)
    OBVIOUS
  <2>1. b + 1 \in 1 .. YUV_BUF_NUM_MAX /\ AllBuffers[b + 1] = b
    BY <1>1, BufNumAssumption DEF Buffer
  <2> QED
    BY <1>1, <2>1 DEF ToSet
<1>4. ToSet(AllBuffers) \subseteq Buffer
  BY <1>1, BufNumAssumption DEF ToSet, Buffer
<1> QED
  BY <1>1, <1>2, <1>3, <1>4

(* A step that moves no buffer leaves the circle alone. *)
LEMMA CircleFrame ==
    ASSUME Circle,
           UNCHANGED <<driverVars, index, refused, driver>>,
           pc' # "init", Streaming' => Streaming, Held' = Held
    PROVE  Circle'
  BY DEF Circle, driverVars, LostForCause

(* A release empties the driver's queues and ends the streaming. *)
LEMMA UninitKeeps ==
    ASSUME NEW from \in {"loop", "uninit"}, NEW to \in {"uninit", "exit"},
           ReaderTypes, Resources, Circle, Uninit(from, to)
    PROVE  ReaderTypes' /\ Resources' /\ Circle'
<1> USE DEF Uninit
<1>1. ReaderTypes'
  BY DEF ReaderTypes
<1>2. Resources'
  BY DEF Resources, ReaderTypes, Unmapped
<1>3. ~Streaming'
  BY DEF Streaming
<1>4. IsInjective(queued') /\ IsInjective(filled') /\ ToSet(queued') = {} /\ ToSet(filled') = {}
  BY DEF IsInjective, ToSet
<1>5. Circle'
  BY <1>3, <1>4 DEF Circle, LostForCause
<1> QED
  BY <1>1, <1>2, <1>5

(* No step of the reader, of the driver or of the run loop takes a buffer out
   of the circle or puts it in twice (yuvReader.cpp, yuvToH264Encoder.cpp:147-165). *)
LEMMA StepReaderInv == ReaderInv /\ [Next]_vars => ReaderInv'
<1> SUFFICES ASSUME ReaderTypes, Resources, Circle, [Next]_vars
             PROVE  ReaderTypes' /\ Resources' /\ Circle'
  BY DEF ReaderInv
<1> USE DEF camera, driverVars
<1>1. CASE YuvReaderInit
  <2> USE <1>1 DEF YuvReaderInit, InitDone
  <2>1. CASE InitRefused \/ InitBufferRefused \/ InitStreamRefused
    <3> USE <2>1 DEF InitRefused, InitBufferRefused, InitStreamRefused
    <3>1. ReaderTypes'
      BY DEF ReaderTypes
    <3>2. Resources'
      BY DEF Resources
    <3>3. UNCHANGED <<driverVars, staFlag, index>> /\ pc' = "loop" /\ ~Streaming'
      BY DEF Streaming
    <3>4. Circle'
      BY <3>3 DEF Circle, Held, LostForCause
    <3> QED
      BY <3>1, <3>2, <3>4
  <2>2. CASE InitSucc
    <3> USE <2>2 DEF InitSucc
    <3>1. ReaderTypes'
      BY AllBuffersFacts DEF ReaderTypes
    <3>2. Resources'
      BY DEF Resources
    <3>3. /\ queued' = AllBuffers /\ filled' = <<>> /\ pc' = "loop" /\ staFlag' = 0
      BY DEF Circle, ReaderTypes
    <3>4. ToSet(filled') = {} /\ IsInjective(filled')
      BY <3>3 DEF ToSet, IsInjective
    <3>5. LostForCause'
      BY <3>3, AllBuffersFacts DEF LostForCause
    <3>6. Circle'
      BY <3>3, <3>4, <3>5, AllBuffersFacts DEF Circle, Held
    <3> QED
      BY <3>1, <3>2, <3>6
  <2> QED
    BY <2>1, <2>2
<1>2. CASE Fill
  <2> USE <1>2 DEF Fill
  <2>1. queued \in Seq(Buffer) /\ queued # <<>> /\ filled \in Seq(Buffer) /\ pc # "init"
    BY DEF ReaderTypes, Streaming
  <2>2. Head(queued) \notin ToSet(filled)
    BY <2>1, TakeHead DEF Circle
  <2>3. /\ queued' \in Seq(Buffer) /\ filled' \in Seq(Buffer)
        /\ ToSet(queued) = ToSet(queued') \cup {Head(queued)}
        /\ ToSet(filled') = ToSet(filled) \cup {Head(queued)}
        /\ IsInjective(queued') /\ IsInjective(filled') /\ Head(queued) \notin ToSet(queued')
    BY <2>1, <2>2, TakeHead, AddLast DEF Circle
  <2>4. UNCHANGED <<Held, Streaming, refused, driver, pc>>
    BY DEF Held, Streaming
  <2>5. LostForCause'
    BY <2>3, <2>4 DEF LostForCause, Circle
  <2>6. Circle'
    BY <2>1, <2>3, <2>4, <2>5 DEF Circle
  <2>7. ReaderTypes' /\ Resources'
    BY <2>3 DEF ReaderTypes, Resources
  <2> QED
    BY <2>6, <2>7
<1>3. CASE Stop
  <2> USE <1>3 DEF Stop
  <2>1. ReaderTypes' /\ Resources'
    BY DEF ReaderTypes, Resources
  <2>2. Circle'
    BY DEF Circle, Held, LostForCause, Streaming
  <2> QED
    BY <2>1, <2>2
<1>4. CASE RunLoop \/ OutBufFail \/ YuvIn \/ YuvInFail \/ Out \/ OutFail
  <2>1. CASE stopFlag /\ Uninit("loop", "uninit")
    BY <2>1, UninitKeeps
  <2>2. CASE ~(stopFlag /\ Uninit("loop", "uninit"))
    <3> USE <1>4, <2>2 DEF RunLoop, OutBufFail, YuvIn, YuvInFail, Out, OutFail
    <3>1. /\ UNCHANGED <<camera, driverVars, index, refused>>
          /\ pc \in {"loop", "body"} /\ pc' \in {"loop", "body", "inBuf"}
          /\ pc' = "inBuf" => staFlag = 1 /\ staFlag' = 1
          /\ staFlag' = staFlag \/ (staFlag = 2 /\ staFlag' = 0)
      OBVIOUS
    <3>2. ReaderTypes' /\ Resources'
      BY <3>1 DEF ReaderTypes, Resources
    <3>3. Held' = Held /\ (Streaming' => Streaming)
      BY <3>1 DEF Held, Streaming
    <3>4. Circle'
      BY <3>1, <3>3, CircleFrame
    <3> QED
      BY <3>2, <3>4
  <2> QED
    BY <2>1, <2>2
<1>5. CASE OutBuf
  <2> USE <1>5 DEF OutBuf
  <2>1. /\ filled \in Seq(Buffer) /\ filled # <<>> /\ Held = {} /\ pc = "body"
        /\ staFlag' \in {0, 1} /\ pc' \in {"body", "loop"}
    BY DEF ReaderTypes, Held
  <2>2. /\ filled' \in Seq(Buffer) /\ index' \in Buffer
        /\ ToSet(filled) = ToSet(filled') \cup {index'}
        /\ IsInjective(filled') /\ index' \notin ToSet(filled')
    BY <2>1, TakeHead DEF Circle
  <2>3. Held' \subseteq {index'} /\ Streaming /\ queued' = queued /\ driver' = driver /\ refused' = refused
    BY DEF Held
  <2>4. Held' = {} => driver = "single" /\ index' = 0
    BY <2>1 DEF Held, AddressNull, ReaderTypes
  <2>5. LostForCause'
    BY <2>1, <2>2, <2>3, <2>4 DEF LostForCause, Circle
  <2>6. Circle'
    BY <2>1, <2>2, <2>3, <2>5 DEF Circle
  <2>7. ReaderTypes' /\ Resources'
    BY <2>1, <2>2 DEF ReaderTypes, Resources
  <2> QED
    BY <2>6, <2>7
<1>6. CASE InBuf
  <2> USE <1>6 DEF InBuf
  <2>1. /\ queued \in Seq(Buffer) /\ index \in Buffer /\ Held = {index} /\ Held' = {}
        /\ pc' = "body" /\ filled' = filled /\ (Streaming' => Streaming) /\ driver' = driver
    BY DEF ReaderTypes, Held, Streaming
  <2>2. CASE queued' = Append(queued, index) /\ UNCHANGED refused
    <3>1. /\ queued' \in Seq(Buffer) /\ ToSet(queued') = ToSet(queued) \cup {index}
          /\ IsInjective(queued')
      BY <2>1, <2>2, AddLast DEF Circle
    <3>2. LostForCause'
      BY <2>1, <2>2, <3>1 DEF LostForCause, Circle
    <3>3. Circle'
      BY <2>1, <3>1, <3>2 DEF Circle
    <3>4. ReaderTypes' /\ Resources'
      BY <3>1 DEF ReaderTypes, Resources
    <3> QED
      BY <3>3, <3>4
  <2>3. CASE refused' = refused \cup {index} /\ UNCHANGED queued
    <3>1. LostForCause'
      BY <2>1, <2>3 DEF LostForCause, Circle
    <3>2. Circle'
      BY <2>1, <2>3, <3>1 DEF Circle
    <3>3. ReaderTypes' /\ Resources'
      BY <2>3 DEF ReaderTypes, Resources
    <3> QED
      BY <3>2, <3>3
  <2> QED
    BY <2>2, <2>3
<1>7. CASE MainUninit
  BY <1>7, UninitKeeps DEF MainUninit
<1>8. CASE UNCHANGED vars
  <2>1. ReaderTypes' /\ Resources'
    BY <1>8 DEF vars, ReaderTypes, Resources
  <2>2. Circle'
    BY <1>8 DEF vars, Circle, Held, LostForCause, Streaming
  <2> QED
    BY <2>1, <2>2
<1> QED
  BY <1>1, <1>2, <1>3, <1>4, <1>5, <1>6, <1>7, <1>8 DEF Next, Run

-----------------------------------------------------------------------------
(* The frame the encoder copies is not filled again meanwhile, and no buffer
   is with the driver twice (yuvToH264Encoder.cpp:147-165). *)
THEOREM FrameStaysStable == Spec => []FrameStable
<1>1. ReaderInv => FrameStable
  BY TogetherInjective DEF ReaderInv, ReaderTypes, Circle, FrameStable
<1> QED
  BY InitReaderInv, StepReaderInv, <1>1, PTL DEF Spec

(* A buffer is lost only to a failed VIDIOC_QBUF or, the first one, to the
   address check of OutBuf (yuvReader.cpp:461-562). *)
THEOREM BuffersLostForCause == Spec => []LostForCause
<1>1. ReaderInv => LostForCause
  BY DEF ReaderInv, Circle
<1> QED
  BY InitReaderInv, StepReaderInv, <1>1, PTL DEF Spec

(* What a successful Init took, Uninit gives back (yuvReader.cpp:382-459). *)
THEOREM UninitLeavesNothing == Spec => []NothingLeft
<1>1. ReaderInv => NothingLeft
  BY DEF ReaderInv, Resources, NothingLeft
<1> QED
  BY InitReaderInv, StepReaderInv, <1>1, PTL DEF Spec

-----------------------------------------------------------------------------
(* The reader as its contract sees it. *)
LEMMA InitContract == Init => Contracted!Init
  BY DEF Init, Contracted!Init, UninitUndefined

LEMMA UninitIsRelease ==
    ASSUME NEW from \in {"loop", "uninit"}, NEW to \in {"uninit", "exit"},
           ReaderTypes, Resources, crash = NoCrash, Uninit(from, to)
    PROVE  Contracted!Release
<1> USE DEF Uninit, UninitUndefined
<1>1. /\ pc # "init" /\ pc' # "init" /\ staFlag' = staFlag
      /\ driver' = driver /\ buffers \in {"null", "live", "freed"}
      /\ planes \in {"unset", "live", "freed"}
  BY DEF ReaderTypes
<1>2. UninitUndefined => UninitUndefined'
  BY <1>1
<1>3. buffers = "live" => UninitUndefined'
  BY <1>1
<1>4. ~UninitUndefined /\ buffers # "live" => ~UninitUndefined' /\ buffers' # "live"
  BY <1>1 DEF Resources
<1>5. crash' # NoCrash => UninitUndefined
  OBVIOUS
<1> HIDE DEF Uninit, UninitUndefined
<1> QED
  BY <1>1, <1>2, <1>3, <1>4, <1>5 DEF Contracted!Release, Contracted!Released

(* Each step of the reader is one its contract allows, or changes nothing the
   contract speaks of. *)
LEMMA StepContract ==
    ReaderInv /\ [Next]_vars =>
        [\/ Contracted!Open \/ Contracted!TakeFrame \/ Contracted!FinishFrame
         \/ Contracted!Release \/ Contracted!GiveUp]_(Contracted!vars)
<1> SUFFICES ASSUME ReaderTypes, Resources, [Next]_vars
             PROVE  \/ Contracted!Open \/ Contracted!TakeFrame \/ Contracted!FinishFrame
                    \/ Contracted!Release \/ UNCHANGED Contracted!vars
  BY DEF ReaderInv
<1> USE DEF camera, driverVars
<1>1. CASE YuvReaderInit
  <2>1. pc = "init" /\ pc' = "loop" /\ UNCHANGED <<staFlag, crash>>
    BY <1>1 DEF YuvReaderInit, InitRefused, InitBufferRefused, InitStreamRefused, InitSucc, InitDone
  <2> QED
    BY <2>1 DEF Contracted!Open
<1>2. CASE /\ UNCHANGED <<driver, planes, buffers, crash>>
           /\ (pc' = "init") <=> (pc = "init")
           /\ (staFlag' >= 1) <=> (staFlag >= 1)
  BY <1>2 DEF Contracted!vars, UninitUndefined
<1>3. CASE Fill \/ Stop \/ OutBufFail \/ YuvIn \/ YuvInFail \/ InBuf \/ OutFail
           \/ (RunLoop /\ ~stopFlag)
  BY <1>2, <1>3 DEF Fill, Stop, OutBufFail, YuvIn, YuvInFail, InBuf, OutFail, RunLoop, Streaming, ReaderTypes
<1>4. CASE UNCHANGED vars
  BY <1>2, <1>4 DEF vars
<1>5. CASE RunLoop /\ stopFlag /\ crash = NoCrash
  BY <1>5, UninitIsRelease DEF RunLoop
<1>6. CASE MainUninit /\ crash = NoCrash
  BY <1>6, UninitIsRelease DEF MainUninit
<1>7. CASE OutBuf
  <2>1. /\ pc = "body" /\ result = 0 /\ staFlag = 0
        /\ UNCHANGED <<driver, planes, buffers, crash>> /\ pc' # "init"
        /\ staFlag' \in {0, 1}
    BY <1>7 DEF OutBuf, Streaming
  <2>2. buffers = "live" /\ ~UninitUndefined
    BY <2>1 DEF Resources, UninitUndefined
  <2>3. CASE staFlag' = 0
    BY <1>2, <2>1, <2>3
  <2>4. CASE staFlag' = 1
    BY <2>1, <2>2, <2>4 DEF Contracted!TakeFrame, UninitUndefined
  <2> QED
    BY <2>1, <2>3, <2>4
<1>8. CASE Out
  <2>1. /\ pc = "body" /\ staFlag = 2 /\ staFlag' = 0 /\ pc' # "init"
        /\ UNCHANGED <<driver, planes, buffers, crash>>
    BY <1>8 DEF Out
  <2> QED
    BY <2>1 DEF Contracted!FinishFrame, UninitUndefined
<1> QED
  BY <1>1, <1>3, <1>4, <1>5, <1>6, <1>7, <1>8 DEF Next, Run

(* YuvReader implements CameraContract: that is what H264Pipeline assumes of
   it (yuvReader.cpp:231-459). *)
THEOREM ReaderKeepsContract == Spec => CameraSpec
  BY InitReaderInv, StepReaderInv, InitContract, StepContract, PTL
     DEF Spec, CameraSpec, Contracted!Contract
=============================================================================
