---------------------------- MODULE FrameGeometry ----------------------------
(***************************************************************************)
(* The numbers that go from the command line to the camera and to the      *)
(* encoder: picture sizes, the sizes of buffers and of the copies between  *)
(* them, key frame distance, bit rate, bit buffer and time stamps.         *)
(***************************************************************************)
EXTENDS Integers

LOW_LATENCY_GOP_DIVISOR == 2
LOW_LATENCY_VBV_MS == 500
LOW_LATENCY_VBV_MIN == 256 * 1024
LOW_LATENCY_VBV_MAX == 2 * 1024 * 1024
US_PER_S == 1000000

(* What ParseArgs lets through. *)
Accepted(width, height, fps) ==
    /\ width \in 16 .. 3840 /\ width % 2 = 0
    /\ height \in 16 .. 2160 /\ height % 2 = 0
    /\ fps \in 1 .. 60

(* Sizes are rounded up to whole macroblocks of 16 x 16. *)
ALIGN_16B(x) == ((x + 15) \div 16) * 16

(* The planes asked of VencAllocateInputBuf. *)
nSizeY(width, height) == ALIGN_16B(width) * ALIGN_16B(height)
nSizeC(width, height) == nSizeY(width, height) \div 2

(* What YuvIn copies into them. *)
CopyY(width, height) == ALIGN_16B(width) * ALIGN_16B(height)
CopyC(width, height) == ALIGN_16B(width) * ALIGN_16B(height \div 2)

(* Macroblocks of a picture, for the map of EventHandler. *)
mb_num(width, height) == (ALIGN_16B(width) \div 16) * (ALIGN_16B(height) \div 16)

lowLatencyGopFrames(fps) ==
    LET gop == fps \div LOW_LATENCY_GOP_DIVISOR
    IN IF gop < 1 THEN 1 ELSE gop

(* Init: the bit rate goes by the width. *)
BitRate(width) ==
    LET mega == IF width = 3840 THEN 20
                ELSE IF width = 1920 THEN 10
                ELSE IF width = 1280 THEN 6
                ELSE IF width = 640 THEN 2
                ELSE IF width = 288 THEN 1
                ELSE 4
    IN mega * 1024 * 1024

lowLatencyVbvSize(bitRate) ==
    LET vbvSize == (bitRate * LOW_LATENCY_VBV_MS) \div 8000
    IN IF vbvSize < LOW_LATENCY_VBV_MIN THEN LOW_LATENCY_VBV_MIN
       ELSE IF vbvSize > LOW_LATENCY_VBV_MAX THEN LOW_LATENCY_VBV_MAX
       ELSE vbvSize

(* initH264Func: a range or a start of the quantiser that makes no sense is
   replaced. *)
QpRange(min, max) ==
    IF 0 < min /\ max < 52 /\ min < max
    THEN [nMinqp |-> min, nMaxqp |-> max]
    ELSE [nMinqp |-> 10, nMaxqp |-> 50]

QpInit(init) == IF 0 < init /\ init < 52 THEN init ELSE 30

(* What initH264Func hands to the codec: Init leaves i_qp_min, i_qp_max and
   qp_init 0. *)
h264Param(width, fps) ==
    LET maxKeyFrame == lowLatencyGopFrames(fps)
    IN [nBitrate |-> BitRate(width),
        nFramerate |-> fps,
        nMaxKeyInterval |-> IF maxKeyFrame = 0 THEN fps ELSE maxKeyFrame,
        sQPRange |-> QpRange(0, 0),
        nQpInit |-> QpInit(0)]

(* YuvIn: the time stamp goes up by this with every frame. *)
PtsStep(fps) == US_PER_S \div fps

=============================================================================
