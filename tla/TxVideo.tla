------------------------------ MODULE TxVideo ------------------------------
(***************************************************************************)
(* rtsp_sever_tx_video for a sequence of frames of one session: as long as *)
(* it lacks parameter sets it takes them from the frame, then it cuts the  *)
(* frame into packets (RtpPacketize), and at its end it serves requests;   *)
(* a DESCRIBE announces the parameter sets in base64.                      *)
(***************************************************************************)
EXTENDS RtpPacketize

CONSTANTS
    Byte, MaxLen,       \* bound: a single frame of any MaxLen bytes of Byte ...
    FrameSequences,     \* ... or, for each codec, sequences of frames
    PARAM_MAX           \* size of the array of a parameter set, 64 in the code

ASSUME BytesAssumption == Byte \subseteq 0 .. 255 /\ MaxLen \in Nat
ASSUME FramesAssumption ==
    \A c \in {"H264", "H265"} : \A fs \in FrameSequences[c] : fs \in Seq(Seq(0 .. 255))
ASSUME ParamAssumption == PARAM_MAX \in Nat \ {0}

VARIABLES
    todo,       \* frames still to come
    codec_data, \* s->vcodec_data: vps, sps and pps, <<>> for length 0
    told,       \* the parameter sets in the answer to the last DESCRIBE
    units       \* history: the NAL units of each frame

vars == <<packetVars, todo, codec_data, told, units>>
sessionVars == <<todo, codec_data, told, units>>

ParamSet == {"vps", "sps", "pps"}

Init ==
    /\ NoFrame
    /\ vcodec_id \in {"H264", "H265"}
    /\ todo \in {<<f>> : f \in BoundedSeq(Byte, MaxLen)} \cup FrameSequences[vcodec_id]
    /\ codec_data = [k \in ParamSet |-> <<>>]
    /\ told = <<>>
    /\ units = <<>>

-----------------------------------------------------------------------------
(* The types of the NAL units that hold parameter sets. An answer needs all. *)
NalType == IF vcodec_id = "H264" THEN [sps |-> 7, pps |-> 8]
                                 ELSE [vps |-> 32, sps |-> 33, pps |-> 34]
Needed == DOMAIN NalType
AllKnown == \A k \in Needed : codec_data[k] # <<>>

(* Those that are looked at before a frame is searched: pps_len is tested twice,
   sps_len not at all. *)
Tested == IF vcodec_id = "H264" THEN {"pps"} ELSE {"pps", "vps"}

(* Mutant: a frame is searched only while none of them is known. *)
NextFrame_NoneKnown ==
    /\ phase \in {"sent", "refused"}
    /\ todo # <<>>
    /\ BeginFrame(Head(todo), IF \A k \in Tested : codec_data[k] = <<>> THEN "learn" ELSE "scan")
    /\ todo' = Tail(todo)
    /\ units' = Append(units, NalUnits')
    /\ UNCHANGED <<codec_data, told>>

NextFrame ==
    /\ phase \in {"sent", "refused"}
    /\ todo # <<>>
    /\ BeginFrame(Head(todo), IF \E k \in Tested : codec_data[k] = <<>> THEN "learn" ELSE "scan")
    /\ todo' = Tail(todo)
    /\ units' = Append(units, NalUnits')
    /\ UNCHANGED <<codec_data, told>>

(* rtsp_find_h264_h265_nalu on what is left of the frame from i on: where the
   start code of the NAL unit found is and where the unit ends. *)
FindNalu(i) ==
    LET codes(k) == {j \in k .. Len(frame) : CodeAt(j) > 0}
        from == Min(codes(i))
        behind == codes(from + CodeAt(from))
    IN IF codes(i) = {} \/ from + CodeAt(from) > Len(frame) THEN <<>>
       ELSE <<from, IF behind = {} THEN Len(frame) ELSE Min(behind) - 1>>

(* What the byte behind the start code makes of a NAL unit. *)
Kind(b) ==
    LET type == IF vcodec_id = "H264" THEN b % 32 ELSE (b \div 2) % 64
        kinds == {k \in Needed : NalType[k] = type}
    IN IF kinds = {} THEN "other" ELSE CHOOSE k \in kinds : TRUE

Cut(u) == SubSeq(u, 1, IF Len(u) > PARAM_MAX THEN PARAM_MAX ELSE Len(u))

(* The loop of rtsp_codec_data_parse_from_user_h264 and _h265: a NAL unit a
   step, until all is known or nothing is left. *)
More == Len(frame) - start + 1 > 3 /\ ~AllKnown /\ FindNalu(start) # <<>>

LearnNalu ==
    /\ phase = "learn"
    /\ More
    /\ LET n == FindNalu(start)
           begin == n[1] + CodeAt(n[1])
           kind == Kind(frame[begin])
       IN /\ codec_data' = IF kind = "other" THEN codec_data
                           ELSE [codec_data EXCEPT ![kind] = Cut(SubSeq(frame, begin, n[2]))]
          /\ start' = n[2] + 1
    /\ UNCHANGED <<inputVars, buff, s, nalVars, packets, phase, todo, told, units>>

LearnDone ==
    /\ phase = "learn"
    /\ ~More
    /\ start' = 1
    /\ phase' = "scan"
    /\ UNCHANGED <<inputVars, buff, s, nalVars, packets, sessionVars>>

-----------------------------------------------------------------------------
(* base64_encode, with the numbers 0 to 63 for the characters of its table and
   64 for the padding. Groups of three bytes, as long as more than three
   remain, then a tail of one to three that gives one character more than it
   has bytes (mutant: one of two bytes goes the same way as one of one). *)
Word(bytes) ==
    LET i_bits[i \in 0 .. Len(bytes)] == IF i = 0 THEN 0 ELSE i_bits[i - 1] * 256 + bytes[i]
    IN i_bits[Len(bytes)]
Shifted(word, shift) == IF shift > 6 THEN (word \div 2 ^ (shift - 6)) % 64
                                     ELSE (word * 2 ^ (6 - shift)) % 64

Base64Tail_Short(bytes) ==
    LET shift == 8 * Len(bytes)
        chars == [i \in 1 .. shift \div 6 |-> Shifted(Word(bytes), shift - 6 * (i - 1))]
    IN IF bytes = <<>> THEN <<>> ELSE chars \o [i \in 1 .. 4 - Len(chars) |-> 64]

Base64Tail(bytes) ==
    LET shift == 8 * Len(bytes)
        chars == [i \in 1 .. (shift + 5) \div 6 |-> Shifted(Word(bytes), shift - 6 * (i - 1))]
    IN IF bytes = <<>> THEN <<>> ELSE chars \o [i \in 1 .. 4 - Len(chars) |-> 64]

base64_encode(bytes) ==
    LET groups == IF bytes = <<>> THEN 0 ELSE (Len(bytes) - 1) \div 3
        group(g) == LET w == Word(SubSeq(bytes, 3 * g - 2, 3 * g))
                    IN [i \in 1 .. 4 |-> (w \div 64 ^ (4 - i)) % 64]
    IN [i \in 1 .. 4 * groups |-> group((i - 1) \div 4 + 1)[1 + ((i - 1) % 4)]]
       \o Base64Tail(SubSeq(bytes, 3 * groups + 1, Len(bytes)))

(* rtsp_handle_DESCRIBE, in the rtsp_do_event at the end of a call: a frame that
   was refused returned before it. *)
Describe ==
    /\ phase = "sent"
    /\ units # <<>>
    /\ told' = IF AllKnown THEN [k \in Needed |-> base64_encode(codec_data[k])] ELSE <<>>
    /\ UNCHANGED <<packetVars, todo, codec_data, units>>

Send == Packetize /\ UNCHANGED sessionVars

Next == NextFrame \/ LearnNalu \/ LearnDone \/ Send \/ Describe

Spec == Init /\ [][Next]_vars

-----------------------------------------------------------------------------
(* Reference: the parameter sets of a stream are, of each kind, the latest up
   to the unit by which all kinds have come. *)
KindOf(u) == IF u = <<>> THEN "other" ELSE Kind(u[1])
Among(k, us) == \E i \in DOMAIN us : KindOf(us[i]) = k
UpTo(n) ==
    LET all[m \in 0 .. Len(units)] == IF m = 0 THEN <<>> ELSE all[m - 1] \o units[m]
    IN all[n]
Latest(us) ==
    LET whole == {n \in DOMAIN us : \A k \in Needed : Among(k, SubSeq(us, 1, n))}
        used == IF whole = {} THEN us ELSE SubSeq(us, 1, Min(whole))
        of(k) == {i \in DOMAIN used : KindOf(used[i]) = k}
    IN [k \in ParamSet |-> IF of(k) = {} THEN <<>> ELSE Cut(used[Max(of(k))])]
ParametersOfStream == Latest(UpTo(Len(units)))

(* At the end of some frame only the SPS has not come yet. *)
SpsLate ==
    \E n \in DOMAIN units :
        ~Among("sps", UpTo(n)) /\ \A k \in Needed \ {"sps"} : Among(k, UpTo(n))

(* The session knows the parameter sets of its stream, however they are spread
   over NAL units and frames, repeated, or out of order: the latest of each
   kind until all have come, and the same ever after. It may miss the SPS, and
   then keep older sets of the other kinds, only if the SPS came in a frame
   after all the others: the test at rtsp_demo.c:1814 asks for the PPS twice
   (utils.c:128-238, rtsp_demo.c:1812-1833). *)
LearnedAsSent ==
    phase # "learn" =>
        IF SpsLate
        THEN \A k \in Needed \ {"sps"} :
                \E u \in Range(UpTo(Len(units))) : KindOf(u) = k /\ codec_data[k] = Cut(u)
        ELSE codec_data = ParametersOfStream

(* Reference: RFC 4648. *)
DecodedGroup(chars, g) ==
    LET bits(i) == chars[i] % 64
        w == bits(4 * g - 3) * 262144 + bits(4 * g - 2) * 4096 + bits(4 * g - 1) * 64 + bits(4 * g)
    IN <<w \div 65536, (w \div 256) % 256, w % 256>>
Base64Decode(chars) ==
    LET pads == Cardinality({i \in DOMAIN chars : chars[i] = 64})
        bytes == [i \in 1 .. 3 * (Len(chars) \div 4) |->
                     DecodedGroup(chars, (i - 1) \div 3 + 1)[1 + ((i - 1) % 3)]]
    IN SubSeq(bytes, 1, Len(bytes) - pads)

(* What a client was told in base64 is, byte for byte, what the session has,
   whatever the lengths, and stays so while it plays (utils.c:17-60, 340-397). *)
AnnouncedHolds ==
    \A k \in DOMAIN told : Len(told[k]) % 4 = 0 /\ Base64Decode(told[k]) = codec_data[k]

=============================================================================
