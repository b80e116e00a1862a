---------------------------- MODULE RtpPacketize ----------------------------
(***************************************************************************)
(* How rtsp_sever_tx_video cuts one frame into RTP packets:                *)
(* rtsp_find_h264_h265_nalu scans for the start codes 001 and 0001, and    *)
(* rtp_enc_h264 or rtp_enc_h265 puts a NAL unit into one packet or into    *)
(* fragments. Offsets into the frame count from 1. Which frames there are, *)
(* and what else is done with them, is in TxVideo.                         *)
(***************************************************************************)
EXTENDS Integers, Sequences, SequencesExt, FiniteSets

CONSTANTS
    PAYLOAD,            \* RTP_MAX_PKTSIZ - RTPHDR_SIZE, 1444 in the code
    VRTP_MAX_NBPKTS     \* 300 in the code

ASSUME PayloadAssumption == PAYLOAD \in Nat /\ PAYLOAD > 3
ASSUME NbpktsAssumption == VRTP_MAX_NBPKTS \in Nat \ {0}

VARIABLES
    vcodec_id, \* codec of the session: H264 or H265
    frame,     \* the bytes of the frame
    start,     \* where the search for the next NAL unit begins
    buff,      \* the byte the search has come to
    s,         \* start code of the NAL unit being searched, 0 for none yet
    nal,       \* the NAL unit being sent, from start code to last byte
    pos, len,  \* what of it the packer has still to send
    first,     \* number of packets when it began
    packets,   \* packets written so far
    phase      \* learn (TxVideo), scan, encode, and then sent or refused

packetVars == <<vcodec_id, frame, start, buff, s, nal, pos, len, first, packets, phase>>
nalVars == <<nal, pos, len, first>>

NONE == 0
From(i, n) == SubSeq(frame, i, IF i + n > Len(frame) THEN Len(frame) ELSE i + n - 1)
Left == Len(frame) - buff + 1     \* len of rtsp_find_h264_h265_nalu

(* Length of the start code at i. *)
CodeAt(i) ==
    IF From(i, 3) = <<0, 0, 1>> THEN 3 ELSE IF From(i, 4) = <<0, 0, 0, 1>> THEN 4 ELSE 0

inputVars == <<vcodec_id, frame>>

(* No frame has come yet. *)
NoFrame ==
    /\ frame = <<>>
    /\ start = 1
    /\ buff = 1
    /\ s = NONE
    /\ nal = <<1, 0>>
    /\ pos = 1
    /\ len = 0
    /\ first = 0
    /\ packets = <<>>
    /\ phase = "sent"

(* rtsp_sever_tx_video is called with frame f and goes on at entry. *)
BeginFrame(f, entry) ==
    /\ frame' = f
    /\ start' = 1
    /\ buff' = 1
    /\ s' = NONE
    /\ nal' = <<1, 0>>
    /\ pos' = 1
    /\ len' = 0
    /\ first' = 0
    /\ packets' = <<>>
    /\ phase' = IF f = <<>> THEN "sent" ELSE entry
    /\ UNCHANGED vcodec_id

-----------------------------------------------------------------------------
(* The search. *)
SkipByte ==
    /\ phase = "scan"
    /\ Left >= 3
    /\ CodeAt(buff) = 0
    /\ buff' = buff + 1
    /\ UNCHANGED <<inputVars, start, s, nalVars, packets, phase>>

(* A start code with nothing behind it is not found at all. *)
FirstCode ==
    /\ phase = "scan"
    /\ Left >= 3
    /\ s = NONE
    /\ CodeAt(buff) > 0
    /\ IF Left > CodeAt(buff)
       THEN s' = buff /\ buff' = buff + CodeAt(buff) /\ UNCHANGED phase
       ELSE phase' = "sent" /\ UNCHANGED <<s, buff>>
    /\ UNCHANGED <<inputVars, start, nalVars, packets>>

(* A packer up to its loop drops 001 and then, from what is left, 0001.
   Near the end of the frame the second test reads past it and may find
   there what it looks for. *)
Encode(last) ==
    /\ nal' = <<s, last>>
    /\ LET p == IF From(s, 3) = <<0, 0, 1>> THEN s + 3 ELSE s
       IN \E long \in BOOLEAN :
             /\ IF long THEN IsPrefix(From(p, 4), <<0, 0, 0, 1>>)
                        ELSE From(p, 4) # <<0, 0, 0, 1>>
             /\ pos' = IF long THEN p + 4 ELSE p
             /\ len' = last + 1 - pos'
    /\ first' = Len(packets)
    /\ phase' = "encode"
    /\ UNCHANGED <<inputVars, start, buff, s, packets>>

(* The next start code ends the NAL unit. *)
NextCode == phase = "scan" /\ Left >= 3 /\ s # NONE /\ CodeAt(buff) > 0 /\ Encode(buff - 1)

(* So does the end of the frame (mutant: the last bytes, too few for a start
   code, are left out). *)
LastNalu_NoRest == phase = "scan" /\ Left < 3 /\ s # NONE /\ Encode(buff - 1)
LastNalu == phase = "scan" /\ Left < 3 /\ s # NONE /\ Encode(Len(frame))

NoNalu ==
    /\ phase = "scan" /\ Left < 3 /\ s = NONE
    /\ phase' = "sent"
    /\ UNCHANGED <<inputVars, start, buff, s, nalVars, packets>>

-----------------------------------------------------------------------------
(* The loop of the packers: one packet a step. A fragment carries the header
   of the NAL unit, of one or two bytes, in the one byte more that its FU
   indicator and FU header have together. *)
nalhdr == IF vcodec_id = "H264" THEN 1 ELSE 2
FragmentRoom == PAYLOAD - (nalhdr + 1)
Room == Len(packets) < VRTP_MAX_NBPKTS
Bytes(p, n) == SubSeq(frame, p, p + n - 1)

FitsInOne == Len(packets) = first /\ len <= PAYLOAD

Single ==
    /\ phase = "encode" /\ len > 0 /\ Room
    /\ FitsInOne
    /\ packets' = Append(packets, [fu |-> FALSE, m |-> TRUE, body |-> Bytes(pos, len)])
    /\ pos' = pos + len
    /\ len' = 0
    /\ UNCHANGED <<inputVars, start, buff, s, nal, first, phase>>

(* Mutant: the last fragment is recognised one byte too late. *)
LastFragment_OffByOne(n) == n < FragmentRoom
LastFragment(n) == n <= FragmentRoom

Fragment ==
    /\ phase = "encode" /\ len > 0 /\ Room
    /\ ~FitsInOne
    /\ LET S == Len(packets) = first
           p == IF S THEN pos + nalhdr ELSE pos       \* drop nalu header
           n == len - (p - pos)
           E == ~S /\ LastFragment(n)
           k == IF E THEN n ELSE FragmentRoom
           hdr == IF S THEN Bytes(pos, nalhdr) ELSE packets[first + 1].hdr
       IN /\ packets' = Append(packets, [fu |-> TRUE, m |-> E, hdr |-> hdr,
                                         S |-> S, E |-> E, body |-> Bytes(p, k)])
          /\ pos' = p + k
          /\ len' = n - k
    /\ UNCHANGED <<inputVars, start, buff, s, nal, first, phase>>

(* A NAL unit that gave no packet refuses the frame; otherwise the search
   goes on behind it, as long as there are packets left. *)
EncodeDone ==
    /\ phase = "encode"
    /\ len <= 0 \/ ~Room
    /\ start' = nal[2] + 1
    /\ buff' = nal[2] + 1
    /\ s' = NONE
    /\ phase' = IF Len(packets) = first THEN "refused"
                ELSE IF nal[2] < Len(frame) /\ Room THEN "scan"
                ELSE "sent"
    /\ UNCHANGED <<inputVars, nalVars, packets>>

Packetize ==
    \/ SkipByte \/ FirstCode \/ NextCode \/ LastNalu \/ NoNalu
    \/ Single \/ Fragment \/ EncodeDone

-----------------------------------------------------------------------------
(* Reference: what the NAL units of a byte stream are. A start code is 001
   with the zero before it, if there is one. *)
NalUnits ==
    LET codes == {i \in 1 .. Len(frame) - 2 : SubSeq(frame, i, i + 2) = <<0, 0, 1>>}
        CodeBegin(i) == IF i > 1 /\ frame[i - 1] = 0 THEN i - 1 ELSE i
        code == CHOOSE c \in [1 .. Cardinality(codes) -> codes] :
                    \A i, j \in DOMAIN c : i < j => c[i] < c[j]
        end(k) == IF k = Len(code) THEN Len(frame) ELSE CodeBegin(code[k + 1]) - 1
        all == [k \in 1 .. Len(code) |-> SubSeq(frame, code[k] + 3, end(k))]
    IN IF all # <<>> /\ Last(all) = <<>> THEN Front(all) ELSE all

(* Reference: what a receiver makes of the packets (RFC 6184, RFC 7798). A fragment
   that does not continue the one before it is of no use. *)
Receive(acc, p) ==
    IF ~p.fu THEN [part |-> <<>>, got |-> Append(acc.got, p.body)]
    ELSE LET part == IF p.S THEN p.hdr \o p.body
                     ELSE IF acc.part = <<>> THEN <<>> ELSE acc.part \o p.body
         IN IF p.E THEN [part |-> <<>>, got |-> Append(acc.got, part)]
                   ELSE [part |-> part, got |-> acc.got]
Received ==
    LET acc[i \in 0 .. Len(packets)] ==
            IF i = 0 THEN [part |-> <<>>, got |-> <<>>] ELSE Receive(acc[i - 1], packets[i])
    IN acc[Len(packets)].got

(* A receiver rebuilds exactly the NAL units of the frame, whatever their
   start codes, sizes and number (utils.c:62-100, rtp_enc.c:39-189); only a
   frame that needs more than VRTP_MAX_NBPKTS packets is cut short, and then
   what it does rebuild is a prefix. A frame is refused, its packets numbered
   but never sent, only for a NAL unit without content: two start codes in a
   row, or no more than three zeros behind the last one, where the test for
   0001 reads past the frame. *)
ReceiverRebuildsFrame ==
    /\ phase = "sent" =>
        /\ IsPrefix(Received, NalUnits)
        /\ Len(packets) < VRTP_MAX_NBPKTS => Received = NalUnits
    /\ phase = "refused" =>
        \/ \E k \in DOMAIN NalUnits : NalUnits[k] = <<>>
        \/ \E n \in 1 .. 3 : Last(NalUnits) = [i \in 1 .. n |-> 0]

(* The fragments of a NAL unit are as RFC 6184 and RFC 7798 want them: more than one, the
   first marked S, the last E with the marker bit, none of them empty or
   larger than a packet, also when the size is right at a packet boundary. *)
FragmentsWellFormed ==
    \A i \in DOMAIN packets :
        LET p == packets[i]
        IN /\ Len(p.body) \in 1 .. (IF p.fu THEN FragmentRoom ELSE PAYLOAD)
           /\ p.fu => ~(p.S /\ p.E) /\ p.m = p.E
           /\ (p.fu /\ ~p.S) <=> (i > 1 /\ packets[i - 1].fu /\ ~packets[i - 1].E)

=============================================================================
