--------------------------- MODULE TxVideoProofs ---------------------------
(***************************************************************************)
(* The packets of a frame, for any size and number of packets, any frames  *)
(* and either codec. Then the parameter sets that a client is told, for    *)
(* any bytes, lengths and size of their array: what base64 says is read    *)
(* back as it was, and nothing is learned any more once it was told. Then  *)
(* the parameter sets a session learns: the search finds the NAL units of  *)
(* a frame, and takes of them what the stream says. Last what a receiver   *)
(* makes of the packets: the NAL units of the frame again.                 *)
(***************************************************************************)
EXTENDS TxVideo, FiniteSetTheorems, WellFoundedInduction, TLAPS

-----------------------------------------------------------------------------
Frame == Seq(0 .. 255)

(* The last packet so far is a fragment that another one must follow. *)
Open == packets # <<>> /\ packets[Len(packets)].fu /\ ~packets[Len(packets)].E

Types ==
    /\ vcodec_id \in {"H264", "H265"}
    /\ frame \in Frame /\ todo \in Seq(Frame)
    /\ buff \in Nat \ {0} /\ s \in Nat
    /\ nal \in Nat \X Nat /\ pos \in Nat \ {0} /\ len \in Int /\ first \in Nat
    /\ \E Packet : packets \in Seq(Packet)

(* What is left of a NAL unit lies within the frame, and a fragment waits for the
   next one exactly while something is left. *)
Progress ==
    /\ phase \in {"learn", "scan", "encode", "sent", "refused"}
    /\ phase = "learn" => packets = <<>>
    /\ phase = "scan" => ~Open
    /\ phase = "encode" =>
          /\ pos + len <= Len(frame) + 1
          /\ first <= Len(packets)
          /\ Open <=> Len(packets) > first /\ len > 0

PacketInv == Types /\ Progress /\ FragmentsWellFormed

LEMMA Constants ==
    /\ PAYLOAD \in Nat /\ PAYLOAD > 3 /\ VRTP_MAX_NBPKTS \in Nat
    /\ \A f : <<f>> \in Seq({f})
  BY PayloadAssumption, NbpktsAssumption

LEMMA InitPacketInv == Init => PacketInv
<1> SUFFICES ASSUME Init PROVE PacketInv
  OBVIOUS
<1>1. /\ vcodec_id \in {"H264", "H265"} /\ frame = <<>> /\ nal = <<1, 0>> /\ buff = 1 /\ s = 0 /\ pos = 1
      /\ len = 0 /\ first = 0 /\ packets = <<>> /\ phase = "sent"
  BY DEF Init, NoFrame, NONE
<1>2. todo \in Seq(Frame)
  <2>1. CASE todo \in {<<f>> : f \in BoundedSeq(Byte, MaxLen)}
    <3>1. PICK f \in BoundedSeq(Byte, MaxLen) : todo = <<f>>
      BY <2>1
    <3>2. f \in Seq(Byte)
      BY BytesAssumption DEF BoundedSeq, SeqOf
    <3>3. f \in Frame
      <4>1. Len(f) \in Nat /\ f = [i \in 1 .. Len(f) |-> f[i]]
        BY <3>2
      <4>2. \A i \in 1 .. Len(f) : f[i] \in Byte
        BY <3>2
      <4>3. \A i \in 1 .. Len(f) : f[i] \in 0 .. 255
        BY <4>2, BytesAssumption
      <4>4. f \in [1 .. Len(f) -> 0 .. 255]
        BY <4>1, <4>3
      <4>5. \A S : \A n \in Nat : [1 .. n -> S] \subseteq Seq(S)
        OBVIOUS
      <4> QED
        BY <4>1, <4>4, <4>5, ZenonT(60) DEF Frame
    <3> QED
      BY <3>1, <3>3
  <2>2. CASE todo \in FrameSequences[vcodec_id]
    BY <2>2, <1>1, FramesAssumption DEF Frame
  <2> QED
    BY <2>1, <2>2 DEF Init
<1>3. Types
  <2>1. packets \in Seq({})
    BY <1>1
  <2> QED
    BY <1>1, <1>2, <2>1 DEF Types, Frame
<1>4. Progress
  BY <1>1 DEF Progress, Open
<1>5. FragmentsWellFormed
  BY <1>1 DEF FragmentsWellFormed
<1> QED
  BY <1>3, <1>4, <1>5 DEF PacketInv

(* What a step that adds no packet leaves as it was. *)
LEMMA SamePackets ==
    ASSUME FragmentsWellFormed, UNCHANGED <<packets, vcodec_id>>
    PROVE  FragmentsWellFormed' /\ (Open' <=> Open)
  BY DEF FragmentsWellFormed, Open, FragmentRoom, nalhdr

(* Adding one packet, to what was well-formed. *)
LEMMA OnePacketMore ==
    ASSUME FragmentsWellFormed, UNCHANGED vcodec_id, NEW P, packets \in Seq(P),
           NEW p, packets' = Append(packets, p), p.fu \in BOOLEAN,
           Len(p.body) \in 1 .. (IF p.fu THEN FragmentRoom ELSE PAYLOAD),
           p.fu => ~(p.S /\ p.E) /\ p.m = p.E,
           (p.fu /\ ~p.S) <=> Open
    PROVE  /\ FragmentsWellFormed'
           /\ Open' <=> p.fu /\ ~p.E
           /\ Len(packets') = Len(packets) + 1
           /\ packets' \in Seq(P \cup {p})
<1> DEFINE n == Len(packets)
<1>1. /\ n \in Nat /\ packets' \in Seq(P \cup {p}) /\ Len(packets') = n + 1
      /\ DOMAIN packets = 1 .. n /\ DOMAIN packets' = 1 .. n + 1
      /\ \A i \in 1 .. n : packets'[i] = packets[i]
      /\ packets'[n + 1] = p
  OBVIOUS
<1>2. Open <=> n > 0 /\ packets[n].fu /\ ~packets[n].E
  BY DEF Open
<1>3. Open' <=> p.fu /\ ~p.E
  <2>1. packets' # <<>>
    BY <1>1
  <2> QED
    BY <1>1, <2>1 DEF Open
<1>4. FragmentRoom' = FragmentRoom
  BY DEF FragmentRoom, nalhdr
<1> DEFINE Fine(i) ==
       /\ Len(packets'[i].body) \in 1 .. (IF packets'[i].fu THEN FragmentRoom ELSE PAYLOAD)
       /\ packets'[i].fu => ~(packets'[i].S /\ packets'[i].E) /\ packets'[i].m = packets'[i].E
       /\ (packets'[i].fu /\ ~packets'[i].S)
             <=> (i > 1 /\ packets'[i - 1].fu /\ ~packets'[i - 1].E)
<1>5. ASSUME NEW i \in 1 .. n PROVE Fine(i)
  <2>1. i > 1 => i - 1 \in 1 .. n
    BY <1>1
  <2>2. packets'[i] = packets[i] /\ (i > 1 => packets'[i - 1] = packets[i - 1])
    BY <1>1, <2>1
  <2>3. /\ Len(packets[i].body) \in 1 .. (IF packets[i].fu THEN FragmentRoom ELSE PAYLOAD)
        /\ packets[i].fu => ~(packets[i].S /\ packets[i].E) /\ packets[i].m = packets[i].E
        /\ (packets[i].fu /\ ~packets[i].S)
              <=> (i > 1 /\ packets[i - 1].fu /\ ~packets[i - 1].E)
    BY <1>1 DEF FragmentsWellFormed
  <2> QED
    BY <2>2, <2>3
<1>6. Fine(n + 1)
  <2>1. (n + 1 > 1 /\ packets'[(n + 1) - 1].fu /\ ~packets'[(n + 1) - 1].E) <=> Open
    <3>1. (n + 1) - 1 = n /\ (n + 1 > 1 <=> n > 0) /\ (n > 0 => n \in 1 .. n)
      BY <1>1
    <3> QED
      BY <1>1, <1>2, <3>1
  <2> QED
    BY <1>1, <2>1
<1>7. \A i \in 1 .. n + 1 : Fine(i)
  <2> HIDE DEF Fine
  <2> QED
    BY <1>1, <1>5, <1>6
<1>8. FragmentsWellFormed'
  BY <1>1, <1>4, <1>7 DEF FragmentsWellFormed
<1> QED
  BY <1>1, <1>3, <1>8

-----------------------------------------------------------------------------
(* The search. *)
LEMMA SearchKeepsInv ==
    ASSUME PacketInv, SkipByte \/ FirstCode \/ NoNalu, UNCHANGED sessionVars
    PROVE  PacketInv'
<1>1. /\ phase = "scan" /\ buff \in Nat \ {0} /\ s \in Nat
      /\ UNCHANGED <<vcodec_id, frame, todo, nal, pos, len, first, packets>>
  BY DEF PacketInv, Types, SkipByte, FirstCode, NoNalu, inputVars, nalVars, sessionVars
<1>2. buff' \in Nat \ {0} /\ s' \in Nat /\ phase' \in {"scan", "sent"}
  BY <1>1 DEF SkipByte, FirstCode, NoNalu, CodeAt, NONE
<1>3. Types'
  BY <1>1, <1>2 DEF PacketInv, Types
<1>4. FragmentsWellFormed' /\ (Open' <=> Open)
  BY <1>1, SamePackets DEF PacketInv
<1>5. Progress'
  BY <1>1, <1>2, <1>4 DEF PacketInv, Progress
<1> QED
  BY <1>3, <1>4, <1>5 DEF PacketInv

(* Sending begins, with the NAL unit from s to last. *)
LEMMA EncodeKeepsInv ==
    ASSUME PacketInv, NEW last \in Nat, last <= Len(frame), phase = "scan", s # NONE, Encode(last),
           UNCHANGED sessionVars
    PROVE  PacketInv'
<1>1. /\ s \in Nat \ {0} /\ Len(frame) \in Nat /\ packets \in Seq(Range(packets)) /\ Len(packets) \in Nat
  BY DEF PacketInv, Types, Frame, NONE, Range
<1>2. PICK p \in Nat \ {0} :
           \E long \in BOOLEAN :
              pos' = (IF long THEN p + 4 ELSE p) /\ len' = last + 1 - pos'
  <2>1. (IF From(s, 3) = <<0, 0, 1>> THEN s + 3 ELSE s) \in Nat \ {0}
    BY <1>1
  <2> QED
    BY <2>1 DEF Encode
<1>3. pos' \in Nat \ {0} /\ len' \in Int /\ pos' + len' <= Len(frame) + 1
  BY <1>1, <1>2
<1>4. /\ first' = Len(packets) /\ phase' = "encode"
      /\ nal' = <<s, last>>
      /\ UNCHANGED <<vcodec_id, frame, todo, buff, s, packets>>
  BY DEF Encode, inputVars, sessionVars
<1>5. Types'
  BY <1>1, <1>3, <1>4 DEF PacketInv, Types
<1>6. FragmentsWellFormed' /\ (Open' <=> Open)
  BY <1>4, SamePackets DEF PacketInv
<1>7. Progress'
  BY <1>1, <1>3, <1>4, <1>6 DEF PacketInv, Progress
<1> QED
  BY <1>5, <1>6, <1>7 DEF PacketInv

LEMMA EncodeDoneKeepsInv ==
    ASSUME PacketInv, EncodeDone, UNCHANGED sessionVars
    PROVE  PacketInv'
<1>1. /\ phase = "encode" /\ (len <= 0 \/ ~Room) /\ buff' = nal[2] + 1 /\ s' = 0
      /\ phase' = IF Len(packets) = first THEN "refused"
                  ELSE IF nal[2] < Len(frame) /\ Room THEN "scan" ELSE "sent"
      /\ UNCHANGED <<vcodec_id, frame, todo, nal, pos, len, first, packets>>
  BY DEF EncodeDone, inputVars, nalVars, sessionVars, NONE
<1>2. FragmentsWellFormed' /\ (Open' <=> Open)
  BY <1>1, SamePackets DEF PacketInv
<1>3. Types'
  BY <1>1 DEF PacketInv, Types
<1>4. phase' = "scan" => ~Open
  <2>1. Open => len > 0
    BY <1>1 DEF PacketInv, Progress
  <2>2. phase' = "scan" => len <= 0
    BY <1>1
  <2> QED
    BY <2>1, <2>2 DEF PacketInv, Types
<1>5. Progress'
  BY <1>1, <1>2, <1>4 DEF PacketInv, Progress
<1> QED
  BY <1>2, <1>3, <1>5 DEF PacketInv

-----------------------------------------------------------------------------
(* The loop of the packers. *)
LEMMA PacketSizes ==
    ASSUME vcodec_id \in {"H264", "H265"}
    PROVE  nalhdr \in 1 .. 2 /\ FragmentRoom \in Nat \ {0} /\ FragmentRoom < PAYLOAD - nalhdr
  BY Constants DEF nalhdr, FragmentRoom

LEMMA BytesAre ==
    ASSUME frame \in Frame, NEW p \in Nat \ {0}, NEW n \in Nat, p + n <= Len(frame) + 1
    PROVE  Len(Bytes(p, n)) = n
<1>1. p + n - 1 \in Int /\ (p + n - 1) - p + 1 = n /\ p + n - 1 <= Len(frame)
  BY DEF Frame
<1>2. CASE n = 0
  <2>1. SubSeq(frame, p, p + n - 1) = <<>>
    BY <1>1, <1>2 DEF Frame
  <2> QED
    BY <1>2, <2>1 DEF Bytes
<1>3. CASE n > 0
  <2>1. p \in 1 .. Len(frame) /\ p + n - 1 \in 1 .. Len(frame) /\ p <= p + n - 1
    BY <1>1, <1>3 DEF Frame
  <2>2. Len(SubSeq(frame, p, p + n - 1)) = (p + n - 1) - p + 1
    BY <2>1 DEF Frame
  <2> QED
    BY <1>1, <2>2 DEF Bytes
<1> QED
  BY <1>2, <1>3

LEMMA SingleKeepsInv ==
    ASSUME PacketInv, Single, UNCHANGED sessionVars
    PROVE  PacketInv'
<1>1. /\ phase = "encode" /\ len > 0 /\ Len(packets) = first /\ len <= PAYLOAD
      /\ pos' = pos + len /\ len' = 0
      /\ UNCHANGED <<vcodec_id, frame, todo, buff, s, nal, first, phase>>
  BY DEF Single, FitsInOne, inputVars, sessionVars
<1>2. /\ frame \in Frame /\ pos \in Nat \ {0} /\ len \in Nat \ {0} /\ first \in Nat
      /\ pos + len <= Len(frame) + 1 /\ ~Open
  BY <1>1 DEF PacketInv, Types, Progress
<1>3. PICK P : packets \in Seq(P)
  BY DEF PacketInv, Types
<1>4. PICK p : p = [fu |-> FALSE, m |-> TRUE, body |-> Bytes(pos, len)]
  OBVIOUS
<1>5. packets' = Append(packets, p)
  BY <1>4 DEF Single
<1>6. Len(p.body) = len /\ p.fu = FALSE
  BY <1>2, <1>4, BytesAre
<1>7. Len(p.body) \in 1 .. (IF p.fu THEN FragmentRoom ELSE PAYLOAD)
  BY <1>1, <1>2, <1>6, Constants
<1>8. /\ FragmentsWellFormed' /\ ~Open'
      /\ Len(packets') = Len(packets) + 1
      /\ packets' \in Seq(P \cup {p})
  BY <1>1, <1>2, <1>3, <1>5, <1>6, <1>7, OnePacketMore DEF PacketInv
<1>9. Types'
  BY <1>1, <1>2, <1>8 DEF PacketInv, Types
<1>10. Progress'
  <2>1. pos' + len' <= Len(frame') + 1 /\ first' <= Len(packets') /\ ~(len' > 0)
    BY <1>1, <1>2, <1>8
  <2> QED
    BY <1>1, <1>8, <2>1 DEF Progress
<1> QED
  BY <1>8, <1>9, <1>10 DEF PacketInv

LEMMA FragmentKeepsInv ==
    ASSUME PacketInv, Fragment, UNCHANGED sessionVars
    PROVE  PacketInv'
<1>1. /\ phase = "encode" /\ len > 0 /\ ~FitsInOne
      /\ UNCHANGED <<vcodec_id, frame, todo, buff, s, nal, first, phase>>
  BY DEF Fragment, inputVars, sessionVars
<1>2. /\ frame \in Frame /\ pos \in Nat \ {0} /\ len \in Nat \ {0} /\ first \in Nat
      /\ pos + len <= Len(frame) + 1 /\ first <= Len(packets) /\ Len(frame) \in Nat
      /\ Open <=> Len(packets) > first
  BY <1>1 DEF PacketInv, Types, Progress, Frame
<1>3. PICK P : packets \in Seq(P)
  BY DEF PacketInv, Types
<1>4. Len(packets) \in Nat
  BY <1>3
<1>5. nalhdr \in 1 .. 2 /\ FragmentRoom \in Nat \ {0} /\ FragmentRoom < PAYLOAD - nalhdr /\ PAYLOAD \in Nat
  BY PacketSizes, Constants DEF PacketInv, Types
<1> DEFINE S0 == Len(packets) = first
           b0 == IF S0 THEN pos + nalhdr ELSE pos
           n0 == len - (b0 - pos)
           E0 == ~S0 /\ LastFragment(n0)
           k0 == IF E0 THEN n0 ELSE FragmentRoom
           hdr0 == IF S0 THEN Bytes(pos, nalhdr) ELSE packets[first + 1].hdr
<1>a. /\ packets' = Append(packets, [fu |-> TRUE, m |-> E0, hdr |-> hdr0,
                                    S |-> S0, E |-> E0, body |-> Bytes(b0, k0)])
      /\ pos' = b0 + k0 /\ len' = n0 - k0
  BY Zenon DEF Fragment
<1>b. PICK S, E, b, n, k, hdr : S = S0 /\ E = E0 /\ b = b0 /\ n = n0 /\ k = k0 /\ hdr = hdr0
  OBVIOUS
<1>6. /\ S \in BOOLEAN /\ E \in BOOLEAN
      /\ S <=> Len(packets) = first
      /\ b = IF S THEN pos + nalhdr ELSE pos
      /\ n = len - (b - pos)
      /\ E <=> ~S /\ LastFragment(n)
      /\ k = IF E THEN n ELSE FragmentRoom
      /\ packets' = Append(packets, [fu |-> TRUE, m |-> E, hdr |-> hdr,
                                    S |-> S, E |-> E, body |-> Bytes(b, k)])
      /\ pos' = b + k /\ len' = n - k
  BY <1>a, <1>b, Zenon
<1> HIDE DEF S0, b0, n0, E0, k0, hdr0
<1>7. /\ b \in Nat \ {0} /\ n \in Nat \ {0} /\ b + n = pos + len
      /\ S => n > FragmentRoom
  <2>1. CASE S
    <3>1. len > PAYLOAD
      BY <1>1, <1>2, <1>5, <1>6, <2>1 DEF FitsInOne
    <3> QED
      BY <1>2, <1>5, <1>6, <2>1, <3>1
  <2>2. CASE ~S
    BY <1>2, <1>6, <2>2
  <2> QED
    BY <2>1, <2>2
<1>8. k \in 1 .. FragmentRoom /\ k <= n /\ (n - k > 0 <=> ~E)
  <2>1. CASE E
    BY <1>5, <1>6, <1>7, <2>1 DEF LastFragment
  <2>2. CASE ~E
    BY <1>5, <1>6, <1>7, <2>2, SMTT(30) DEF LastFragment
  <2> QED
    BY <2>1, <2>2
<1>9. PICK p : p = [fu |-> TRUE, m |-> E, hdr |-> hdr, S |-> S, E |-> E, body |-> Bytes(b, k)]
  OBVIOUS
<1>10. p.fu = TRUE /\ p.m = E /\ p.S = S /\ p.E = E /\ p.body = Bytes(b, k)
  BY <1>9
<1>11. k \in Nat /\ b + k <= Len(frame) + 1
  BY <1>2, <1>5, <1>7, <1>8
<1>12. Len(p.body) \in 1 .. (IF p.fu THEN FragmentRoom ELSE PAYLOAD)
  <2>1. Len(p.body) = k
    BY <1>2, <1>7, <1>10, <1>11, BytesAre
  <2> QED
    BY <1>8, <1>10, <2>1
<1>13. (p.fu /\ ~p.S) <=> Open
  BY <1>2, <1>4, <1>6, <1>10
<1>14. ~(p.S /\ p.E) /\ p.m = p.E
  BY <1>6, <1>10
<1>15. /\ FragmentsWellFormed' /\ (Open' <=> p.fu /\ ~p.E)
       /\ Len(packets') = Len(packets) + 1
       /\ packets' \in Seq(P \cup {p})
  <2>1. packets' = Append(packets, p)
    BY <1>6, <1>9
  <2> QED
    BY <1>1, <1>3, <1>10, <1>12, <1>13, <1>14, <2>1, OnePacketMore DEF PacketInv
<1>16. pos' \in Nat \ {0} /\ len' \in Int /\ pos' + len' <= Len(frame') + 1
  BY <1>1, <1>2, <1>6, <1>7, <1>8, <1>5
<1>17. Types'
  BY <1>1, <1>15, <1>16 DEF PacketInv, Types
<1>18. Progress'
  <2>1. first' <= Len(packets') /\ Len(packets') > first'
    BY <1>1, <1>2, <1>4, <1>15
  <2>2. len' > 0 <=> ~E
    BY <1>6, <1>8
  <2>3. Open' <=> ~E
    BY <1>10, <1>15
  <2> QED
    BY <1>1, <1>16, <2>1, <2>2, <2>3 DEF Progress
<1> QED
  BY <1>15, <1>17, <1>18 DEF PacketInv

-----------------------------------------------------------------------------
LEMMA NextPacketInv == PacketInv /\ [Next]_vars => PacketInv'
<1> SUFFICES ASSUME PacketInv, [Next]_vars PROVE PacketInv'
  OBVIOUS
<1>1. CASE NextFrame
  <2>1. /\ todo # <<>> /\ todo \in Seq(Frame) /\ todo' = Tail(todo) /\ frame' = Head(todo)
        /\ buff' = 1 /\ s' = 0 /\ nal' = <<1, 0>> /\ pos' = 1 /\ len' = 0 /\ first' = 0
        /\ packets' = <<>> /\ phase' \in {"learn", "scan", "sent"} /\ vcodec_id' = vcodec_id
    BY <1>1 DEF NextFrame, BeginFrame, NONE, PacketInv, Types
  <2>2. Types'
    <3>1. frame' \in Frame /\ todo' \in Seq(Frame)
      BY <2>1
    <3>2. packets' \in Seq({})
      BY <2>1
    <3> QED
      BY <2>1, <3>1, <3>2 DEF PacketInv, Types
  <2>3. Progress' /\ FragmentsWellFormed'
    BY <2>1 DEF Progress, Open, FragmentsWellFormed
  <2> QED
    BY <2>2, <2>3 DEF PacketInv
<1>2. CASE LearnNalu \/ LearnDone \/ Describe \/ UNCHANGED vars
  <2>1. /\ UNCHANGED <<vcodec_id, frame, todo, buff, s, nal, pos, len, first, packets>>
        /\ phase' = phase \/ (phase = "learn" /\ phase' = "scan")
    BY <1>2 DEF LearnNalu, LearnDone, Describe, vars, packetVars, sessionVars, inputVars, nalVars
  <2>2. FragmentsWellFormed' /\ (Open' <=> Open)
    BY <2>1, SamePackets DEF PacketInv
  <2>3. phase = "learn" => ~Open
    BY DEF PacketInv, Progress, Open
  <2>4. Types' /\ Progress'
    BY <2>1, <2>2, <2>3 DEF PacketInv, Types, Progress
  <2> QED
    BY <2>2, <2>4 DEF PacketInv
<1>3. CASE Send
  <2>1. UNCHANGED sessionVars
    BY <1>3 DEF Send
  <2>2. CASE SkipByte \/ FirstCode \/ NoNalu
    BY <2>1, <2>2, SearchKeepsInv
  <2>3. CASE NextCode
    <3>1. buff - 1 \in Nat /\ buff - 1 <= Len(frame)
      BY <2>3 DEF NextCode, Left, PacketInv, Types, Frame
    <3> QED
      BY <2>1, <2>3, <3>1, EncodeKeepsInv DEF NextCode
  <2>4. CASE LastNalu
    <3>1. Len(frame) \in Nat
      BY DEF PacketInv, Types, Frame
    <3> QED
      BY <2>1, <2>4, <3>1, EncodeKeepsInv DEF LastNalu
  <2> QED
    BY <1>3, <2>1, <2>2, <2>3, <2>4, SingleKeepsInv, FragmentKeepsInv, EncodeDoneKeepsInv
       DEF Send, Packetize
<1> QED
  BY <1>1, <1>2, <1>3 DEF Next

(* For any frames and any size of packets, the fragments of a NAL unit are as RFC
   6184 and RFC 7798 want them, wherever its end falls (rtp_enc.c:39-189). *)
THEOREM FragmentsAlwaysWellFormed == Spec => []FragmentsWellFormed
<1>1. PacketInv => FragmentsWellFormed
  BY DEF PacketInv
<1> QED
  BY <1>1, InitPacketInv, NextPacketInv, PTL DEF Spec

-----------------------------------------------------------------------------
(* The parameter sets in an answer. First base64: a word of up to three bytes,
   six bits of it at a time, and back. *)
LEMMA FrameIs ==
    ASSUME NEW b \in Frame
    PROVE  Len(b) \in Nat /\ DOMAIN b = 1 .. Len(b) /\ \A i \in 1 .. Len(b) : b[i] \in 0 .. 255
<1>1. PICK B : B = 0 .. 255
  OBVIOUS
<1>2. b \in Seq(B)
  BY <1>1 DEF Frame
<1>3. Len(b) \in Nat /\ DOMAIN b = 1 .. Len(b) /\ \A i \in 1 .. Len(b) : b[i] \in B
  BY <1>2
<1> QED
  BY <1>1, <1>3

(* The bits of up to three bytes. *)
LEMMA WordIs ==
    ASSUME NEW b \in Frame, Len(b) \in 1 .. 3
    PROVE  Word(b) = IF Len(b) = 1 THEN b[1]
                     ELSE IF Len(b) = 2 THEN b[1] * 256 + b[2]
                     ELSE (b[1] * 256 + b[2]) * 256 + b[3]
<1> DEFINE n == Len(b)
           Bits(f) == f = [i \in 0 .. n |-> IF i = 0 THEN 0 ELSE f[i - 1] * 256 + b[i]]
           h == [i \in 0 .. n |-> IF i = 0 THEN 0 ELSE IF i = 1 THEN b[1]
                                  ELSE IF i = 2 THEN b[1] * 256 + b[2]
                                  ELSE (b[1] * 256 + b[2]) * 256 + b[3]]
<1>1. n \in 1 .. 3 /\ \A i \in 1 .. n : b[i] \in Int
  <2>1. \A i \in 1 .. n : b[i] \in 0 .. 255
    BY FrameIs
  <2>2. \A x \in 0 .. 255 : x \in Int
    OBVIOUS
  <2> QED
    BY <2>1, <2>2
<1>2. Bits(h)
  <2>1. ASSUME NEW i \in 0 .. n PROVE h[i] = IF i = 0 THEN 0 ELSE h[i - 1] * 256 + b[i]
    <3>1. i = 0 \/ i = 1 \/ i = 2 \/ i = 3
      BY <1>1
    <3>2. CASE i = 0
      BY <3>2
    <3>3. CASE i = 1
      BY <1>1, <3>3
    <3>4. CASE i = 2
      BY <1>1, <3>4
    <3>5. CASE i = 3
      BY <1>1, <3>5
    <3> QED
      BY <3>1, <3>2, <3>3, <3>4, <3>5
  <2>2. h = [i \in 0 .. n |-> h[i]]
    OBVIOUS
  <2> HIDE DEF h
  <2>3. h = [i \in 0 .. n |-> IF i = 0 THEN 0 ELSE h[i - 1] * 256 + b[i]]
    BY <2>1, <2>2, Zenon
  <2> QED
    BY <2>3
<1>3. PICK w : Bits(w) /\ Word(b) = w[n]
  <2>1. Word(b) = (CHOOSE f : Bits(f))[n]
    BY DEF Word
  <2>2. Bits(CHOOSE f : Bits(f))
    <3> HIDE DEF Bits
    <3> QED
      BY <1>2
  <2> QED
    BY <2>1, <2>2
<1>4. \A i \in 0 .. n : w[i] = IF i = 0 THEN 0 ELSE w[i - 1] * 256 + b[i]
  BY <1>3
<1> HIDE DEF Bits
<1>5. w[0] = 0 /\ w[1] = b[1]
  <2>1. 0 \in 0 .. n /\ 1 \in 0 .. n /\ 1 - 1 = 0
    BY <1>1
  <2>2. w[0] = 0
    BY <1>4, <2>1
  <2>3. w[1] = w[0] * 256 + b[1]
    BY <1>4, <2>1
  <2> QED
    BY <1>1, <2>2, <2>3
<1>6. CASE n = 1
  BY <1>3, <1>5, <1>6
<1>7. n > 1 => w[2] = b[1] * 256 + b[2]
  <2> SUFFICES ASSUME n > 1 PROVE w[2] = b[1] * 256 + b[2]
    OBVIOUS
  <2>1. 2 \in 0 .. n /\ 2 - 1 = 1 /\ 2 # 0
    BY <1>1
  <2>2. w[2] = w[1] * 256 + b[2]
    BY <1>4, <2>1
  <2> QED
    BY <1>5, <2>2
<1>8. CASE n = 2
  BY <1>3, <1>7, <1>8
<1>9. CASE n = 3
  <2>1. 3 \in 0 .. n /\ 3 - 1 = 2 /\ 3 # 0
    BY <1>9
  <2>2. w[3] = w[2] * 256 + b[3]
    BY <1>4, <2>1
  <2> QED
    BY <1>3, <1>7, <1>9, <2>2
<1> QED
  BY <1>1, <1>6, <1>8, <1>9

LEMMA Powers ==
    /\ 2 ^ 0 = 1 /\ 2 ^ 2 = 4 /\ 2 ^ 4 = 16 /\ 2 ^ 6 = 64 /\ 2 ^ 10 = 1024 /\ 2 ^ 12 = 4096
    /\ 2 ^ 18 = 262144
    /\ 64 ^ 0 = 1 /\ 64 ^ 1 = 64 /\ 64 ^ 2 = 4096 /\ 64 ^ 3 = 262144
  OBVIOUS

(* The characters of a tail. *)
LEMMA TailShape ==
    ASSUME NEW b \in Frame, Len(b) \in 1 .. 3, NEW w, w = Word(b), NEW T, T = Base64Tail(b)
    PROVE  /\ DOMAIN T = 1 .. 4 /\ Len(T) = 4 /\ \E S : T \in Seq(S)
           /\ \A i \in 1 .. Len(b) + 1 : T[i] = Shifted(w, 8 * Len(b) - 6 * (i - 1))
           /\ \A i \in Len(b) + 2 .. 4 : T[i] = 64
<1>1. PICK shift, n : shift = 8 * Len(b) /\ n = (shift + 5) \div 6
  OBVIOUS
<1>2. /\ Len(b) \in 1 .. 3 /\ n \in 2 .. 4
      /\ n = Len(b) + 1
  <2>1. Len(b) = 1 \/ Len(b) = 2 \/ Len(b) = 3
    OBVIOUS
  <2>2. 13 \div 6 = 2 /\ 21 \div 6 = 3 /\ 29 \div 6 = 4
    OBVIOUS
  <2>3. CASE Len(b) = 1
    <3>1. shift + 5 = 13
      BY <1>1, <2>3
    <3> QED
      BY <1>1, <2>2, <2>3, <3>1
  <2>4. CASE Len(b) = 2
    <3>1. shift + 5 = 21
      BY <1>1, <2>4
    <3> QED
      BY <1>1, <2>2, <2>4, <3>1
  <2>5. CASE Len(b) = 3
    <3>1. shift + 5 = 29
      BY <1>1, <2>5
    <3> QED
      BY <1>1, <2>2, <2>5, <3>1
  <2> QED
    BY <2>1, <2>3, <2>4, <2>5
<1>3. PICK chars : chars = [i \in 1 .. n |-> Shifted(w, shift - 6 * (i - 1))]
  OBVIOUS
<1>4. PICK S : S = {chars[i] : i \in 1 .. n} \cup {64}
  OBVIOUS
<1>5. chars \in Seq(S) /\ Len(chars) = n
  <2>1. chars = [i \in 1 .. n |-> chars[i]]
    BY <1>3, Zenon
  <2>2. \A i \in 1 .. n : chars[i] \in S
    BY <1>4, Zenon
  <2>3. chars \in [1 .. n -> S]
    BY <2>1, <2>2, Zenon
  <2>4. n \in Nat
    BY <1>2
  <2> QED
    BY <2>3, <2>4
<1>6. PICK pad : pad = [i \in 1 .. 4 - n |-> 64]
  OBVIOUS
<1>7. pad \in Seq(S) /\ Len(pad) = 4 - n /\ \A i \in 1 .. 4 - n : pad[i] = 64
  <2>1. 64 \in S
    BY <1>4
  <2>2. PICK m \in Nat : m = 4 - n
    BY <1>2
  <2>3. pad \in [1 .. m -> S] /\ \A i \in 1 .. m : pad[i] = 64
    BY <1>6, <2>1, <2>2
  <2>4. pad \in Seq(S) /\ Len(pad) = m
    BY <2>3
  <2> QED
    BY <2>2, <2>3, <2>4
<1>8. T = chars \o pad
  <2>1. b # <<>>
    <3>1. Len(<<>>) = 0
      OBVIOUS
    <3> QED
      BY <1>2, <3>1
  <2>2. Base64Tail(b) = chars \o [i \in 1 .. 4 - Len(chars) |-> 64]
    BY <1>1, <1>3, <2>1 DEF Base64Tail
  <2>3. Base64Tail(b) = chars \o pad
    BY <1>5, <1>6, <2>2
  <2> QED
    BY <2>3
<1>9. /\ T \in Seq(S) /\ Len(T) = 4 /\ DOMAIN T = 1 .. 4
      /\ \A i \in 1 .. n : T[i] = Shifted(w, shift - 6 * (i - 1))
      /\ \A i \in n + 1 .. 4 : T[i] = 64
  <2>1. /\ T \in Seq(S) /\ Len(T) = Len(chars) + Len(pad)
        /\ \A i \in 1 .. Len(chars) : T[i] = chars[i]
        /\ \A i \in Len(chars) + 1 .. Len(chars) + Len(pad) : T[i] = pad[i - Len(chars)]
    BY <1>5, <1>7, <1>8
  <2>2. \A i \in 1 .. n : T[i] = chars[i]
    BY <1>5, <2>1
  <2>3. \A i \in n + 1 .. 4 : T[i] = 64
    <3> SUFFICES ASSUME NEW i \in n + 1 .. 4 PROVE T[i] = 64
      OBVIOUS
    <3>1. i - n \in 1 .. 4 - n /\ i \in Len(chars) + 1 .. Len(chars) + Len(pad)
      BY <1>2, <1>5, <1>7
    <3>2. T[i] = pad[i - n]
      BY <1>5, <2>1, <3>1
    <3> QED
      BY <1>7, <3>1, <3>2
  <2>4. Len(T) = 4
    BY <1>2, <1>5, <1>7, <2>1
  <2>5. DOMAIN T = 1 .. 4
    <3>1. T \in Seq(S)
      BY <2>1
    <3>2. DOMAIN T = 1 .. Len(T)
      BY <3>1
    <3> QED
      BY <2>4, <3>2
  <2>6. \A i \in 1 .. n : chars[i] = Shifted(w, shift - 6 * (i - 1))
    BY <1>3, Zenon
  <2> QED
    BY <2>1, <2>2, <2>3, <2>4, <2>5, <2>6
<1>10. /\ \A i \in 1 .. Len(b) + 1 : T[i] = Shifted(w, 8 * Len(b) - 6 * (i - 1))
       /\ \A i \in Len(b) + 2 .. 4 : T[i] = 64
  <2>1. Len(b) + 1 = n /\ Len(b) + 2 = n + 1 /\ 8 * Len(b) = shift
    BY <1>1, <1>2
  <2> QED
    BY <1>9, <2>1
<1> QED
  BY <1>9, <1>10

(* The word of three bytes, its bytes and its characters; the word of four
   characters. *)
OfBytes(x, y, z) == (x * 256 + y) * 256 + z
Top(w) == w \div 65536
Mid(w) == (w \div 256) % 256
Low(w) == w % 256
Six(w, r) == (w \div 64 ^ (4 - r)) % 64
Join(p, q, r, t) == (p % 64) * 262144 + (q % 64) * 4096 + (r % 64) * 64 + (t % 64)
Short(w) == w \in Nat /\ w < 16777216

SixesOf(w) ==
    /\ Six(w, 1) = (w \div 262144) % 64 /\ Six(w, 2) = (w \div 4096) % 64
    /\ Six(w, 3) = (w \div 64) % 64 /\ Six(w, 4) = w % 64

LEMMA SixAre ==
    ASSUME NEW w \in Nat
    PROVE  SixesOf(w)
<1>1. 4 - 1 = 3 /\ 4 - 2 = 2 /\ 4 - 3 = 1 /\ 4 - 4 = 0 /\ w \div 1 = w
  OBVIOUS
<1>2. /\ Six(w, 1) = (w \div 262144) % 64 /\ Six(w, 2) = (w \div 4096) % 64
      /\ Six(w, 3) = (w \div 64) % 64 /\ Six(w, 4) = w % 64
  BY <1>1, Powers, SMT DEF Six
<1> QED
  BY <1>2, SMT DEF SixesOf

(* Six bits at a time a word is what it was. *)
LEMMA SixBits ==
    ASSUME NEW w, Short(w)
    PROVE  Join(Six(w, 1), Six(w, 2), Six(w, 3), Six(w, 4)) = w
<1>z. w \in Nat /\ w < 16777216
  BY SMT DEF Short
<1>0. \A x \in Nat : x \div 64 \in Nat /\ x % 64 \in 0 .. 63 /\ x = 64 * (x \div 64) + (x % 64)
  BY SMT
<1>a. PICK q1, r1 : q1 = w \div 64 /\ r1 = w % 64
  OBVIOUS
<1>b. q1 \in Nat /\ r1 \in 0 .. 63 /\ w = 64 * q1 + r1
  BY <1>0, <1>z, <1>a, SMT
<1>c. PICK q2, r2 : q2 = q1 \div 64 /\ r2 = q1 % 64
  OBVIOUS
<1>d. q2 \in Nat /\ r2 \in 0 .. 63 /\ q1 = 64 * q2 + r2
  BY <1>0, <1>b, <1>c, SMT
<1>e. PICK q3, r3 : q3 = q2 \div 64 /\ r3 = q2 % 64
  OBVIOUS
<1>f. q3 \in Nat /\ r3 \in 0 .. 63 /\ q2 = 64 * q3 + r3
  BY <1>0, <1>d, <1>e, SMT
<1>1. /\ q1 \in Nat /\ q2 \in Nat /\ q3 \in Nat /\ r1 \in 0 .. 63 /\ r2 \in 0 .. 63 /\ r3 \in 0 .. 63
      /\ w = 64 * q1 + r1 /\ q1 = 64 * q2 + r2 /\ q2 = 64 * q3 + r3
  BY <1>b, <1>d, <1>f
<1>2. q3 \in 0 .. 63
  BY <1>1, <1>z, SMT
<1>3. w % 64 = r1 /\ w \div 64 = q1
  BY <1>1
<1>4. w \div 4096 = q2 /\ q1 % 64 = r2
  BY <1>1
<1>5. w \div 262144 = q3 /\ q2 % 64 = r3
  BY <1>1
<1>6. q3 % 64 = q3 /\ r1 % 64 = r1 /\ r2 % 64 = r2 /\ r3 % 64 = r3
  BY <1>1, <1>2
<1>s. /\ Six(w, 1) = (w \div 262144) % 64 /\ Six(w, 2) = (w \div 4096) % 64
      /\ Six(w, 3) = (w \div 64) % 64 /\ Six(w, 4) = w % 64
  <2>1. w \in Nat
    BY <1>z
  <2>2. SixesOf(w)
    BY <2>1, SixAre
  <2> QED
    BY <2>2, SMT DEF SixesOf
<1>7. /\ Six(w, 1) = q3 % 64 /\ Six(w, 2) = r3 /\ Six(w, 3) = r2 /\ Six(w, 4) = r1
  BY <1>s, <1>3, <1>4, <1>5, SMT
<1>8. w = q3 * 262144 + r3 * 4096 + r2 * 64 + r1
  BY <1>1, SMT
<1>9. Six(w, 1) = q3
  BY <1>6, <1>7
<1> QED
  BY <1>6, <1>7, <1>8, <1>9, SMT DEF Join

(* And so are its bytes. *)
LEMMA EightBits ==
    ASSUME NEW a \in 0 .. 255, NEW c \in 0 .. 255, NEW d \in 0 .. 255, NEW w, w = OfBytes(a, c, d)
    PROVE  Short(w) /\ Top(w) = a /\ Mid(w) = c /\ Low(w) = d
<1>0. w = (a * 256 + c) * 256 + d
  BY SMT DEF OfBytes
<1>1. w \in Nat /\ w < 16777216
  BY <1>0, SMT
<1>2. w % 256 = d /\ w \div 256 = a * 256 + c
  BY <1>0, SMT
<1>3. (a * 256 + c) % 256 = c
  BY SMT
<1>4. w \div 65536 = a
  BY <1>0, SMT
<1> QED
  BY <1>1, <1>2, <1>3, <1>4, SMT DEF Short, Top, Mid, Low

(* A word of one byte, or of two, filled up to three. *)
LEMMA OneByte ==
    ASSUME NEW a \in 0 .. 255, NEW w, w = OfBytes(a, 0, 0)
    PROVE  /\ Six(w, 1) = (a \div 4) % 64 /\ Six(w, 2) = (a * 16) % 64
           /\ Six(w, 3) = 0 /\ Six(w, 4) = 0
<1>1. w \in Nat /\ w = a * 65536
  BY SMT DEF OfBytes
<1>2. w \div 64 = a * 1024 /\ w \div 4096 = a * 16 /\ w % 64 = 0 /\ (a * 1024) % 64 = 0
  BY <1>1, SMT
<1>3. w \div 262144 = a \div 4
  <2>1. PICK q, r : q = a \div 4 /\ r = a % 4
    OBVIOUS
  <2>2. q \in Nat /\ r \in 0 .. 3 /\ a = 4 * q + r
    BY <2>1, SMT
  <2>3. w = 262144 * q + 65536 * r
    BY <1>1, <2>2, SMT
  <2>4. w \div 262144 = q
    BY <2>2, <2>3, SMT
  <2> QED
    BY <2>1, <2>4, SMT
<1>s. /\ Six(w, 1) = (w \div 262144) % 64 /\ Six(w, 2) = (w \div 4096) % 64
      /\ Six(w, 3) = (w \div 64) % 64 /\ Six(w, 4) = w % 64
  <2>1. w \in Nat
    BY <1>1
  <2>2. SixesOf(w)
    BY <2>1, SixAre
  <2> QED
    BY <2>2, SMT DEF SixesOf
<1> QED
  BY <1>s, <1>2, <1>3, SMT

OfTwo(x, y) == x * 256 + y
SixesOfTwo(w, u) ==
    /\ Six(w, 1) = (u \div 1024) % 64 /\ Six(w, 2) = (u \div 16) % 64
    /\ Six(w, 3) = (u * 4) % 64 /\ Six(w, 4) = 0

LEMMA TwoBytes ==
    ASSUME NEW a \in 0 .. 255, NEW c \in 0 .. 255, NEW w, w = OfBytes(a, c, 0),
           NEW u, u = OfTwo(a, c)
    PROVE  SixesOfTwo(w, u)
<1>1. u \in Nat /\ w \in Nat /\ w = u * 256
  BY SMT DEF OfBytes, OfTwo
<1>2. w \div 64 = u * 4 /\ w % 64 = 0
  BY <1>1, SMT
<1>3. w \div 262144 = u \div 1024
  <2>1. PICK q, r : q = u \div 1024 /\ r = u % 1024
    OBVIOUS
  <2>2. q \in Nat /\ r \in 0 .. 1023 /\ u = 1024 * q + r
    <3>1. \A v \in Nat : v \div 1024 \in Nat /\ v % 1024 \in 0 .. 1023 /\ v = 1024 * (v \div 1024) + (v % 1024)
      BY SMT
    <3>2. u \in Nat
      BY <1>1
    <3>3. u \div 1024 \in Nat /\ u % 1024 \in 0 .. 1023 /\ u = 1024 * (u \div 1024) + (u % 1024)
      BY <3>1, <3>2, SMTT(30)
    <3>4. q = u \div 1024 /\ r = u % 1024
      BY <2>1
    <3> QED
      BY <3>3, <3>4, SMT
  <2>3. w = 262144 * q + 256 * r
    BY <1>1, <2>2, SMT
  <2>4. w \div 262144 = q
    BY <2>2, <2>3, SMT
  <2> QED
    BY <2>1, <2>4, SMT
<1>4. w \div 4096 = u \div 16
  <2>1. PICK q, r : q = u \div 16 /\ r = u % 16
    OBVIOUS
  <2>2. q \in Nat /\ r \in 0 .. 15 /\ u = 16 * q + r
    <3>1. \A v \in Nat : v \div 16 \in Nat /\ v % 16 \in 0 .. 15 /\ v = 16 * (v \div 16) + (v % 16)
      BY SMT
    <3>2. u \in Nat
      BY <1>1
    <3>3. u \div 16 \in Nat /\ u % 16 \in 0 .. 15 /\ u = 16 * (u \div 16) + (u % 16)
      BY <3>1, <3>2, SMT
    <3>4. q = u \div 16 /\ r = u % 16
      BY <2>1
    <3> QED
      BY <3>3, <3>4, SMT
  <2>3. w = 4096 * q + 256 * r
    BY <1>1, <2>2, SMT
  <2>4. w \div 4096 = q
    BY <2>2, <2>3, SMT
  <2> QED
    BY <2>1, <2>4, SMT
<1>s. /\ Six(w, 1) = (w \div 262144) % 64 /\ Six(w, 2) = (w \div 4096) % 64
      /\ Six(w, 3) = (w \div 64) % 64 /\ Six(w, 4) = w % 64
  <2>1. w \in Nat
    BY <1>1
  <2>2. SixesOf(w)
    BY <2>1, SixAre
  <2> QED
    BY <2>2, SMT DEF SixesOf
<1> QED
  BY <1>s, <1>2, <1>3, <1>4, SMT DEF SixesOfTwo

LEMMA Thirds ==
    ASSUME NEW n \in Nat \ {0}
    PROVE  (n - 1) \div 3 \in Nat /\ n - 3 * ((n - 1) \div 3) \in 1 .. 3
  BY SMT

LEMMA Quarters ==
    ASSUME NEW i \in Nat \ {0}
    PROVE  /\ (i - 1) \div 4 \in Nat /\ 1 + ((i - 1) % 4) \in 1 .. 4
           /\ i = 4 * ((i - 1) \div 4) + (1 + ((i - 1) % 4))
  BY SMT

LEMMA PartIs ==
    ASSUME NEW b \in Frame, NEW i \in 1 .. Len(b), NEW k \in i .. Len(b), NEW p, p = SubSeq(b, i, k)
    PROVE  p \in Frame /\ Len(p) = k - i + 1 /\ \A j \in 1 .. k - i + 1 : p[j] = b[i + j - 1]
<1>1. PICK B : B = 0 .. 255
  OBVIOUS
<1>2. b \in Seq(B) /\ Len(b) \in Nat
  BY <1>1 DEF Frame
<1>3. p \in Seq(B) /\ Len(p) = k - i + 1 /\ \A j \in 1 .. k - i + 1 : p[j] = b[i + j - 1]
  BY <1>2
<1> QED
  BY <1>1, <1>3 DEF Frame

LEMMA WordNat ==
    ASSUME NEW p \in Frame, Len(p) \in 1 .. 3
    PROVE  Word(p) \in Nat
<1>1. \A i \in 1 .. Len(p) : p[i] \in Nat
  <2>1. \A x \in 0 .. 255 : x \in Nat
    BY SMT
  <2>2. \A i \in 1 .. Len(p) : p[i] \in 0 .. 255
    BY FrameIs
  <2> QED
    BY <2>1, <2>2
<1>2. Len(p) = 1 \/ Len(p) = 2 \/ Len(p) = 3
  OBVIOUS
<1>3. CASE Len(p) = 1
  <2>1. p[1] \in Nat /\ Word(p) = p[1]
    BY <1>1, <1>3, WordIs, SMT
  <2> QED
    BY <2>1
<1>4. CASE Len(p) = 2
  <2>1. p[1] \in Nat /\ p[2] \in Nat
    BY <1>1, <1>4, SMT
  <2>2. Word(p) = p[1] * 256 + p[2]
    BY <1>4, WordIs, SMT
  <2> QED
    BY <2>1, <2>2, SMT
<1>5. CASE Len(p) = 3
  <2>1. p[1] \in Nat /\ p[2] \in Nat /\ p[3] \in Nat
    BY <1>1, <1>5, SMT
  <2>2. Word(p) = (p[1] * 256 + p[2]) * 256 + p[3]
    BY <1>5, WordIs, SMT
  <2> QED
    BY <2>1, <2>2, SMT
<1> QED
  BY <1>2, <1>3, <1>4, <1>5

(* The characters of an encoding. *)
Encoded(b, n, G, E) ==
    /\ G \in Nat /\ n \in Nat /\ n - 3 * G \in 1 .. 3
    /\ DOMAIN E = 1 .. 4 * G + 4 /\ Len(E) = 4 * G + 4
    /\ \A g \in 1 .. G : \A r \in 1 .. 4 :
          E[4 * (g - 1) + r] = Six(Word(SubSeq(b, 3 * g - 2, 3 * g)), r)
    /\ \A r \in 1 .. 4 : E[4 * G + r] = Base64Tail(SubSeq(b, 3 * G + 1, n))[r]

LEMMA EncodeIs ==
    ASSUME NEW b \in Frame, Len(b) > 0
    PROVE  Encoded(b, Len(b), (Len(b) - 1) \div 3, base64_encode(b))
<1>0. PICK n, G, E : n = Len(b) /\ G = (n - 1) \div 3 /\ E = base64_encode(b)
  OBVIOUS
<1>1. n \in Nat /\ G \in Nat /\ n - 3 * G \in 1 .. 3
  BY <1>0, FrameIs, Thirds
<1> DEFINE Group(g) == [i \in 1 .. 4 |-> (Word(SubSeq(b, 3 * g - 2, 3 * g)) \div 64 ^ (4 - i)) % 64]
<1>2. PICK H : H = [i \in 1 .. 4 * G |-> Group((i - 1) \div 4 + 1)[1 + ((i - 1) % 4)]]
  OBVIOUS
<1>3. PICK T : T = Base64Tail(SubSeq(b, 3 * G + 1, n))
  OBVIOUS
<1>4. E = H \o T
  <2>1. b # <<>>
    <3>1. Len(<<>>) = 0
      OBVIOUS
    <3> QED
      BY <1>0, <1>1, <3>1
  <2>2. base64_encode(b) = [i \in 1 .. 4 * G |-> Group((i - 1) \div 4 + 1)[1 + ((i - 1) % 4)]]
                           \o Base64Tail(SubSeq(b, 3 * G + 1, n))
    BY <1>0, <2>1 DEF base64_encode
  <2> QED
    BY <1>0, <1>2, <1>3, <2>2
<1>5. DOMAIN T = 1 .. 4 /\ Len(T) = 4 /\ \E S : T \in Seq(S)
  <2> HIDE DEF Group
  <2>0. PICK h \in Int : h = 3 * G + 1
    BY <1>1
  <2>1. PICK p : p = SubSeq(b, h, n)
    OBVIOUS
  <2>2. h \in 1 .. Len(b) /\ n \in h .. Len(b) /\ n - h + 1 \in 1 .. 3
    BY <1>0, <1>1, <2>0
  <2>3. p \in Frame /\ Len(p) = n - h + 1
    BY <2>1, <2>2, PartIs
  <2>4. Len(p) \in 1 .. 3
    BY <2>2, <2>3
  <2>5. PICK w : w = Word(p)
    OBVIOUS
  <2>6. w \in Nat
    BY <2>3, <2>4, <2>5, WordNat
  <2>7. T = Base64Tail(p)
    BY <1>3, <2>0, <2>1
  <2> QED
    BY <2>3, <2>4, <2>5, <2>6, <2>7, TailShape, ZenonT(60)
<1>6. PICK S : T \in Seq(S)
  BY <1>5
<1>7. PICK U : U = S \cup {H[i] : i \in 1 .. 4 * G}
  OBVIOUS
<1>8. PICK m \in Nat : m = 4 * G
  BY <1>1
<1>9. H \in Seq(U) /\ Len(H) = m
  <2> HIDE DEF Group
  <2>1. H = [i \in 1 .. m |-> H[i]]
    BY <1>2, <1>8, Zenon
  <2>2. \A i \in 1 .. m : H[i] \in U
    BY <1>7, <1>8, Zenon
  <2>3. H \in [1 .. m -> U]
    BY <2>1, <2>2, Zenon
  <2> QED
    BY <2>3
<1>10. T \in Seq(U)
  BY <1>6, <1>7
<1>11. /\ E \in Seq(U) /\ Len(E) = m + 4
       /\ \A i \in 1 .. m : E[i] = H[i]
       /\ \A i \in m + 1 .. m + 4 : E[i] = T[i - m]
  <2>1. /\ E \in Seq(U) /\ Len(E) = Len(H) + Len(T)
        /\ \A i \in 1 .. Len(H) : E[i] = H[i]
        /\ \A i \in Len(H) + 1 .. Len(H) + Len(T) : E[i] = T[i - Len(H)]
    <3>0. \A X : \A x, y \in Seq(X) : x \o y \in Seq(X) /\ Len(x \o y) = Len(x) + Len(y)
      OBVIOUS
    <3>1. E \in Seq(U) /\ Len(E) = Len(H) + Len(T)
      BY <1>4, <1>9, <1>10, <3>0
    <3>2. \A i \in 1 .. Len(H) : E[i] = H[i]
      BY <1>4, <1>9, <1>10
    <3>3. \A i \in Len(H) + 1 .. Len(H) + Len(T) : E[i] = T[i - Len(H)]
      BY <1>4, <1>9, <1>10
    <3> QED
      BY <3>1, <3>2, <3>3
  <2>2. Len(H) = m /\ Len(T) = 4
    BY <1>5, <1>9
  <2> QED
    BY <2>1, <2>2
<1>12. DOMAIN E = 1 .. m + 4
  <2>1. DOMAIN E = 1 .. Len(E)
    BY <1>11
  <2> QED
    BY <1>11, <2>1
<1>13. ASSUME NEW g \in 1 .. G, NEW r \in 1 .. 4
       PROVE  E[4 * (g - 1) + r] = Six(Word(SubSeq(b, 3 * g - 2, 3 * g)), r)
  <2>1. PICK i : i = 4 * (g - 1) + r
    OBVIOUS
  <2>2. i \in 1 .. m /\ (i - 1) \div 4 = g - 1 /\ (i - 1) % 4 = r - 1
    <3>1. g \in Int /\ r \in Int /\ g >= 1 /\ g <= G /\ r >= 1 /\ r <= 4
      BY <1>1
    <3>2. i \in 1 .. m
      BY <1>1, <1>8, <2>1, <3>1
    <3>3. i - 1 = 4 * (g - 1) + (r - 1)
      BY <2>1, <3>1
    <3>4. PICK q, k : q = g - 1 /\ k = r - 1
      OBVIOUS
    <3>5. q \in Nat /\ k \in 0 .. 3 /\ i - 1 = 4 * q + k
      BY <3>1, <3>3, <3>4
    <3>6. (i - 1) \div 4 = q /\ (i - 1) % 4 = k
      BY <3>5
    <3> QED
      BY <3>2, <3>4, <3>6
  <2>3. (i - 1) \div 4 + 1 = g /\ 1 + ((i - 1) % 4) = r
    BY <1>1, <2>2
  <2>4. E[i] = Group((i - 1) \div 4 + 1)[1 + ((i - 1) % 4)]
    <3>1. E[i] = H[i]
      BY <1>11, <2>2
    <3>2. H[i] = Group((i - 1) \div 4 + 1)[1 + ((i - 1) % 4)]
      <4> HIDE DEF Group
      <4> QED
        BY <1>2, <1>8, <2>2
    <3> QED
      BY <3>1, <3>2
  <2>5. E[i] = Group(g)[r]
    <3> HIDE DEF Group
    <3> QED
      BY <2>3, <2>4
  <2> QED
    BY <2>1, <2>5 DEF Six
<1>14. ASSUME NEW r \in 1 .. 4 PROVE E[4 * G + r] = T[r]
  <2>1. m + r \in m + 1 .. m + 4 /\ (m + r) - m = r
    BY <1>8
  <2> QED
    BY <1>8, <1>11, <2>1
<1> QED
  <2> HIDE DEF Group
  <2>1. Encoded(b, n, G, E)
    BY <1>1, <1>3, <1>8, <1>11, <1>12, <1>13, <1>14 DEF Encoded
  <2> QED
    BY <1>0, <2>1

(* The word of three bytes of b. *)
LEMMA WordOf ==
    ASSUME NEW b \in Frame, NEW i \in 1 .. Len(b), i + 2 \in i .. Len(b)
    PROVE  Word(SubSeq(b, i, i + 2)) = OfBytes(b[i], b[i + 1], b[i + 2])
<1>0. PICK k, w : k = i + 2 /\ w = Word(SubSeq(b, i, k))
  OBVIOUS
<1>1. PICK p : p = SubSeq(b, i, k)
  OBVIOUS
<1>2. i \in Int /\ k \in Int /\ i + 1 - 1 = i /\ i + 2 - 1 = i + 1 /\ i + 3 - 1 = i + 2
  <2>1. Len(b) \in Nat
    BY FrameIs
  <2> QED
    BY <1>0, <2>1
<1>a. k \in i .. Len(b)
  BY <1>0
<1>3. p \in Frame /\ Len(p) = k - i + 1 /\ \A j \in 1 .. k - i + 1 : p[j] = b[i + j - 1]
  BY <1>1, <1>a, PartIs
<1>4. k - i + 1 = 3 /\ Len(p) = 3
  BY <1>0, <1>2, <1>3
<1>5. w = (p[1] * 256 + p[2]) * 256 + p[3]
  <2>1. w = IF Len(p) = 1 THEN p[1]
            ELSE IF Len(p) = 2 THEN p[1] * 256 + p[2]
            ELSE (p[1] * 256 + p[2]) * 256 + p[3]
    <3>1. Len(p) \in 1 .. 3
      BY <1>4
    <3> QED
      BY <1>0, <1>1, <1>3, <3>1, WordIs, ZenonT(60)
  <2> QED
    BY <1>4, <2>1
<1>6. p[1] = b[i] /\ p[2] = b[i + 1] /\ p[3] = b[i + 2]
  BY <1>2, <1>3, <1>4
<1> QED
  BY <1>0, <1>5, <1>6 DEF OfBytes

(* The bytes of b and, behind its end, zeros; three of them as a word. *)
Said(b, j) == IF j <= Len(b) THEN b[j] ELSE 0
Block(b, g) == OfBytes(Said(b, 3 * g - 2), Said(b, 3 * g - 1), Said(b, 3 * g))

(* The characters of a tail are those of the word that its bytes begin. *)
TailOf(n, T, w) ==
    /\ \A r \in 1 .. n + 1 : T[r] = Six(w, r)
    /\ \A r \in n + 2 .. 4 : T[r] = 64 /\ Six(w, r) = 0

LEMMA TailSix ==
    ASSUME NEW b \in Frame, Len(b) \in 1 .. 3
    PROVE  TailOf(Len(b), Base64Tail(b), OfBytes(Said(b, 1), Said(b, 2), Said(b, 3)))
<1>0. PICK x, y, z, w, T :
         /\ x = Said(b, 1) /\ y = Said(b, 2) /\ z = Said(b, 3)
         /\ w = OfBytes(x, y, z) /\ T = Base64Tail(b)
  OBVIOUS
<1>b. x = b[1] /\ y = (IF Len(b) > 1 THEN b[2] ELSE 0) /\ z = (IF Len(b) > 2 THEN b[3] ELSE 0)
  BY <1>0 DEF Said
<1>1. PICK u, n : u = Word(b) /\ n = Len(b)
  OBVIOUS
<1>2. /\ \A i \in 1 .. n + 1 : T[i] = Shifted(u, 8 * n - 6 * (i - 1))
      /\ \A i \in n + 2 .. 4 : T[i] = 64
  <2>1. u = Word(b)
    BY <1>1
  <2>2. /\ \A i \in 1 .. Len(b) + 1 : T[i] = Shifted(u, 8 * Len(b) - 6 * (i - 1))
        /\ \A i \in Len(b) + 2 .. 4 : T[i] = 64
    BY <1>0, <2>1, TailShape
  <2>3. n = Len(b)
    BY <1>1
  <2> QED
    BY <2>2, <2>3
<1>3. u = IF n = 1 THEN b[1] ELSE IF n = 2 THEN b[1] * 256 + b[2] ELSE (b[1] * 256 + b[2]) * 256 + b[3]
  BY <1>1, WordIs
<1>4. \A i \in 1 .. n : b[i] \in 0 .. 255
  BY <1>1, FrameIs
<1>5. n = 1 \/ n = 2 \/ n = 3
  BY <1>1
<1>6. u \in Nat
  BY <1>1, WordNat
<1>7. 0 \in 0 .. 255
  OBVIOUS
<1>8. /\ 6 - 2 = 4 /\ 6 - 4 = 2 /\ 6 - 6 = 0 /\ 8 - 6 = 2 /\ 10 - 6 = 4 /\ 12 - 6 = 6
      /\ 16 - 6 = 10 /\ 18 - 6 = 12 /\ 24 - 6 = 18
  OBVIOUS
<1>9. CASE n = 1
  <2>1. x \in 0 .. 255 /\ y = 0 /\ z = 0 /\ u = x
    <3>1. 1 \in 1 .. n /\ ~(n > 1) /\ ~(n > 2)
      BY <1>9
    <3> QED
      BY <1>b, <1>1, <1>3, <1>4, <1>9, <3>1
  <2>2. T[1] = Shifted(u, 8) /\ T[2] = Shifted(u, 2) /\ T[3] = 64 /\ T[4] = 64
    <3>1. /\ 1 \in 1 .. n + 1 /\ 2 \in 1 .. n + 1 /\ 3 \in n + 2 .. 4 /\ 4 \in n + 2 .. 4
          /\ 8 * n - 6 * (1 - 1) = 8 /\ 8 * n - 6 * (2 - 1) = 2
      BY <1>9
    <3> QED
      BY <1>2, <3>1
  <2>3. Shifted(u, 8) = (u \div 2 ^ 2) % 64 /\ Shifted(u, 2) = (u * 2 ^ 4) % 64
    BY <1>8 DEF Shifted
  <2>4. T[1] = (x \div 4) % 64 /\ T[2] = (x * 16) % 64
    BY <2>1, <2>2, <2>3, Powers, SMT
  <2>5. w = OfBytes(x, 0, 0)
    BY <1>0, <2>1
  <2>6. /\ Six(w, 1) = (x \div 4) % 64 /\ Six(w, 2) = (x * 16) % 64
        /\ Six(w, 3) = 0 /\ Six(w, 4) = 0
    BY <2>1, <2>5, OneByte
  <2>7. /\ \A r \in 1 .. n + 1 : r = 1 \/ r = 2
        /\ \A r \in n + 2 .. 4 : r = 3 \/ r = 4
    BY <1>9
  <2>8. \A r \in 1 .. n + 1 : T[r] = Six(w, r)
    BY <2>4, <2>6, <2>7
  <2>9. \A r \in n + 2 .. 4 : T[r] = 64 /\ Six(w, r) = 0
    BY <2>2, <2>6, <2>7
  <2>11. n = Len(b)
    BY <1>1
  <2> QED
    BY <1>0, <2>8, <2>9, <2>11 DEF TailOf
<1>10. CASE n = 2
  <2>1. x \in 0 .. 255 /\ y \in 0 .. 255 /\ z = 0 /\ u = x * 256 + y
    <3>1. 1 \in 1 .. n /\ 2 \in 1 .. n /\ n > 1 /\ ~(n > 2) /\ n # 1
      BY <1>10
    <3>2. y = b[2] /\ z = 0 /\ u = b[1] * 256 + b[2]
      BY <1>b, <1>1, <1>3, <1>10, <3>1
    <3> QED
      BY <1>b, <1>4, <3>1, <3>2
  <2>2. T[1] = Shifted(u, 16) /\ T[2] = Shifted(u, 10) /\ T[3] = Shifted(u, 4) /\ T[4] = 64
    <3>1. /\ 1 \in 1 .. n + 1 /\ 2 \in 1 .. n + 1 /\ 3 \in 1 .. n + 1 /\ 4 \in n + 2 .. 4
          /\ 8 * n - 6 * (1 - 1) = 16 /\ 8 * n - 6 * (2 - 1) = 10 /\ 8 * n - 6 * (3 - 1) = 4
      BY <1>10
    <3> QED
      BY <1>2, <3>1
  <2>3. /\ Shifted(u, 16) = (u \div 2 ^ 10) % 64 /\ Shifted(u, 10) = (u \div 2 ^ 4) % 64
        /\ Shifted(u, 4) = (u * 2 ^ 2) % 64
    BY <1>8 DEF Shifted
  <2>4. T[1] = (u \div 1024) % 64 /\ T[2] = (u \div 16) % 64 /\ T[3] = (u * 4) % 64
    BY <2>2, <2>3, Powers, SMT
  <2>5. w = OfBytes(x, y, 0)
    <3>1. z = 0
      BY <2>1
    <3> QED
      BY <1>0, <3>1
  <2>6. /\ Six(w, 1) = (u \div 1024) % 64 /\ Six(w, 2) = (u \div 16) % 64
        /\ Six(w, 3) = (u * 4) % 64 /\ Six(w, 4) = 0
    <3>1. u = OfTwo(x, y)
      BY <2>1 DEF OfTwo
    <3>2. x \in 0 .. 255 /\ y \in 0 .. 255
      BY <2>1
    <3>3. SixesOfTwo(w, u)
      BY <2>5, <3>1, <3>2, TwoBytes
    <3> QED
      BY <3>3 DEF SixesOfTwo
  <2>7. /\ \A r \in 1 .. n + 1 : r = 1 \/ r = 2 \/ r = 3
        /\ \A r \in n + 2 .. 4 : r = 4
    BY <1>10
  <2>8. \A r \in 1 .. n + 1 : T[r] = Six(w, r)
    BY <2>4, <2>6, <2>7
  <2>9. \A r \in n + 2 .. 4 : T[r] = 64 /\ Six(w, r) = 0
    BY <2>2, <2>6, <2>7
  <2>11. n = Len(b)
    BY <1>1
  <2> QED
    BY <1>0, <2>8, <2>9, <2>11 DEF TailOf
<1>11. CASE n = 3
  <2>1. x \in 0 .. 255 /\ y \in 0 .. 255 /\ z \in 0 .. 255 /\ u = (x * 256 + y) * 256 + z
    <3>1. 1 \in 1 .. n /\ 2 \in 1 .. n /\ 3 \in 1 .. n /\ n > 1 /\ n > 2 /\ n # 1 /\ n # 2
      BY <1>11
    <3>2. y = b[2] /\ z = b[3] /\ u = (b[1] * 256 + b[2]) * 256 + b[3]
      BY <1>b, <1>1, <1>3, <1>11, <3>1
    <3> QED
      BY <1>b, <1>4, <3>1, <3>2
  <2>2. T[1] = Shifted(u, 24) /\ T[2] = Shifted(u, 18) /\ T[3] = Shifted(u, 12) /\ T[4] = Shifted(u, 6)
    <3>1. /\ 1 \in 1 .. n + 1 /\ 2 \in 1 .. n + 1 /\ 3 \in 1 .. n + 1 /\ 4 \in 1 .. n + 1
          /\ 8 * n - 6 * (1 - 1) = 24 /\ 8 * n - 6 * (2 - 1) = 18 /\ 8 * n - 6 * (3 - 1) = 12
          /\ 8 * n - 6 * (4 - 1) = 6
      BY <1>11
    <3> QED
      BY <1>2, <3>1
  <2>3. /\ Shifted(u, 24) = (u \div 2 ^ 18) % 64 /\ Shifted(u, 18) = (u \div 2 ^ 12) % 64
        /\ Shifted(u, 12) = (u \div 2 ^ 6) % 64 /\ Shifted(u, 6) = (u * 2 ^ 0) % 64
    BY <1>8 DEF Shifted
  <2>4. u * 1 = u
    BY <1>6
  <2>5. w = u
    BY <1>0, <2>1, SMT DEF OfBytes
  <2>6. SixesOf(u)
    BY <1>6, SixAre
  <2>7. T[1] = Six(w, 1) /\ T[2] = Six(w, 2) /\ T[3] = Six(w, 3) /\ T[4] = Six(w, 4)
    BY <2>2, <2>3, <2>4, <2>5, <2>6, Powers, SMT DEF SixesOf
  <2>8. /\ \A r \in 1 .. n + 1 : r = 1 \/ r = 2 \/ r = 3 \/ r = 4
        /\ \A r \in n + 2 .. 4 : FALSE
    BY <1>11
  <2>9. \A r \in 1 .. n + 1 : T[r] = Six(w, r)
    BY <2>7, <2>8
  <2>10. \A r \in n + 2 .. 4 : T[r] = 64 /\ Six(w, r) = 0
    BY <2>8
  <2>11. n = Len(b)
    BY <1>1
  <2> QED
    BY <1>0, <2>9, <2>10, <2>11 DEF TailOf
<1> QED
  BY <1>5, <1>9, <1>10, <1>11

LEMMA SaidByte ==
    ASSUME NEW b \in Frame, NEW j \in Nat \ {0}
    PROVE  Said(b, j) \in 0 .. 255
<1>1. CASE j <= Len(b)
  <2>1. j \in 1 .. Len(b)
    BY <1>1, FrameIs
  <2> QED
    BY <1>1, <2>1, FrameIs DEF Said
<1>2. CASE ~(j <= Len(b))
  <2>1. 0 \in 0 .. 255
    OBVIOUS
  <2> QED
    BY <1>2, <2>1 DEF Said
<1> QED
  BY <1>1, <1>2

LEMMA BlockIs ==
    ASSUME NEW b \in Frame, NEW g \in Nat \ {0}, NEW w, w = Block(b, g)
    PROVE  /\ Short(w)
           /\ Top(w) = Said(b, 3 * g - 2) /\ Mid(w) = Said(b, 3 * g - 1) /\ Low(w) = Said(b, 3 * g)
<1>1. 3 * g - 2 \in Nat \ {0} /\ 3 * g - 1 \in Nat \ {0} /\ 3 * g \in Nat \ {0}
  OBVIOUS
<1>2. PICK x, y, z : x = Said(b, 3 * g - 2) /\ y = Said(b, 3 * g - 1) /\ z = Said(b, 3 * g)
  OBVIOUS
<1>3. x \in 0 .. 255 /\ y \in 0 .. 255 /\ z \in 0 .. 255
  BY <1>1, <1>2, SaidByte
<1>4. w = OfBytes(x, y, z)
  BY <1>2 DEF Block
<1>5. Short(w) /\ Top(w) = x /\ Mid(w) = y /\ Low(w) = z
  BY <1>3, <1>4, EightBits, ZenonT(60)
<1> QED
  BY <1>2, <1>5

LEMMA SixRange ==
    ASSUME NEW w, Short(w), NEW r \in 1 .. 4
    PROVE  Six(w, r) \in 0 .. 63
<1>1. w \in Nat
  BY DEF Short
<1>2. SixesOf(w)
  BY <1>1, SixAre
<1>3. \A x \in Nat : x % 64 \in 0 .. 63
  BY SMT
<1>4. w \div 262144 \in Nat /\ w \div 4096 \in Nat /\ w \div 64 \in Nat
  BY <1>1, SMT
<1>5. /\ (w \div 262144) % 64 \in 0 .. 63 /\ (w \div 4096) % 64 \in 0 .. 63
      /\ (w \div 64) % 64 \in 0 .. 63 /\ w % 64 \in 0 .. 63
  BY <1>1, <1>3, <1>4, SMT
<1>6. r = 1 \/ r = 2 \/ r = 3 \/ r = 4
  OBVIOUS
<1> QED
  BY <1>2, <1>5, <1>6, SMT DEF SixesOf

(* A character of the encoding is six bits of its block, or padding where those
   are behind the end. *)
CharOf(b, n, G, E, g, r) ==
    IF g <= G \/ r <= n - 3 * G + 1 THEN E[4 * (g - 1) + r] = Six(Block(b, g), r)
    ELSE E[4 * (g - 1) + r] = 64 /\ Six(Block(b, g), r) = 0

LEMMA CharIs ==
    ASSUME NEW b \in Frame, Len(b) > 0, NEW g \in 1 .. (Len(b) - 1) \div 3 + 1, NEW r \in 1 .. 4
    PROVE  CharOf(b, Len(b), (Len(b) - 1) \div 3, base64_encode(b), g, r)
<1>0. PICK n, G, E : n = Len(b) /\ G = (Len(b) - 1) \div 3 /\ E = base64_encode(b)
  OBVIOUS
<1>1. /\ G \in Nat /\ n \in Nat /\ n - 3 * G \in 1 .. 3
      /\ \A h \in 1 .. G : \A q \in 1 .. 4 :
            E[4 * (h - 1) + q] = Six(Word(SubSeq(b, 3 * h - 2, 3 * h)), q)
      /\ \A q \in 1 .. 4 : E[4 * G + q] = Base64Tail(SubSeq(b, 3 * G + 1, n))[q]
  <2>1. Encoded(b, Len(b), (Len(b) - 1) \div 3, base64_encode(b))
    BY EncodeIs
  <2>2. Encoded(b, n, G, E)
    BY <1>0, <2>1
  <2> QED
    BY <2>2 DEF Encoded
<1>2. g \in Int /\ 1 <= g /\ g <= G + 1
  BY <1>0, <1>1
<1>3. ASSUME g <= G PROVE CharOf(b, n, G, E, g, r)
  <2>1. PICK i, k : i = 3 * g - 2 /\ k = 3 * g
    OBVIOUS
  <2>2. /\ i \in 1 .. Len(b) /\ k \in i .. Len(b) /\ k - i + 1 \in 1 .. 3
        /\ k = i + 2 /\ 3 * g - 1 = i + 1 /\ i \in Nat
    <3>1. n = Len(b) /\ n \in Nat /\ G \in Nat /\ n - 3 * G \in 1 .. 3
      BY <1>0, <1>1
    <3>2. g \in Int /\ 1 <= g /\ g <= G /\ i = 3 * g - 2 /\ k = 3 * g
      BY <1>2, <1>3, <2>1
    <3> HIDE <1>0
    <3>3. 1 <= i /\ k <= n /\ i \in Nat /\ k \in Nat /\ k = i + 2 /\ 3 * g - 1 = i + 1
      BY <3>1, <3>2
    <3> QED
      BY <3>1, <3>3
  <2>3. PICK w : w = Word(SubSeq(b, i, k))
    OBVIOUS
  <2>4. i + 2 \in i .. Len(b)
    BY <2>2
  <2>5. w = OfBytes(b[i], b[i + 1], b[i + 2])
    BY <2>2, <2>3, <2>4, WordOf
  <2>6. Said(b, i) = b[i] /\ Said(b, i + 1) = b[i + 1] /\ Said(b, i + 2) = b[i + 2]
    <3>1. i <= Len(b) /\ i + 1 <= Len(b) /\ i + 2 <= Len(b)
      BY <1>0, <1>1, <2>2
    <3> QED
      BY <3>1 DEF Said
  <2>7. 3 * g - 2 = i /\ 3 * g - 1 = i + 1 /\ 3 * g = i + 2
    BY <2>1, <2>2
  <2>8. Block(b, g) = w
    BY <2>5, <2>6, <2>7 DEF Block
  <2>9. g \in 1 .. G
    BY <1>2, <1>3
  <2>10. E[4 * (g - 1) + r] = Six(w, r)
    BY <1>1, <2>1, <2>3, <2>9
  <2> QED
    BY <1>3, <2>8, <2>10 DEF CharOf
<1>4. ASSUME g = G + 1 PROVE CharOf(b, n, G, E, g, r)
  <2>1. PICK i, t : i = 3 * G + 1 /\ t = n - 3 * G
    OBVIOUS
  <2>2. /\ i \in 1 .. Len(b) /\ n \in i .. Len(b) /\ n - i + 1 = t /\ t \in 1 .. 3
        /\ i \in Nat /\ ~(g <= G) /\ Len(b) = i + t - 1
    BY <1>0, <1>1, <1>4, <2>1
  <2>3. PICK p, T : p = SubSeq(b, i, n) /\ T = Base64Tail(p)
    OBVIOUS
  <2>4. p \in Frame /\ Len(p) = n - i + 1 /\ \A j \in 1 .. n - i + 1 : p[j] = b[i + j - 1]
    BY <2>2, <2>3, PartIs
  <2>5. Len(p) = t /\ Len(p) \in 1 .. 3 /\ \A j \in 1 .. t : p[j] = b[i + j - 1]
    BY <2>2, <2>4
  <2>6. PICK x, y, z : x = Said(p, 1) /\ y = Said(p, 2) /\ z = Said(p, 3)
    OBVIOUS
  <2>7. PICK w : w = OfBytes(x, y, z)
    OBVIOUS
  <2>8. TailOf(t, T, w)
    <3>1. TailOf(Len(p), Base64Tail(p), OfBytes(Said(p, 1), Said(p, 2), Said(p, 3)))
      BY <2>4, <2>5, TailSix
    <3> QED
      BY <2>3, <2>5, <2>6, <2>7, <3>1
  <2>9. x = Said(b, i) /\ y = Said(b, i + 1) /\ z = Said(b, i + 2)
    <3>1. i + 1 - 1 = i /\ i + 2 - 1 = i + 1 /\ i + 3 - 1 = i + 2
      BY <2>2
    <3>2. p[1] = b[i] /\ (t > 1 => p[2] = b[i + 1]) /\ (t > 2 => p[3] = b[i + 2])
      <4>1. 1 \in 1 .. t /\ (t > 1 => 2 \in 1 .. t) /\ (t > 2 => 3 \in 1 .. t)
        BY <2>2
      <4> QED
        BY <2>5, <3>1, <4>1
    <3>3. i <= Len(b) /\ (t > 1 <=> i + 1 <= Len(b)) /\ (t > 2 <=> i + 2 <= Len(b))
      BY <2>2
    <3>4. x = p[1] /\ y = (IF t > 1 THEN p[2] ELSE 0) /\ z = (IF t > 2 THEN p[3] ELSE 0)
      BY <2>2, <2>5, <2>6 DEF Said
    <3> QED
      BY <3>2, <3>3, <3>4 DEF Said
  <2>10. 3 * g - 2 = i /\ 3 * g - 1 = i + 1 /\ 3 * g = i + 2
    BY <1>1, <1>4, <2>1
  <2>11. Block(b, g) = w
    BY <2>7, <2>9, <2>10 DEF Block
  <2>12. 4 * (g - 1) + r = 4 * G + r
    BY <1>1, <1>4
  <2>13. E[4 * (g - 1) + r] = T[r]
    BY <1>1, <2>1, <2>3, <2>12
  <2>14. CASE r <= t + 1
    <3>1. r \in 1 .. t + 1
      BY <2>2, <2>14
    <3>2. T[r] = Six(w, r)
      BY <2>8, <3>1 DEF TailOf
    <3> QED
      BY <2>1, <2>11, <2>13, <2>14, <3>2 DEF CharOf
  <2>15. CASE ~(r <= t + 1)
    <3>1. r \in t + 2 .. 4
      BY <2>2, <2>15
    <3>2. T[r] = 64 /\ Six(w, r) = 0
      BY <2>8, <3>1 DEF TailOf
    <3> QED
      BY <2>1, <2>2, <2>11, <2>13, <2>15, <3>2 DEF CharOf
  <2> QED
    BY <2>14, <2>15
<1>5. CharOf(b, n, G, E, g, r)
  <2>1. g <= G \/ g = G + 1
    BY <1>1, <1>2
  <2> QED
    BY <1>3, <1>4, <2>1
<1> QED
  BY <1>0, <1>5

(* What the characters of a group say is the word of its bytes. *)
LEMMA JoinIs ==
    ASSUME NEW w, Short(w), NEW p, NEW q, NEW r, NEW t,
           p % 64 = Six(w, 1), q % 64 = Six(w, 2), r % 64 = Six(w, 3), t % 64 = Six(w, 4)
    PROVE  Join(p, q, r, t) = w
<1>1. \A k \in 1 .. 4 : Six(w, k) % 64 = Six(w, k)
  <2>1. \A x \in 0 .. 63 : x % 64 = x
    OBVIOUS
  <2>2. \A k \in 1 .. 4 : Six(w, k) \in 0 .. 63
    BY SixRange
  <2> QED
    BY <2>1, <2>2
<1>2. Join(Six(w, 1), Six(w, 2), Six(w, 3), Six(w, 4)) = w
  BY SixBits
<1>3. /\ Six(w, 1) % 64 = p % 64 /\ Six(w, 2) % 64 = q % 64
      /\ Six(w, 3) % 64 = r % 64 /\ Six(w, 4) % 64 = t % 64
  <2>1. 1 \in 1 .. 4 /\ 2 \in 1 .. 4 /\ 3 \in 1 .. 4 /\ 4 \in 1 .. 4
    OBVIOUS
  <2> QED
    BY <1>1, <2>1
<1> QED
  BY <1>2, <1>3 DEF Join

Says(E, g, w) == Join(E[4 * g - 3], E[4 * g - 2], E[4 * g - 1], E[4 * g]) = w

LEMMA GroupSays ==
    ASSUME NEW b \in Frame, Len(b) > 0, NEW g \in 1 .. (Len(b) - 1) \div 3 + 1
    PROVE  Says(base64_encode(b), g, Block(b, g))
<1>0. PICK n, G, E : n = Len(b) /\ G = (Len(b) - 1) \div 3 /\ E = base64_encode(b)
  OBVIOUS
<1>1. n \in Nat /\ G \in Nat
  BY <1>0, FrameIs, Thirds
<1>2. g \in Nat \ {0}
  BY <1>0, <1>1
<1>3. PICK w : w = Block(b, g)
  OBVIOUS
<1>4. Short(w)
  BY <1>2, <1>3, BlockIs
<1>5. ASSUME NEW r \in 1 .. 4
      PROVE  E[4 * (g - 1) + r] % 64 = Six(w, r)
  <2>1. \A x \in 0 .. 63 : x % 64 = x
    OBVIOUS
  <2>2. 64 % 64 = 0
    OBVIOUS
  <2>3. Six(w, r) \in 0 .. 63
    BY <1>4, SixRange
  <2>4. CharOf(b, Len(b), (Len(b) - 1) \div 3, base64_encode(b), g, r)
    BY CharIs
  <2>5. CharOf(b, n, G, E, g, r)
    BY <1>0, <2>4
  <2>6. E[4 * (g - 1) + r] = Six(w, r) \/ (E[4 * (g - 1) + r] = 64 /\ Six(w, r) = 0)
    BY <1>3, <2>5 DEF CharOf
  <2> QED
    BY <2>1, <2>2, <2>3, <2>6
<1>6. /\ 4 * (g - 1) + 1 = 4 * g - 3 /\ 4 * (g - 1) + 2 = 4 * g - 2
      /\ 4 * (g - 1) + 3 = 4 * g - 1 /\ 4 * (g - 1) + 4 = 4 * g
  BY <1>2
<1>7. /\ E[4 * g - 3] % 64 = Six(w, 1) /\ E[4 * g - 2] % 64 = Six(w, 2)
      /\ E[4 * g - 1] % 64 = Six(w, 3) /\ E[4 * g] % 64 = Six(w, 4)
  <2>1. 1 \in 1 .. 4 /\ 2 \in 1 .. 4 /\ 3 \in 1 .. 4 /\ 4 \in 1 .. 4
    OBVIOUS
  <2> QED
    BY <1>5, <1>6, <2>1
<1> QED
  BY <1>0, <1>3, <1>4, <1>7, JoinIs DEF Says

(* The padding is what is missing of the last three bytes. *)
LEMMA PadsAre ==
    ASSUME NEW b \in Frame, Len(b) > 0
    PROVE  Cardinality({i \in DOMAIN base64_encode(b) : base64_encode(b)[i] = 64})
             = 3 - (Len(b) - 3 * ((Len(b) - 1) \div 3))
<1>0. PICK n, G, E : n = Len(b) /\ G = (Len(b) - 1) \div 3 /\ E = base64_encode(b)
  OBVIOUS
<1>1. n \in Nat /\ G \in Nat /\ n - 3 * G \in 1 .. 3 /\ DOMAIN E = 1 .. 4 * G + 4
  <2>1. Encoded(b, Len(b), (Len(b) - 1) \div 3, base64_encode(b))
    BY EncodeIs
  <2>2. Encoded(b, n, G, E)
    BY <1>0, <2>1
  <2> QED
    BY <2>2 DEF Encoded
<1>2. PICK from, to, P : from = 4 * G + (n - 3 * G) + 2 /\ to = 4 * G + 4 /\ P = {i \in DOMAIN E : E[i] = 64}
  OBVIOUS
<1>3. ASSUME NEW i \in 1 .. to PROVE E[i] = 64 <=> i >= from
  <2>1. PICK q, r : q = (i - 1) \div 4 /\ r = 1 + ((i - 1) % 4)
    OBVIOUS
  <2>2. q \in Nat /\ r \in 1 .. 4 /\ i = 4 * q + r /\ i \in Nat
    <3>1. i \in Nat \ {0}
      BY <1>1, <1>2
    <3> QED
      BY <2>1, <3>1, Quarters
  <2>3. PICK g \in Nat : g = q + 1
    BY <2>2
  <2>4. g \in 1 .. G + 1 /\ i = 4 * (g - 1) + r
    BY <1>1, <1>2, <2>2, <2>3
  <2>5. Six(Block(b, g), r) \in 0 .. 63
    <3>1. g \in Nat \ {0}
      BY <1>1, <2>4
    <3>2. Short(Block(b, g))
      BY <3>1, BlockIs
    <3> QED
      BY <2>2, <3>2, SixRange
  <2>6. IF g <= G \/ r <= n - 3 * G + 1 THEN E[4 * (g - 1) + r] = Six(Block(b, g), r)
        ELSE E[4 * (g - 1) + r] = 64 /\ Six(Block(b, g), r) = 0
    <3>1. CharOf(b, Len(b), (Len(b) - 1) \div 3, base64_encode(b), g, r)
      BY <1>0, <2>2, <2>4, CharIs
    <3>2. CharOf(b, n, G, E, g, r)
      BY <1>0, <3>1
    <3> QED
      BY <3>2 DEF CharOf
  <2>7. E[i] = 64 <=> ~(g <= G \/ r <= n - 3 * G + 1)
    <3>1. ~(64 \in 0 .. 63)
      OBVIOUS
    <3> QED
      BY <2>4, <2>5, <2>6, <3>1
  <2>8. i >= from <=> ~(g <= G \/ r <= n - 3 * G + 1)
    BY <1>1, <1>2, <2>2, <2>4
  <2> QED
    BY <2>7, <2>8
<1>4. P = from .. to
  <2>1. from \in Nat /\ from > 0 /\ to \in Nat
    BY <1>1, <1>2
  <2>2. \A i : i \in from .. to <=> i \in 1 .. to /\ i >= from
    BY <2>1
  <2>3. \A i : i \in P <=> i \in 1 .. to /\ E[i] = 64
    BY <1>1, <1>2
  <2>4. \A i : i \in P <=> i \in from .. to
    BY <1>3, <2>2, <2>3
  <2> QED
    BY <2>4
<1>5. Cardinality(from .. to) = IF from > to THEN 0 ELSE to - from + 1
  <2>1. from \in Int /\ to \in Int
    BY <1>1, <1>2
  <2> QED
    BY <2>1, FS_Interval
<1>6. Cardinality(from .. to) = 3 - (n - 3 * G)
  BY <1>1, <1>2, <1>5
<1> QED
  BY <1>0, <1>2, <1>4, <1>6
(* What is decoded is what was encoded. *)
LEMMA DecodeEncode ==
    ASSUME NEW b \in Frame, Len(b) > 0
    PROVE  Len(base64_encode(b)) % 4 = 0 /\ Base64Decode(base64_encode(b)) = b
<1>0. PICK n, G, E : n = Len(b) /\ G = (Len(b) - 1) \div 3 /\ E = base64_encode(b)
  OBVIOUS
<1>1. G \in Nat /\ n \in Nat /\ n - 3 * G \in 1 .. 3 /\ Len(E) = 4 * G + 4
  <2>1. Encoded(b, Len(b), (Len(b) - 1) \div 3, base64_encode(b))
    BY EncodeIs
  <2>2. Encoded(b, n, G, E)
    BY <1>0, <2>1
  <2> QED
    BY <2>2 DEF Encoded
<1>2. PICK pads : pads = Cardinality({i \in DOMAIN E : E[i] = 64})
  OBVIOUS
<1>3. pads = 3 - (n - 3 * G)
  BY <1>0, <1>2, PadsAre
<1>4. PICK bytes : bytes = [i \in 1 .. 3 * (Len(E) \div 4) |->
                              DecodedGroup(E, (i - 1) \div 3 + 1)[1 + ((i - 1) % 3)]]
  OBVIOUS
<1>5. Base64Decode(E) = SubSeq(bytes, 1, Len(bytes) - pads)
  <2> DEFINE All == [i \in 1 .. 3 * (Len(E) \div 4) |->
                        DecodedGroup(E, (i - 1) \div 3 + 1)[1 + ((i - 1) % 3)]]
             Pads == Cardinality({i \in DOMAIN E : E[i] = 64})
  <2>1. Base64Decode(E) = SubSeq(All, 1, Len(All) - Pads)
    BY DEF Base64Decode
  <2>2. bytes = All /\ pads = Pads
    BY <1>2, <1>4
  <2> HIDE DEF All, Pads
  <2> QED
    BY <2>1, <2>2
<1>6. Len(E) \div 4 = G + 1 /\ Len(E) % 4 = 0
  BY <1>1
<1>7. ASSUME NEW g \in 1 .. G + 1
      PROVE  DecodedGroup(E, g) = <<Said(b, 3 * g - 2), Said(b, 3 * g - 1), Said(b, 3 * g)>>
  <2>1. PICK w : w = Join(E[4 * g - 3], E[4 * g - 2], E[4 * g - 1], E[4 * g])
    OBVIOUS
  <2>2. DecodedGroup(E, g) = <<Top(w), Mid(w), Low(w)>>
    BY <2>1, SMT DEF DecodedGroup, Join, Top, Mid, Low
  <2>3. w = Block(b, g)
    BY <1>0, <2>1, GroupSays DEF Says
  <2>4. g \in Nat \ {0}
    BY <1>1
  <2>5. Top(w) = Said(b, 3 * g - 2) /\ Mid(w) = Said(b, 3 * g - 1) /\ Low(w) = Said(b, 3 * g)
    BY <2>3, <2>4, BlockIs
  <2> QED
    BY <2>2, <2>5
<1>8. PICK m \in Nat : m = 3 * (G + 1)
  BY <1>1
<1>9. ASSUME NEW i \in 1 .. m PROVE bytes[i] = Said(b, i)
  <2>1. PICK g, r : g = (i - 1) \div 3 + 1 /\ r = 1 + ((i - 1) % 3)
    OBVIOUS
  <2>2. g \in 1 .. G + 1 /\ r \in 1 .. 3 /\ i = 3 * (g - 1) + r /\ g \in Nat /\ i \in Nat
    <3>1. i \in Nat \ {0} /\ i <= m
      BY <1>8
    <3>2. /\ (i - 1) \div 3 \in Nat /\ 1 + ((i - 1) % 3) \in 1 .. 3
          /\ i = 3 * ((i - 1) \div 3) + (1 + ((i - 1) % 3))
      BY <3>1, SMT
    <3>3. PICK q \in Nat : q = (i - 1) \div 3
      BY <3>2
    <3>4. g = q + 1 /\ i = 3 * q + r /\ r \in 1 .. 3
      BY <2>1, <3>2, <3>3
    <3> QED
      BY <1>1, <1>8, <3>1, <3>3, <3>4
  <2>3. bytes[i] = DecodedGroup(E, g)[r]
    BY <1>4, <1>6, <1>8, <2>1
  <2>4. DecodedGroup(E, g) = <<Said(b, 3 * g - 2), Said(b, 3 * g - 1), Said(b, 3 * g)>>
    BY <1>7, <2>2
  <2>5. r = 1 \/ r = 2 \/ r = 3
    BY <2>2
  <2>6. /\ r = 1 => 3 * g - 2 = i
        /\ r = 2 => 3 * g - 1 = i
        /\ r = 3 => 3 * g = i
    BY <2>2
  <2> QED
    BY <2>3, <2>4, <2>5, <2>6
<1>10. PICK B : B = 0 .. 255
  OBVIOUS
<1>11. bytes \in Seq(B) /\ Len(bytes) = m
  <2>1. bytes = [i \in 1 .. m |-> bytes[i]]
    BY <1>4, <1>6, <1>8, Zenon
  <2>2. \A i \in 1 .. m : bytes[i] \in B
    <3> SUFFICES ASSUME NEW i \in 1 .. m PROVE bytes[i] \in B
      OBVIOUS
    <3>1. i \in Nat \ {0}
      BY <1>8
    <3>2. Said(b, i) \in B
      BY <1>10, <3>1, SaidByte
    <3> QED
      BY <1>9, <3>2
  <2>3. bytes \in [1 .. m -> B]
    BY <2>1, <2>2, Zenon
  <2> QED
    BY <2>3
<1>12. Len(bytes) - pads = n /\ n <= m
  BY <1>1, <1>3, <1>8, <1>11
<1>13. PICK c : c = SubSeq(bytes, 1, n)
  OBVIOUS
<1>14. b \in Seq(B)
  BY <1>10 DEF Frame
<1>15. c \in Seq(B) /\ Len(c) = n /\ \A i \in 1 .. n : c[i] = bytes[i]
  BY <1>1, <1>11, <1>12, <1>13
<1>16. \A i \in 1 .. n : c[i] = b[i]
  <2> SUFFICES ASSUME NEW i \in 1 .. n PROVE c[i] = b[i]
    OBVIOUS
  <2>1. i \in 1 .. m /\ i <= n
    BY <1>1, <1>8, <1>12
  <2>2. Said(b, i) = b[i]
    BY <1>0, <2>1 DEF Said
  <2> QED
    BY <1>9, <1>15, <2>1, <2>2
<1>17. c = b
  BY <1>0, <1>14, <1>15, <1>16
<1> QED
  BY <1>0, <1>5, <1>6, <1>12, <1>13, <1>17

LEMMA LeastIs ==
    ASSUME NEW S \in SUBSET Nat, S # {}
    PROVE  Min(S) \in S /\ \A y \in S : Min(S) <= y
<1>1. PICK x \in S : \A y \in S : <<y, x>> \notin OpToRel(<, Nat)
  BY NatLessThanWellFounded, WFMin
<1>2. ASSUME NEW y \in S PROVE x <= y
  <2>1. <<y, x>> \notin OpToRel(<, Nat) /\ <<y, x>> \in Nat \X Nat
    BY <1>1
  <2>2. ~(y < x) /\ x \in Nat /\ y \in Nat
    BY <2>1 DEF OpToRel
  <2> QED
    BY <2>2
<1> QED
  BY <1>2 DEF Min

(* What is told is what is known, and nothing more is learned then. *)
TellInv ==
    /\ vcodec_id \in {"H264", "H265"} /\ frame \in Frame
    /\ start \in Nat \ {0} /\ nal[2] \in Nat
    /\ codec_data \in [ParamSet -> Frame]
    /\ told # <<>> => AllKnown /\ told = [k \in Needed |-> base64_encode(codec_data[k])]

LEMMA NeededIs == Needed \subseteq ParamSet
  BY DEF Needed, NalType, ParamSet

LEMMA CodeIs == \A i : CodeAt(i) \in {0, 3, 4}
  BY DEF CodeAt

(* A NAL unit found lies within the frame. *)
LEMMA FoundIs ==
    ASSUME TellInv, FindNalu(start) # <<>>, NEW n, n = FindNalu(start),
           NEW begin, begin = n[1] + CodeAt(n[1])
    PROVE  begin \in Nat \ {0} /\ n[2] \in Nat /\ begin - 1 <= n[2] /\ n[2] <= Len(frame)
<1> DEFINE codes(k) == {j \in k .. Len(frame) : CodeAt(j) > 0}
           from == Min(codes(start))
           behind == codes(from + CodeAt(from))
<1>1. FindNalu(start) = IF codes(start) = {} \/ from + CodeAt(from) > Len(frame) THEN <<>>
                        ELSE <<from, IF behind = {} THEN Len(frame) ELSE Min(behind) - 1>>
  BY DEF FindNalu
<1>2. codes(start) # {} /\ ~(from + CodeAt(from) > Len(frame))
  BY <1>1
<1>3. start \in Nat \ {0} /\ Len(frame) \in Nat
  BY DEF TellInv, Frame
<1>4. from \in codes(start)
  <2>1. codes(start) \in SUBSET Nat
    BY <1>3
  <2> HIDE DEF codes
  <2> QED
    BY <1>2, <2>1, LeastIs
<1>5. PICK f : f = from
  OBVIOUS
<1>6. f \in Nat \ {0} /\ CodeAt(f) > 0 /\ CodeAt(f) \in {0, 3, 4}
  BY <1>3, <1>4, <1>5, CodeIs
<1>7. PICK b : b = f + CodeAt(f)
  OBVIOUS
<1>8. b \in Nat \ {0} /\ b <= Len(frame)
  BY <1>2, <1>3, <1>5, <1>6, <1>7
<1>9. n = <<f, IF codes(b) = {} THEN Len(frame) ELSE Min(codes(b)) - 1>>
  <2> HIDE DEF codes
  <2> QED
    BY <1>1, <1>2, <1>5, <1>7
<1>10. CASE codes(b) = {}
  <2>1. n[1] = f /\ n[2] = Len(frame)
    <3> HIDE DEF codes
    <3> QED
      BY <1>9, <1>10
  <2> QED
    BY <1>3, <1>7, <1>8, <2>1
<1>11. CASE codes(b) # {}
  <2>1. Min(codes(b)) \in codes(b)
    <3>1. codes(b) \in SUBSET Nat
      BY <1>8
    <3> HIDE DEF codes
    <3> QED
      BY <1>11, <3>1, LeastIs
  <2>2. PICK m : m = Min(codes(b))
    OBVIOUS
  <2>3. m \in b .. Len(frame)
    BY <2>1, <2>2
  <2>4. n[1] = f /\ n[2] = m - 1
    <3> HIDE DEF codes
    <3> QED
      BY <1>9, <1>11, <2>2
  <2> QED
    BY <1>3, <1>7, <1>8, <2>3, <2>4
<1> QED
  BY <1>10, <1>11

LEMMA CutIs ==
    ASSUME NEW f \in Frame, NEW i \in Nat \ {0}, NEW e \in Nat, i - 1 <= e, e <= Len(f)
    PROVE  Cut(SubSeq(f, i, e)) \in Frame
<1>1. PICK B : B = 0 .. 255
  OBVIOUS
<1>2. f \in Seq(B)
  BY <1>1 DEF Frame
<1>3. PICK u : u = SubSeq(f, i, e)
  OBVIOUS
<1>4. u \in Seq(B)
  BY <1>2, <1>3
<1>5. PICK m : m = IF Len(u) > PARAM_MAX THEN PARAM_MAX ELSE Len(u)
  OBVIOUS
<1>6. m \in Nat /\ m <= Len(u)
  BY <1>4, <1>5, ParamAssumption
<1>7. SubSeq(u, 1, m) \in Seq(B)
  BY <1>4, <1>6
<1>8. Cut(u) = SubSeq(u, 1, m)
  BY <1>5 DEF Cut
<1> QED
  BY <1>1, <1>3, <1>7, <1>8 DEF Frame

LEMMA InitTellInv == Init => TellInv
<1> SUFFICES ASSUME Init PROVE TellInv
  OBVIOUS
<1>1. <<>> \in Frame
  <2>1. \A B : <<>> \in Seq(B)
    OBVIOUS
  <2> QED
    BY <2>1 DEF Frame
<1>2. /\ vcodec_id \in {"H264", "H265"} /\ frame = <<>> /\ nal = <<1, 0>> /\ start = 1 /\ told = <<>>
      /\ codec_data = [k \in ParamSet |-> <<>>]
  BY DEF Init, NoFrame
<1>3. codec_data \in [ParamSet -> Frame]
  BY <1>1, <1>2
<1> QED
  BY <1>1, <1>2, <1>3 DEF TellInv

LEMMA NextTellInv == PacketInv /\ PacketInv' /\ TellInv /\ [Next]_vars => TellInv'
<1> SUFFICES ASSUME PacketInv, PacketInv', TellInv, [Next]_vars PROVE TellInv'
  OBVIOUS
<1>1. /\ vcodec_id' \in {"H264", "H265"} /\ frame' \in Frame /\ nal'[2] \in Nat
  BY DEF PacketInv, Types
<1>2. vcodec_id' = vcodec_id
  BY DEF Next, NextFrame, BeginFrame, LearnNalu, LearnDone, Send, Packetize, SkipByte, FirstCode, NextCode,
         LastNalu, Encode, NoNalu, Single, Fragment, EncodeDone, Describe, inputVars, packetVars, vars
<1>3. start' \in Nat \ {0}
  <2>1. CASE LearnNalu
    <3>1. PICK n, begin : n = FindNalu(start) /\ begin = n[1] + CodeAt(n[1])
      OBVIOUS
    <3>2. n # <<>> /\ start' = n[2] + 1
      BY <2>1, <3>1 DEF LearnNalu, More
    <3>3. n[2] \in Nat
      BY <3>1, <3>2, FoundIs
    <3> QED
      BY <3>2, <3>3
  <2>2. CASE EncodeDone
    BY <2>2 DEF EncodeDone, TellInv
  <2>3. CASE ~LearnNalu /\ ~EncodeDone
    <3>1. start' = start \/ start' = 1
      BY <2>3 DEF Next, NextFrame, BeginFrame, LearnDone, Send, Packetize, SkipByte, FirstCode, NextCode,
             LastNalu, Encode, NoNalu, Single, Fragment, Describe, inputVars, packetVars, vars
    <3> QED
      BY <3>1 DEF TellInv
  <2> QED
    BY <2>1, <2>2, <2>3
<1>4. CASE LearnNalu
  <2>1. ~AllKnown /\ told' = told
    BY <1>4 DEF LearnNalu, More
  <2>2. PICK n, begin : n = FindNalu(start) /\ begin = n[1] + CodeAt(n[1])
    OBVIOUS
  <2>3. PICK kind, c : kind = Kind(frame[begin]) /\ c = Cut(SubSeq(frame, begin, n[2]))
    OBVIOUS
  <2>4. n # <<>> /\ codec_data' = IF kind = "other" THEN codec_data ELSE [codec_data EXCEPT ![kind] = c]
    BY <1>4, <2>2, <2>3 DEF LearnNalu, More
  <2>5. c \in Frame
    BY <2>2, <2>3, <2>4, FoundIs, CutIs DEF TellInv
  <2>6. codec_data' \in [ParamSet -> Frame]
    BY <2>4, <2>5 DEF TellInv
  <2>7. told' = <<>>
    BY <2>1 DEF TellInv
  <2> QED
    BY <1>1, <1>3, <2>6, <2>7 DEF TellInv
<1>5. CASE ~LearnNalu
  <2>1. codec_data' = codec_data
    BY <1>5 DEF Next, NextFrame, LearnDone, Send, Describe, sessionVars, vars
  <2>2. AllKnown' = AllKnown /\ Needed' = Needed
    BY <1>2, <2>1 DEF AllKnown, Needed, NalType
  <2>3. told' = told \/ told' = IF AllKnown THEN [k \in Needed |-> base64_encode(codec_data[k])] ELSE <<>>
    BY <1>5 DEF Next, NextFrame, LearnDone, Send, Describe, sessionVars, vars
  <2>4. told' # <<>> => AllKnown' /\ told' = [k \in Needed' |-> base64_encode(codec_data'[k])]
    BY <2>1, <2>2, <2>3 DEF TellInv
  <2> QED
    BY <1>1, <1>3, <2>1, <2>4 DEF TellInv
<1> QED
  BY <1>4, <1>5

LEMMA TellInvHolds == TellInv => AnnouncedHolds
<1> SUFFICES ASSUME TellInv, NEW k \in DOMAIN told
             PROVE  Len(told[k]) % 4 = 0 /\ Base64Decode(told[k]) = codec_data[k]
  BY DEF AnnouncedHolds
<1>1. told # <<>>
  BY DEF TellInv
<1>2. AllKnown /\ k \in Needed /\ told[k] = base64_encode(codec_data[k])
  BY <1>1 DEF TellInv
<1>3. PICK c : c = codec_data[k]
  OBVIOUS
<1>4. c \in Frame /\ c # <<>>
  BY <1>2, <1>3, NeededIs DEF TellInv, AllKnown
<1>5. Len(c) > 0
  <2>1. PICK B : B = 0 .. 255
    OBVIOUS
  <2>2. c \in Seq(B)
    BY <1>4, <2>1 DEF Frame
  <2> QED
    BY <1>4, <2>2
<1> QED
  BY <1>2, <1>3, <1>4, <1>5, DecodeEncode

(* Whatever the length of a parameter set and of its array, what a client is
   told in base64 decodes to what the session has, in every later state too
   (utils.c:17-60, 340-397). *)
THEOREM ToldAsKnown == Spec => []AnnouncedHolds
  BY InitPacketInv, NextPacketInv, InitTellInv, NextTellInv, TellInvHolds, PTL DEF Spec

-----------------------------------------------------------------------------
(* Induction, for a set instead of a predicate. *)
LEMMA SetInduction ==
    ASSUME NEW S, 0 \in S, \A n \in Nat : n \in S => n + 1 \in S
    PROVE  Nat \subseteq S
<1> SUFFICES ASSUME Nat \ S # {} PROVE FALSE
  OBVIOUS
<1>1. PICK n \in Nat \ S : \A m \in Nat \ S : n <= m
  <2>1. PICK T : T = Nat \ S
    OBVIOUS
  <2>2. T \in SUBSET Nat /\ T # {}
    BY <2>1
  <2> QED
    BY <2>1, <2>2, LeastIs
<1>2. n - 1 \in Nat /\ ~(n <= n - 1) /\ (n - 1) + 1 = n
  BY <1>1
<1> QED
  BY <1>1, <1>2

(* A finite set of numbers, in order. *)
Sorted(c, n, S) ==
    /\ c \in [1 .. n -> S]
    /\ \A i, j \in 1 .. n : i < j => c[i] < c[j]
    /\ \A x \in S : \E k \in 1 .. n : c[k] = x

LEMMA SortedExists ==
    ASSUME NEW S \in SUBSET Nat, IsFiniteSet(S)
    PROVE  \E c : Sorted(c, Cardinality(S), S)
<1> DEFINE T == {n \in Nat : \A U \in SUBSET Nat :
                    IsFiniteSet(U) /\ Cardinality(U) = n => \E c : Sorted(c, n, U)}
<1>1. 0 \in T
  <2> SUFFICES ASSUME NEW U \in SUBSET Nat, IsFiniteSet(U), Cardinality(U) = 0
               PROVE  \E c : Sorted(c, 0, U)
    OBVIOUS
  <2>1. U = {}
    BY FS_EmptySet
  <2>2. Sorted([i \in {} |-> 0], 0, U)
    BY <2>1 DEF Sorted
  <2> QED
    BY <2>2
<1>2. ASSUME NEW n \in Nat, n \in T PROVE n + 1 \in T
  <2> SUFFICES ASSUME NEW U \in SUBSET Nat, IsFiniteSet(U), Cardinality(U) = n + 1
               PROVE  \E c : Sorted(c, n + 1, U)
    BY <1>2
  <2>1. U # {}
    BY FS_EmptySet
  <2>2. PICK x \in U : \A y \in U : x <= y
    BY <2>1, LeastIs
  <2>3. PICK V : V = U \ {x}
    OBVIOUS
  <2>4. V \in SUBSET Nat /\ IsFiniteSet(V) /\ Cardinality(V) = n
    <3>1. IsFiniteSet(U \ {x}) /\ Cardinality(U \ {x}) = Cardinality(U) - 1
      BY FS_RemoveElement
    <3> QED
      BY <2>3, <3>1
  <2>5. PICK d : Sorted(d, n, V)
    BY <1>2, <2>4
  <2>6. /\ \A i \in 1 .. n : d[i] \in V
        /\ \A i, j \in 1 .. n : i < j => d[i] < d[j]
        /\ \A y \in V : \E k \in 1 .. n : d[k] = y
    BY <2>5 DEF Sorted
  <2>7. PICK c : c = [k \in 1 .. n + 1 |-> IF k = 1 THEN x ELSE d[k - 1]]
    OBVIOUS
  <2>8. c[1] = x /\ \A k \in 2 .. n + 1 : c[k] = d[k - 1] /\ k - 1 \in 1 .. n
    BY <2>7
  <2>9. \A k \in 1 .. n + 1 : c[k] \in U
    <3> SUFFICES ASSUME NEW k \in 1 .. n + 1 PROVE c[k] \in U
      OBVIOUS
    <3>1. k = 1 \/ k \in 2 .. n + 1
      OBVIOUS
    <3> QED
      BY <2>3, <2>6, <2>8, <3>1
  <2>10. ASSUME NEW i \in 1 .. n + 1, NEW j \in 1 .. n + 1, i < j PROVE c[i] < c[j]
    <3>1. j \in 2 .. n + 1 /\ c[j] = d[j - 1] /\ j - 1 \in 1 .. n
      <4>1. j \in 2 .. n + 1
        BY <2>10
      <4> QED
        BY <2>8, <4>1
    <3>2. CASE i = 1
      <4>1. d[j - 1] \in U /\ d[j - 1] # x
        BY <2>3, <2>6, <3>1
      <4>2. x <= d[j - 1] /\ x \in Nat /\ d[j - 1] \in Nat
        BY <2>2, <4>1
      <4>3. x < d[j - 1]
        BY <4>1, <4>2
      <4> QED
        BY <2>8, <3>1, <3>2, <4>3
    <3>3. CASE i # 1
      <4>1. i \in 2 .. n + 1
        BY <3>3
      <4>2. c[i] = d[i - 1] /\ i - 1 \in 1 .. n /\ i - 1 < j - 1
        BY <2>8, <2>10, <4>1
      <4> QED
        BY <2>6, <3>1, <4>2
    <3> QED
      BY <3>2, <3>3
  <2>11. ASSUME NEW y \in U PROVE \E k \in 1 .. n + 1 : c[k] = y
    <3>1. CASE y = x
      <4>1. 1 \in 1 .. n + 1
        OBVIOUS
      <4> QED
        BY <2>8, <3>1, <4>1
    <3>2. CASE y # x
      <4>1. PICK k \in 1 .. n : d[k] = y
        BY <2>3, <2>6, <3>2
      <4>2. k + 1 \in 2 .. n + 1 /\ k + 1 \in 1 .. n + 1 /\ (k + 1) - 1 = k
        OBVIOUS
      <4>3. c[k + 1] = y
        BY <2>8, <4>1, <4>2
      <4> QED
        BY <4>2, <4>3
    <3> QED
      BY <3>1, <3>2
  <2>12. c \in [1 .. n + 1 -> U]
    <3>1. c = [k \in 1 .. n + 1 |-> c[k]]
      BY <2>7, Zenon
    <3> QED
      BY <2>9, <3>1, Zenon
  <2>13. Sorted(c, n + 1, U)
    BY <2>10, <2>11, <2>12 DEF Sorted
  <2> QED
    BY <2>13
<1> HIDE DEF T
<1>3. Nat \subseteq T
  BY <1>1, <1>2, SetInduction
<1>4. Cardinality(S) \in Nat
  BY FS_CardinalityType
<1> QED
  BY <1>3, <1>4 DEF T

(* Numbers in order are all of the set when there are as many. *)
LEMMA IncreasingIsSorted ==
    ASSUME NEW S \in SUBSET Nat, IsFiniteSet(S), NEW n, n = Cardinality(S), NEW c \in [1 .. n -> S],
           \A i, j \in 1 .. n : i < j => c[i] < c[j]
    PROVE  Sorted(c, n, S)
<1>1. n \in Nat
  BY FS_CardinalityType
<1>2. c \in Injection(1 .. n, S)
  <2>1. ASSUME NEW i \in 1 .. n, NEW j \in 1 .. n, c[i] = c[j] PROVE i = j
    <3>1. c[i] \in Nat /\ c[j] \in Nat /\ i \in Int /\ j \in Int
      <4>1. c[i] \in S /\ c[j] \in S
        OBVIOUS
      <4>2. S \subseteq Nat
        OBVIOUS
      <4>3. c[i] \in Nat /\ c[j] \in Nat
        BY <4>1, <4>2, Zenon
      <4> QED
        BY <1>1, <4>3
    <3>2. ~(i < j) /\ ~(j < i)
      <4>1. ~(c[i] < c[j]) /\ ~(c[j] < c[i])
        BY <2>1, <3>1
      <4> QED
        BY <4>1
    <3> QED
      BY <3>1, <3>2
  <2>2. DOMAIN c = 1 .. n
    OBVIOUS
  <2> QED
    BY <2>1, <2>2 DEF Injection, IsInjective
<1>3. Cardinality(1 .. n) = n
  <2>1. 1 \in Int /\ n \in Int
    BY <1>1
  <2>2. Cardinality(1 .. n) = IF 1 > n THEN 0 ELSE n - 1 + 1
    BY <2>1, FS_Interval, Zenon
  <2> QED
    BY <1>1, <2>2
<1>4. c \in Surjection(1 .. n, S)
  BY <1>2, <1>3, FS_Injection
<1> QED
  BY <1>4 DEF Sorted, Surjection

-----------------------------------------------------------------------------
(* The NAL units of a frame f, and its start codes. *)
CodesOf(f) == {i \in 1 .. Len(f) - 2 : SubSeq(f, i, i + 2) = <<0, 0, 1>>}
BeginOf(f, i) == IF i > 1 /\ f[i - 1] = 0 THEN i - 1 ELSE i
CodeOf(f) == CHOOSE c \in [1 .. Cardinality(CodesOf(f)) -> CodesOf(f)] :
                \A i, j \in DOMAIN c : i < j => c[i] < c[j]
EndOf(f, c, k) == IF k = Len(c) THEN Len(f) ELSE BeginOf(f, c[k + 1]) - 1
AllOf(f, c) == [k \in 1 .. Len(c) |-> SubSeq(f, c[k] + 3, EndOf(f, c, k))]
UnitsOf(f) == IF AllOf(f, CodeOf(f)) # <<>> /\ Last(AllOf(f, CodeOf(f))) = <<>>
              THEN Front(AllOf(f, CodeOf(f))) ELSE AllOf(f, CodeOf(f))

LEMMA NalUnitsAre == NalUnits = UnitsOf(frame) /\ NalUnits' = UnitsOf(frame')
  BY DEF NalUnits, UnitsOf, AllOf, EndOf, CodeOf, BeginOf, CodesOf

LEMMA CodesAre ==
    ASSUME NEW f \in Frame, NEW i
    PROVE  i \in CodesOf(f) <=> i \in 1 .. Len(f) - 2 /\ f[i] = 0 /\ f[i + 1] = 0 /\ f[i + 2] = 1
<1>1. Len(f) \in Nat
  BY FrameIs
<1>2. ASSUME i \in 1 .. Len(f) - 2
      PROVE  SubSeq(f, i, i + 2) = <<0, 0, 1>> <=> f[i] = 0 /\ f[i + 1] = 0 /\ f[i + 2] = 1
  <2>1. i \in 1 .. Len(f) /\ i + 2 \in i .. Len(f)
    BY <1>1, <1>2
  <2>2. PICK p : p = SubSeq(f, i, i + 2)
    OBVIOUS
  <2>3. p \in Frame /\ Len(p) = (i + 2) - i + 1 /\ \A j \in 1 .. (i + 2) - i + 1 : p[j] = f[i + j - 1]
    BY <2>1, <2>2, PartIs
  <2>4. Len(p) = 3 /\ p[1] = f[i] /\ p[2] = f[i + 1] /\ p[3] = f[i + 2]
    BY <1>2, <2>3
  <2>5. p = <<p[1], p[2], p[3]>>
    <3>1. PICK B : B = 0 .. 255
      OBVIOUS
    <3>2. p \in Seq(B)
      BY <2>3, <3>1 DEF Frame
    <3> QED
      BY <2>4, <3>2
  <2>6. p = <<0, 0, 1>> <=> p[1] = 0 /\ p[2] = 0 /\ p[3] = 1
    BY <2>5
  <2> QED
    BY <2>2, <2>4, <2>6
<1> QED
  BY <1>2 DEF CodesOf

(* A start code that CodeAt finds. *)
LEMMA CodeAtIs ==
    ASSUME frame \in Frame, NEW i \in 1 .. Len(frame)
    PROVE  CodeAt(i) = IF i \in CodesOf(frame) THEN 3
                       ELSE IF i + 1 \in CodesOf(frame) /\ frame[i] = 0 THEN 4 ELSE 0
<1>0. PICK f : f = frame
  OBVIOUS
<1>1. f \in Frame /\ Len(f) \in Nat /\ i \in 1 .. Len(f)
  BY <1>0, FrameIs
<1>2. PICK p : p = From(i, 3)
  OBVIOUS
<1>3. PICK q : q = From(i, 4)
  OBVIOUS
<1>4. PICK e \in i .. Len(f) : e = IF i + 3 > Len(f) THEN Len(f) ELSE i + 3 - 1
  BY <1>1
<1>5. PICK d \in i .. Len(f) : d = IF i + 4 > Len(f) THEN Len(f) ELSE i + 4 - 1
  BY <1>1
<1>6. p = SubSeq(f, i, e) /\ q = SubSeq(f, i, d)
  BY <1>0, <1>2, <1>3, <1>4, <1>5 DEF From
<1>7. p \in Frame /\ Len(p) = e - i + 1 /\ \A j \in 1 .. e - i + 1 : p[j] = f[i + j - 1]
  BY <1>1, <1>6, PartIs, ZenonT(60)
<1>8. q \in Frame /\ Len(q) = d - i + 1 /\ \A j \in 1 .. d - i + 1 : q[j] = f[i + j - 1]
  BY <1>1, <1>6, PartIs, ZenonT(60)
<1>9. p = <<0, 0, 1>> <=> i \in CodesOf(f)
  <2>1. CASE i <= Len(f) - 2
    <3>1. p = SubSeq(f, i, i + 2) /\ i \in 1 .. Len(f) - 2
      <4>1. e = i + 2
        BY <1>1, <1>4, <2>1
      <4> QED
        BY <1>1, <1>6, <2>1, <4>1
    <3> QED
      BY <3>1 DEF CodesOf
  <2>2. CASE ~(i <= Len(f) - 2)
    <3>1. Len(p) # 3 /\ Len(<<0, 0, 1>>) = 3
      BY <1>1, <1>4, <1>7, <2>2
    <3>2. i \notin CodesOf(f)
      BY <1>1, <2>2 DEF CodesOf
    <3> QED
      BY <3>1, <3>2
  <2> QED
    BY <2>1, <2>2
<1>10. q = <<0, 0, 0, 1>> <=> i + 1 \in CodesOf(f) /\ f[i] = 0
  <2>1. CASE i <= Len(f) - 3
    <3>1. d - i + 1 = 4
      BY <1>1, <1>5, <2>1
    <3>2. Len(q) = 4 /\ q[1] = f[i] /\ q[2] = f[i + 1] /\ q[3] = f[(i + 1) + 1] /\ q[4] = f[(i + 1) + 2]
      BY <1>1, <1>8, <3>1
    <3>3. q = <<q[1], q[2], q[3], q[4]>>
      <4>1. PICK B : B = 0 .. 255
        OBVIOUS
      <4>2. q \in Seq(B)
        BY <1>8, <4>1 DEF Frame
      <4> QED
        BY <3>2, <4>2
    <3>4. i + 1 \in 1 .. Len(f) - 2
      BY <1>1, <2>1
    <3>5. i + 1 \in CodesOf(f) <=> f[i + 1] = 0 /\ f[(i + 1) + 1] = 0 /\ f[(i + 1) + 2] = 1
      BY <1>1, <3>4, CodesAre, SMTT(30)
    <3>6. q = <<0, 0, 0, 1>> <=> q[1] = 0 /\ q[2] = 0 /\ q[3] = 0 /\ q[4] = 1
      BY <3>3
    <3> QED
      BY <3>2, <3>5, <3>6
  <2>2. CASE ~(i <= Len(f) - 3)
    <3>1. Len(q) # 4 /\ Len(<<0, 0, 0, 1>>) = 4
      BY <1>1, <1>5, <1>8, <2>2
    <3>2. i + 1 \notin CodesOf(f)
      BY <1>1, <2>2 DEF CodesOf
    <3> QED
      BY <3>1, <3>2
  <2> QED
    BY <2>1, <2>2
<1> QED
  BY <1>0, <1>2, <1>3, <1>9, <1>10 DEF CodeAt

(* Start codes do not overlap. *)
LEMMA CodesApart ==
    ASSUME NEW f \in Frame, NEW i \in CodesOf(f), NEW j \in CodesOf(f), i < j
    PROVE  i + 3 <= j
<1>1. /\ i \in 1 .. Len(f) - 2 /\ f[i + 1] = 0 /\ f[i + 2] = 1
      /\ j \in 1 .. Len(f) - 2 /\ f[j] = 0 /\ f[j + 1] = 0
  BY CodesAre
<1>2. Len(f) \in Nat
  BY FrameIs
<1>3. j # i + 1
  <2>1. j = i + 1 => j + 1 = i + 2
    BY <1>1, <1>2
  <2> QED
    BY <1>1, <2>1
<1>4. j # i + 2
  BY <1>1
<1> QED
  BY <1>1, <1>2, <1>3, <1>4

(* c lists the start codes of f. *)
Codes(f, c) ==
    /\ Len(c) \in Nat /\ DOMAIN c = 1 .. Len(c)
    /\ \A k \in 1 .. Len(c) : c[k] \in CodesOf(f) /\ c[k] \in 1 .. Len(f) - 2
    /\ \A i, j \in 1 .. Len(c) : i < j => c[i] + 3 <= c[j]
    /\ \A x \in CodesOf(f) : \E k \in 1 .. Len(c) : c[k] = x

LEMMA CodesListed ==
    ASSUME NEW f \in Frame
    PROVE  Codes(f, CodeOf(f))
<1>1. PICK S, n : S = CodesOf(f) /\ n = Cardinality(S)
  OBVIOUS
<1>2. Len(f) \in Nat
  BY FrameIs
<1>3. IsFiniteSet(S)
  <2>1. IsFiniteSet(1 .. Len(f) - 2)
    <3>1. 1 \in Int /\ Len(f) - 2 \in Int
      BY <1>2
    <3> QED
      BY <3>1, FS_Interval
  <2>2. S \subseteq 1 .. Len(f) - 2
    BY <1>1 DEF CodesOf
  <2> QED
    BY <2>1, <2>2, FS_Subset
<1>4. S \in SUBSET Nat
  BY <1>1 DEF CodesOf
<1>5. n \in Nat
  BY <1>1, <1>3, FS_CardinalityType
<1>6. PICK c : c = CodeOf(f)
  OBVIOUS
<1>7. c \in [1 .. n -> S] /\ \A i, j \in DOMAIN c : i < j => c[i] < c[j]
  <2>1. PICK d : Sorted(d, n, S)
    BY <1>1, <1>3, <1>4, SortedExists
  <2>2. d \in [1 .. n -> S] /\ \A i, j \in DOMAIN d : i < j => d[i] < d[j]
    BY <2>1 DEF Sorted
  <2>3. c = CHOOSE x \in [1 .. n -> S] : \A i, j \in DOMAIN x : i < j => x[i] < x[j]
    BY <1>1, <1>6 DEF CodeOf
  <2> QED
    BY <2>2, <2>3, Zenon
<1>8. DOMAIN c = 1 .. n
  BY <1>7
<1>9. Sorted(c, n, S)
  <2>1. \A i, j \in 1 .. n : i < j => c[i] < c[j]
    BY <1>7, <1>8
  <2> QED
    BY <1>1, <1>3, <1>4, <1>7, <2>1, IncreasingIsSorted
<1>10. Len(c) = n
  BY <1>5, <1>8
<1>11. \A k \in 1 .. n : c[k] \in S
  BY <1>7
<1>12. \A k \in 1 .. n : c[k] \in 1 .. Len(f) - 2
  BY <1>1, <1>11 DEF CodesOf
<1>13. \A i, j \in 1 .. n : i < j => c[i] + 3 <= c[j]
  BY <1>1, <1>9, <1>11, CodesApart DEF Sorted
<1>14. \A x \in S : \E k \in 1 .. n : c[k] = x
  BY <1>9 DEF Sorted
<1> QED
  BY <1>1, <1>5, <1>6, <1>8, <1>10, <1>11, <1>12, <1>13, <1>14 DEF Codes

-----------------------------------------------------------------------------
(* Where the search goes on behind m NAL units. *)
Behind(f, c, m) == IF m = 0 THEN 1 ELSE IF m < Len(c) THEN BeginOf(f, c[m + 1]) ELSE Len(f) + 1

Found(i) == {j \in i .. Len(frame) : CodeAt(j) > 0}

LEMMA BeginIs ==
    ASSUME NEW f \in Frame, NEW c, Codes(f, c), NEW k \in 1 .. Len(c)
    PROVE  /\ BeginOf(f, c[k]) \in Nat \ {0} /\ BeginOf(f, c[k]) <= c[k]
           /\ c[k] <= BeginOf(f, c[k]) + 1
           /\ k > 1 => c[k - 1] + 3 <= BeginOf(f, c[k])
           /\ f[BeginOf(f, c[k])] = 0
<1>1. Len(f) \in Nat /\ Len(c) \in Nat
  BY FrameIs DEF Codes
<1>2. c[k] \in 1 .. Len(f) - 2 /\ f[c[k]] = 0
  BY CodesAre DEF Codes
<1>3. PICK x \in 1 .. Len(f) - 2 : x = c[k]
  BY <1>2
<1>4. PICK b : b = BeginOf(f, x)
  OBVIOUS
<1>5. b = IF x > 1 /\ f[x - 1] = 0 THEN x - 1 ELSE x
  BY <1>4 DEF BeginOf
<1>6. b \in Nat \ {0} /\ b <= x /\ x <= b + 1 /\ f[b] = 0
  BY <1>1, <1>2, <1>3, <1>5
<1>7. ASSUME k > 1 PROVE c[k - 1] + 3 <= b
  <2>1. k - 1 \in 1 .. Len(c) /\ k - 1 < k
    BY <1>1, <1>7
  <2>2. PICK y : y = c[k - 1]
    OBVIOUS
  <2>3. y + 3 <= x /\ y \in CodesOf(f) /\ y \in 1 .. Len(f) - 2
    BY <1>3, <2>1, <2>2 DEF Codes
  <2>4. f[y + 2] = 1
    BY <2>3, CodesAre
  <2>5. CASE y + 3 = x
    <3>1. f[x - 1] # 0
      <4>1. x - 1 = y + 2
        BY <1>1, <2>3, <2>5
      <4> QED
        BY <2>4, <4>1
    <3> QED
      BY <1>5, <2>2, <2>5, <3>1
  <2>6. CASE y + 3 # x
    BY <1>1, <1>6, <2>2, <2>3, <2>6
  <2> QED
    BY <2>5, <2>6
<1> QED
  BY <1>3, <1>4, <1>6, <1>7

(* The search finds the next start code of the list ... *)
LEMMA FoundNext ==
    ASSUME frame \in Frame, NEW c, Codes(frame, c), NEW k \in 1 .. Len(c),
           NEW i \in Nat \ {0}, i <= BeginOf(frame, c[k]), k = 1 \/ c[k - 1] < i
    PROVE  /\ Found(i) # {} /\ Min(Found(i)) = BeginOf(frame, c[k])
           /\ Min(Found(i)) + CodeAt(Min(Found(i))) = c[k] + 3
<1>0. PICK f : f = frame
  OBVIOUS
<1>1. f \in Frame /\ Codes(f, c) /\ Len(f) \in Nat /\ Len(c) \in Nat
  BY <1>0, FrameIs DEF Codes
<1>2. PICK x \in 1 .. Len(f) - 2 : x = c[k] /\ x \in CodesOf(f)
  BY <1>1 DEF Codes
<1>3. PICK b : b = BeginOf(f, x)
  OBVIOUS
<1>4. b \in Nat \ {0} /\ b <= x /\ x <= b + 1 /\ f[b] = 0 /\ i <= b
  BY <1>0, <1>1, <1>2, <1>3, BeginIs
<1>5. \A j \in 1 .. Len(f) : CodeAt(j) = IF j \in CodesOf(f) THEN 3
                                         ELSE IF j + 1 \in CodesOf(f) /\ f[j] = 0 THEN 4 ELSE 0
  BY <1>0, <1>1, CodeAtIs
<1>6. b \in i .. Len(f) /\ b \in 1 .. Len(f)
  BY <1>1, <1>2, <1>4
<1>7. CodeAt(b) > 0 /\ b + CodeAt(b) = x + 3
  <2>1. CASE b = x
    BY <1>2, <1>4, <1>5, <1>6, <2>1
  <2>2. CASE b # x
    <3>1. b + 1 = x
      BY <1>2, <1>4, <2>2
    <3>2. b \notin CodesOf(f)
      <4>1. b \in CodesOf(f) => b + 3 <= x
        <5>1. b < x
          BY <1>2, <1>4, <3>1
        <5> QED
          BY <1>1, <1>2, <5>1, CodesApart
      <4> QED
        BY <1>2, <1>4, <3>1, <4>1
    <3>3. CodeAt(b) = 4
      BY <1>2, <1>4, <1>5, <1>6, <3>1, <3>2
    <3> QED
      BY <1>2, <1>4, <3>1, <3>3
  <2> QED
    BY <2>1, <2>2
<1>8. ASSUME NEW j \in i .. Len(f), CodeAt(j) > 0 PROVE b <= j
  <2>1. j \in 1 .. Len(f)
    BY <1>1
  <2>2. j \in CodesOf(f) \/ (j + 1 \in CodesOf(f) /\ f[j] = 0)
    <3>1. PICK v : v = CodeAt(j)
      OBVIOUS
    <3>2. v = IF j \in CodesOf(f) THEN 3 ELSE IF j + 1 \in CodesOf(f) /\ f[j] = 0 THEN 4 ELSE 0
      BY <1>5, <2>1, <3>1
    <3>3. v > 0 /\ v # 0
      <4>1. v > 0
        BY <1>8, <3>1
      <4> QED
        BY <4>1
    <3> QED
      BY <3>2, <3>3
  <2>3. PICK y \in CodesOf(f) : y = j \/ (y = j + 1 /\ f[j] = 0)
    BY <2>2
  <2>4. PICK l \in 1 .. Len(c) : c[l] = y
    BY <1>1 DEF Codes
  <2>5. k <= l
    <3>1. CASE k = 1
      BY <1>1, <3>1
    <3>2. CASE k # 1
      <4>1. c[k - 1] < i /\ k - 1 \in 1 .. Len(c)
        BY <1>1, <3>2
      <4>2. PICK z \in 1 .. Len(f) - 2 : z = c[k - 1]
        BY <1>1, <4>1 DEF Codes
      <4>3. l < k - 1 => y + 3 <= z
        BY <1>1, <2>4, <4>1, <4>2 DEF Codes
      <4>4. l = k - 1 => y = z
        BY <2>4, <4>2
      <4>5. y \in Int /\ i <= y /\ z < i
        BY <1>1, <2>1, <2>3, <4>1, <4>2
      <4> QED
        BY <1>1, <4>2, <4>3, <4>4, <4>5
    <3> QED
      BY <3>1, <3>2
  <2>6. CASE k = l
    <3>1. y = x
      BY <1>2, <2>4, <2>6
    <3>2. CASE y = j
      BY <1>2, <1>4, <3>1, <3>2
    <3>3. CASE y = j + 1 /\ f[j] = 0
      <4>1. x > 1 /\ x - 1 = j
        BY <2>1, <3>1, <3>3, <1>2
      <4>2. b = j
        BY <1>3, <3>3, <4>1 DEF BeginOf
      <4> QED
        BY <2>1, <4>2
    <3> QED
      BY <2>3, <3>2, <3>3
  <2>7. CASE k < l
    <3>1. x + 3 <= y
      BY <1>1, <1>2, <2>4, <2>7 DEF Codes
    <3> QED
      BY <1>2, <1>4, <2>1, <2>3, <3>1
  <2> QED
    BY <1>1, <2>5, <2>6, <2>7
<1>9. PICK S : S = Found(i)
  OBVIOUS
<1>10. S \in SUBSET Nat /\ b \in S /\ \A j \in S : b <= j /\ j \in Nat
  BY <1>0, <1>1, <1>6, <1>7, <1>8, <1>9 DEF Found
<1>11. Min(S) = b
  <2>1. Min(S) \in S /\ \A y \in S : Min(S) <= y
    BY <1>10, LeastIs
  <2>2. PICK m : m = Min(S)
    OBVIOUS
  <2>3. m \in Nat /\ m <= b /\ b <= m
    BY <1>10, <2>1, <2>2
  <2> QED
    BY <1>4, <2>2, <2>3
<1> QED
  BY <1>0, <1>2, <1>3, <1>7, <1>9, <1>10, <1>11

(* ... and none behind the last. *)
LEMMA FoundNone ==
    ASSUME frame \in Frame, NEW c, Codes(frame, c), NEW i \in Nat \ {0},
           Len(c) = 0 \/ c[Len(c)] < i
    PROVE  Found(i) = {}
<1>1. Len(frame) \in Nat /\ Len(c) \in Nat
  BY FrameIs DEF Codes
<1> SUFFICES ASSUME NEW j \in i .. Len(frame), CodeAt(j) > 0 PROVE FALSE
  BY DEF Found
<1>2. j \in 1 .. Len(frame)
  BY <1>1
<1>3. j \in CodesOf(frame) \/ j + 1 \in CodesOf(frame)
  BY <1>2, CodeAtIs
<1>4. PICK y \in CodesOf(frame) : y = j \/ y = j + 1
  BY <1>3
<1>5. PICK l \in 1 .. Len(c) : c[l] = y
  BY DEF Codes
<1>6. PICK N \in 1 .. Len(c) : N = Len(c)
  BY <1>1, <1>5
<1>7. PICK z : z = c[N]
  OBVIOUS
<1>8. z < i /\ z \in 1 .. Len(frame) - 2
  BY <1>1, <1>5, <1>6, <1>7 DEF Codes
<1>9. l < N => y + 3 <= z
  BY <1>5, <1>7 DEF Codes
<1>10. l = N => y = z
  BY <1>5, <1>7
<1> QED
  BY <1>1, <1>2, <1>4, <1>5, <1>6, <1>8, <1>9, <1>10

(* The search for the next NAL unit behind m of them. *)
LEMMA FindNext ==
    ASSUME frame \in Frame, NEW c, Codes(frame, c), NEW m \in 0 .. Len(c) - 1, c[m + 1] + 3 <= Len(frame),
           NEW n, n = FindNalu(Behind(frame, c, m))
    PROVE  /\ n # <<>> /\ n[1] + CodeAt(n[1]) = c[m + 1] + 3
           /\ n[2] + 1 = Behind(frame, c, m + 1)
           /\ n[2] = EndOf(frame, c, m + 1)
           /\ Behind(frame, c, m) <= c[m + 1]
           /\ Behind(frame, c, m) \in Nat \ {0}
<1>1. Len(frame) \in Nat /\ Len(c) \in Nat
  BY FrameIs DEF Codes
<1>2. PICK k \in 1 .. Len(c) : k = m + 1
  BY <1>1
<1>3. PICK x \in 1 .. Len(frame) - 2 : x = c[k]
  BY DEF Codes
<1>4. PICK i : i = Behind(frame, c, m)
  OBVIOUS
<1>5. PICK b \in Nat \ {0} : b = BeginOf(frame, c[k])
  BY BeginIs
<1>6. b <= x /\ (k > 1 => c[k - 1] + 3 <= b)
  BY <1>3, <1>5, BeginIs
<1>7. i \in Nat \ {0} /\ i <= b /\ (k = 1 \/ c[k - 1] < i)
  <2>1. CASE m = 0
    <3>1. i = 1 /\ k = 1
      BY <1>2, <1>4, <2>1 DEF Behind
    <3> QED
      BY <1>5, <3>1
  <2>2. CASE m # 0
    <3>1. i = b /\ k > 1
      BY <1>1, <1>2, <1>4, <1>5, <2>2 DEF Behind
    <3>2. k - 1 \in 1 .. Len(c)
      BY <1>1, <3>1
    <3>3. c[k - 1] \in 1 .. Len(frame) - 2
      BY <3>2 DEF Codes
    <3> QED
      BY <1>1, <1>5, <1>6, <3>1, <3>3, SMTT(30)
  <2> QED
    BY <2>1, <2>2
<1>8. /\ Found(i) # {} /\ Min(Found(i)) = b /\ b + CodeAt(b) = x + 3
  BY <1>3, <1>5, <1>7, FoundNext
<1>9. n = <<b, IF Found(x + 3) = {} THEN Len(frame) ELSE Min(Found(x + 3)) - 1>>
  <2>1. FindNalu(i) = IF Found(i) = {} \/ Min(Found(i)) + CodeAt(Min(Found(i))) > Len(frame) THEN <<>>
                      ELSE <<Min(Found(i)), IF Found(Min(Found(i)) + CodeAt(Min(Found(i)))) = {}
                             THEN Len(frame) ELSE Min(Found(Min(Found(i)) + CodeAt(Min(Found(i))))) - 1>>
    BY DEF FindNalu, Found
  <2>2. ~(x + 3 > Len(frame))
    BY <1>1, <1>2, <1>3
  <2> QED
    BY <1>4, <1>8, <2>1, <2>2
<1>10. CASE k = Len(c)
  <2>1. Found(x + 3) = {}
    <3>1. x + 3 \in Nat \ {0} /\ c[Len(c)] < x + 3
      BY <1>1, <1>3, <1>10
    <3> QED
      BY <3>1, FoundNone
  <2>2. n = <<b, Len(frame)>>
    BY <1>9, <2>1
  <2>3. n # <<>> /\ n[1] = b /\ n[2] = Len(frame)
    BY <2>2
  <2>4. Behind(frame, c, m + 1) = Len(frame) + 1 /\ EndOf(frame, c, m + 1) = Len(frame)
    BY <1>1, <1>2, <1>10 DEF Behind, EndOf
  <2> QED
    BY <1>1, <1>2, <1>3, <1>4, <1>6, <1>7, <1>5, <1>8, <2>3, <2>4
<1>11. CASE k # Len(c)
  <2>1. PICK l \in 1 .. Len(c) : l = k + 1
    BY <1>1, <1>11
  <2>2. PICK d \in Nat \ {0} : d = BeginOf(frame, c[l])
    BY BeginIs
  <2>3. l > 1 /\ l - 1 = k
    BY <1>1, <2>1
  <2>4. x + 3 <= d
    BY <1>3, <2>2, <2>3, BeginIs
  <2>5. x + 3 \in Nat \ {0} /\ c[l - 1] < x + 3
    BY <1>1, <1>3, <2>3
  <2>6. Found(x + 3) # {} /\ Min(Found(x + 3)) = d
    BY <2>2, <2>4, <2>5, FoundNext
  <2>7. n = <<b, d - 1>>
    BY <1>9, <2>6
  <2>8. n # <<>> /\ n[1] = b /\ n[2] = d - 1
    BY <2>7
  <2>9. Behind(frame, c, m + 1) = d /\ EndOf(frame, c, m + 1) = d - 1
    <3>1. m + 1 # 0 /\ m + 1 < Len(c) /\ m + 1 # Len(c) /\ (m + 1) + 1 = l
      BY <1>1, <1>2, <1>11, <2>1
    <3> QED
      BY <2>2, <3>1 DEF Behind, EndOf
  <2>10. n[2] + 1 = Behind(frame, c, m + 1) /\ n[2] = EndOf(frame, c, m + 1)
    BY <2>2, <2>8, <2>9
  <2>11. i <= c[m + 1]
    BY <1>2, <1>3, <1>5, <1>6, <1>7
  <2>12. n[1] + CodeAt(n[1]) = c[m + 1] + 3
    BY <1>2, <1>3, <1>8, <2>8
  <2> QED
    BY <1>4, <1>7, <2>8, <2>10, <2>11, <2>12
<1> QED
  BY <1>10, <1>11

LEMMA FindNothing ==
    ASSUME frame \in Frame, NEW c, Codes(frame, c), NEW m \in 0 .. Len(c),
           m < Len(c) => c[m + 1] + 3 > Len(frame)
    PROVE  FindNalu(Behind(frame, c, m)) = <<>>
<1>1. Len(frame) \in Nat /\ Len(c) \in Nat
  BY FrameIs DEF Codes
<1>2. PICK i : i = Behind(frame, c, m)
  OBVIOUS
<1>3. FindNalu(i) = IF Found(i) = {} \/ Min(Found(i)) + CodeAt(Min(Found(i))) > Len(frame) THEN <<>>
                    ELSE <<Min(Found(i)), IF Found(Min(Found(i)) + CodeAt(Min(Found(i)))) = {}
                           THEN Len(frame) ELSE Min(Found(Min(Found(i)) + CodeAt(Min(Found(i))))) - 1>>
  BY DEF FindNalu, Found
<1>4. CASE m = Len(c)
  <2>1. CASE m = 0
    <3>1. i \in Nat \ {0}
      BY <1>2, <2>1 DEF Behind
    <3>2. Found(i) = {}
      BY <1>4, <2>1, <3>1, FoundNone
    <3> QED
      BY <1>2, <1>3, <3>2
  <2>2. CASE m # 0
    <3>1. i = Len(frame) + 1
      BY <1>1, <1>2, <1>4, <2>2 DEF Behind
    <3>2. PICK N \in 1 .. Len(c) : N = Len(c)
      BY <1>1, <1>4, <2>2
    <3>3. c[N] \in 1 .. Len(frame) - 2
      BY DEF Codes
    <3>4. i \in Nat \ {0} /\ c[Len(c)] < i
      BY <1>1, <3>1, <3>2, <3>3
    <3>5. Found(i) = {}
      BY <3>4, FoundNone
    <3> QED
      BY <1>2, <1>3, <3>5
  <2> QED
    BY <2>1, <2>2
<1>5. CASE m < Len(c)
  <2>1. PICK k \in 1 .. Len(c) : k = m + 1
    BY <1>1, <1>5
  <2>2. PICK b \in Nat \ {0} : b = BeginOf(frame, c[k])
    BY BeginIs
  <2>3. b <= c[k] /\ (k > 1 => c[k - 1] + 3 <= b)
    BY <2>2, BeginIs
  <2>4. i \in Nat \ {0} /\ i <= b /\ (k = 1 \/ c[k - 1] < i)
    <3>1. CASE m = 0
      <4>1. i = 1 /\ k = 1
        BY <1>2, <2>1, <3>1 DEF Behind
      <4> QED
        BY <2>2, <4>1
    <3>2. CASE m # 0
      <4>1. i = b /\ k > 1
        BY <1>1, <1>2, <1>5, <2>1, <2>2, <3>2 DEF Behind
      <4>2. k - 1 \in 1 .. Len(c)
        BY <1>1, <4>1
      <4>3. c[k - 1] \in 1 .. Len(frame) - 2
        BY <4>2 DEF Codes
      <4> QED
        BY <1>1, <2>2, <2>3, <4>1, <4>3
    <3> QED
      BY <3>1, <3>2
  <2>5. Found(i) # {} /\ Min(Found(i)) + CodeAt(Min(Found(i))) = c[k] + 3
    BY <2>2, <2>4, FoundNext
  <2>6. c[k] + 3 > Len(frame)
    BY <1>5, <2>1
  <2> QED
    BY <1>2, <1>3, <2>5, <2>6
<1> QED
  BY <1>1, <1>4, <1>5

-----------------------------------------------------------------------------
LEMMA EndIs ==
    ASSUME NEW f \in Frame, NEW c, Codes(f, c), NEW k \in 1 .. Len(c)
    PROVE  /\ c[k] + 3 \in 4 .. Len(f) + 1 /\ EndOf(f, c, k) \in Nat
           /\ c[k] + 2 <= EndOf(f, c, k) /\ EndOf(f, c, k) <= Len(f)
           /\ k < Len(c) => c[k] + 3 <= Len(f)
<1>1. Len(f) \in Nat /\ Len(c) \in Nat
  BY FrameIs DEF Codes
<1>2. PICK x \in 1 .. Len(f) - 2 : x = c[k]
  BY DEF Codes
<1>3. CASE k = Len(c)
  <2>1. EndOf(f, c, k) = Len(f)
    BY <1>3 DEF EndOf
  <2>2. x + 3 \in 4 .. Len(f) + 1 /\ x + 2 <= Len(f) /\ Len(f) <= Len(f) /\ ~(k < Len(c))
    BY <1>1, <1>2, <1>3
  <2> QED
    BY <1>1, <1>2, <2>1, <2>2, Zenon
<1>4. CASE k # Len(c)
  <2>1. PICK l \in 1 .. Len(c) : l = k + 1
    BY <1>1, <1>4
  <2>2. PICK d \in Nat \ {0} : d = BeginOf(f, c[l])
    BY BeginIs
  <2>3. PICK y \in 1 .. Len(f) - 2 : y = c[l]
    BY DEF Codes
  <2>4. l > 1 /\ l - 1 = k
    BY <1>1, <2>1
  <2>5. x + 3 <= d /\ d <= y
    BY <1>2, <2>2, <2>3, <2>4, BeginIs
  <2>6. EndOf(f, c, k) = d - 1
    BY <1>4, <2>1, <2>2 DEF EndOf
  <2>7. x + 3 <= Len(f) /\ d - 1 \in Nat /\ x + 2 <= d - 1 /\ d - 1 <= Len(f)
    BY <1>1, <2>2, <2>3, <2>5
  <2>8. x + 3 \in 4 .. Len(f) + 1
    BY <1>1, <2>7
  <2> QED
    BY <1>2, <2>6, <2>7, <2>8, Zenon
<1> QED
  BY <1>3, <1>4

LEMMA PieceIs ==
    ASSUME NEW f \in Frame, NEW i \in Nat \ {0}, NEW e \in Nat, i - 1 <= e, e <= Len(f),
           NEW u, u = SubSeq(f, i, e)
    PROVE  /\ u \in Frame /\ Len(u) = e - i + 1
           /\ u = <<>> <=> i > e
           /\ i <= e => u[1] = f[i]
<1>1. PICK B : B = 0 .. 255
  OBVIOUS
<1>2. f \in Seq(B)
  BY <1>1 DEF Frame
<1>3. u \in Seq(B) /\ Len(u) = e - i + 1 /\ (i <= e => u[1] = f[i])
  BY <1>2
<1>4. u = <<>> <=> i > e
  BY <1>3
<1> QED
  BY <1>1, <1>3, <1>4 DEF Frame

(* The NAL units: all that the start codes begin, but for an empty last one. *)
Listed(f, c, U) ==
    /\ U \in Seq(Frame) /\ Len(U) \in Nat /\ Len(U) <= Len(c)
    /\ \A k \in 1 .. Len(U) : U[k] = SubSeq(f, c[k] + 3, EndOf(f, c, k)) /\ c[k] + 3 <= Len(f)
    /\ \A k \in 1 .. Len(c) : c[k] + 3 <= Len(f) => k <= Len(U)

LEMMA UnitsListed ==
    ASSUME NEW f \in Frame
    PROVE  Listed(f, CodeOf(f), UnitsOf(f))
<1>1. PICK c : c = CodeOf(f) /\ Codes(f, c)
  BY CodesListed
<1>2. PICK N \in Nat : N = Len(c)
  BY <1>1 DEF Codes
<1>3. PICK A : A = AllOf(f, c)
  OBVIOUS
<1>4. A = [k \in 1 .. N |-> SubSeq(f, c[k] + 3, EndOf(f, c, k))]
  BY <1>2, <1>3 DEF AllOf
<1>5. \A k \in 1 .. N : A[k] = SubSeq(f, c[k] + 3, EndOf(f, c, k)) /\ A[k] \in Frame
  <2> TAKE k \in 1 .. N
  <2>1. PICK i : i = c[k] + 3
    OBVIOUS
  <2>2. PICK e : e = EndOf(f, c, k)
    OBVIOUS
  <2>3. i \in Nat \ {0} /\ e \in Nat /\ i - 1 <= e /\ e <= Len(f)
    <3>1. i \in 4 .. Len(f) + 1 /\ e \in Nat /\ c[k] + 2 <= e /\ e <= Len(f)
      BY <1>1, <1>2, <2>1, <2>2, EndIs
    <3>2. c[k] \in Int
      BY <1>1, <1>2 DEF Codes
    <3> QED
      BY <2>1, <3>1, <3>2
  <2>4. SubSeq(f, i, e) \in Frame
    BY <2>3, PieceIs
  <2> QED
    BY <1>4, <2>1, <2>2, <2>4
<1>6. A \in Seq(Frame) /\ Len(A) = N /\ DOMAIN A = 1 .. N
  <2>1. DOMAIN A = 1 .. N
    BY <1>4
  <2>2. A \in [1 .. N -> Frame]
    <3>1. A = [k \in 1 .. N |-> A[k]]
      BY <1>4, Zenon
    <3> QED
      BY <1>5, <3>1, Zenon
  <2>3. Len(A) = N
    BY <1>2, <2>1
  <2> QED
    BY <1>2, <2>1, <2>2, <2>3
<1>7. UnitsOf(f) = IF A # <<>> /\ A[Len(A)] = <<>> THEN SubSeq(A, 1, Len(A) - 1) ELSE A
  BY <1>1, <1>3 DEF UnitsOf, Last, Front
<1>8. \A k \in 1 .. N : k < N => c[k] + 3 <= Len(f)
  BY <1>1, <1>2, EndIs
<1>9. ASSUME N > 0 PROVE A[N] = <<>> <=> c[N] + 3 > Len(f)
  <2>1. N \in 1 .. Len(c) /\ EndOf(f, c, N) = Len(f)
    BY <1>2, <1>9 DEF EndOf
  <2>2. PICK i : i = c[N] + 3
    OBVIOUS
  <2>3. i \in 4 .. Len(f) + 1
    BY <1>1, <2>1, <2>2, EndIs
  <2>4. Len(f) \in Nat
    BY FrameIs
  <2>5. A[N] = SubSeq(f, i, Len(f))
    <3>1. N \in 1 .. N
      BY <1>9
    <3> QED
      BY <1>5, <2>1, <2>2, <3>1
  <2>6. i \in Nat \ {0} /\ i - 1 <= Len(f) /\ Len(f) <= Len(f)
    BY <2>3, <2>4
  <2>7. SubSeq(f, i, Len(f)) = <<>> <=> i > Len(f)
    <3>1. PICK u, e : u = SubSeq(f, i, e) /\ e = Len(f)
      OBVIOUS
    <3>2. e \in Nat /\ i - 1 <= e /\ e <= Len(f)
      BY <2>4, <2>6, <3>1
    <3>3. u = <<>> <=> i > e
      BY <2>6, <3>1, <3>2, PieceIs
    <3> QED
      BY <3>1, <3>3
  <2> QED
    BY <2>2, <2>5, <2>7
<1>10. CASE N = 0
  <2>1. A = <<>>
    BY <1>6, <1>10
  <2>2. UnitsOf(f) = <<>>
    BY <1>7, <2>1
  <2>3. <<>> \in Seq(Frame) /\ Len(<<>>) = 0
    OBVIOUS
  <2> QED
    BY <1>1, <1>2, <1>10, <2>2, <2>3 DEF Listed
<1>11. CASE N > 0 /\ c[N] + 3 > Len(f)
  <2>1. A # <<>> /\ A[Len(A)] = <<>>
    BY <1>6, <1>9, <1>11
  <2>2. PICK U : U = UnitsOf(f)
    OBVIOUS
  <2>3. U = SubSeq(A, 1, N - 1)
    BY <1>6, <1>7, <2>1, <2>2
  <2>4. U \in Seq(Frame) /\ Len(U) = N - 1 /\ \A k \in 1 .. N - 1 : U[k] = A[k]
    BY <1>6, <1>11, <2>3
  <2>5. \A k \in 1 .. N - 1 : k \in 1 .. N /\ k < N
    BY <1>11
  <2>6. \A k \in 1 .. N : c[k] + 3 <= Len(f) => k <= N - 1
    <3> TAKE k \in 1 .. N
    <3>1. k = N => ~(c[k] + 3 <= Len(f))
      <4>1. c[N] \in Int /\ Len(f) \in Int
        BY <1>1, <1>2, <1>11, FrameIs DEF Codes
      <4> QED
        BY <1>11, <4>1
    <3> QED
      BY <3>1
  <2>7. \A k \in 1 .. N - 1 : U[k] = SubSeq(f, c[k] + 3, EndOf(f, c, k)) /\ c[k] + 3 <= Len(f)
    BY <1>5, <1>8, <2>4, <2>5
  <2> QED
    BY <1>1, <1>2, <1>11, <2>2, <2>4, <2>6, <2>7 DEF Listed
<1>12. CASE N > 0 /\ ~(c[N] + 3 > Len(f))
  <2>1. UnitsOf(f) = A
    BY <1>6, <1>7, <1>9, <1>12
  <2>2. \A k \in 1 .. N : c[k] + 3 <= Len(f)
    <3> TAKE k \in 1 .. N
    <3>1. k = N => c[k] + 3 <= Len(f)
      <4>1. c[N] \in Int /\ Len(f) \in Int
        BY <1>1, <1>2, <1>12, FrameIs DEF Codes
      <4> QED
        BY <1>12, <4>1
    <3> QED
      BY <1>8, <3>1
  <2> QED
    BY <1>1, <1>2, <1>5, <1>6, <2>1, <2>2 DEF Listed
<1> QED
  BY <1>2, <1>10, <1>11, <1>12

(* What the search behind m NAL units finds: the next, and its type is right
   even when it is empty. *)
LEMMA LearnsNext ==
    ASSUME frame \in Frame, NEW U, U = NalUnits, NEW m \in 0 .. Len(U),
           NEW c, c = CodeOf(frame), NEW n, n = FindNalu(Behind(frame, c, m)), m < Len(U)
    PROVE  /\ n # <<>> /\ Len(frame) - Behind(frame, c, m) + 1 > 3
           /\ n[2] + 1 = Behind(frame, c, m + 1)
           /\ SubSeq(frame, n[1] + CodeAt(n[1]), n[2]) = U[m + 1]
           /\ U[m + 1] = <<>> => frame[n[1] + CodeAt(n[1])] = 0
           /\ U[m + 1] # <<>> => frame[n[1] + CodeAt(n[1])] = U[m + 1][1]
<1>1. PICK f : f = frame
  OBVIOUS
<1>2. f \in Frame /\ Codes(f, c) /\ Listed(f, c, U) /\ Len(f) \in Nat
  BY <1>1, NalUnitsAre, CodesListed, UnitsListed, FrameIs
<1>3. PICK k \in 1 .. Len(U) : k = m + 1
  BY <1>2 DEF Listed
<1>4. k \in 1 .. Len(c) /\ Len(c) \in Nat /\ m \in 0 .. Len(c) - 1
  BY <1>2, <1>3 DEF Listed, Codes
<1>5. U[k] = SubSeq(f, c[k] + 3, EndOf(f, c, k)) /\ c[k] + 3 <= Len(f)
  BY <1>2 DEF Listed
<1>6. /\ n # <<>> /\ n[1] + CodeAt(n[1]) = c[k] + 3
      /\ n[2] + 1 = Behind(f, c, m + 1)
      /\ n[2] = EndOf(f, c, k)
      /\ Behind(f, c, m) <= c[k]
      /\ Behind(f, c, m) \in Nat \ {0}
  BY <1>1, <1>2, <1>3, <1>4, <1>5, FindNext
<1>7. PICK i \in 4 .. Len(f) + 1 : i = c[k] + 3
  BY <1>2, <1>4, EndIs
<1>8. PICK e \in Nat : e = EndOf(f, c, k) /\ i - 1 <= e /\ e <= Len(f)
  <2>1. EndOf(f, c, k) \in Nat /\ c[k] + 2 <= EndOf(f, c, k) /\ EndOf(f, c, k) <= Len(f)
    BY <1>2, <1>4, EndIs
  <2>2. c[k] \in Int
    BY <1>2, <1>4 DEF Codes
  <2> QED
    BY <1>7, <2>1, <2>2, SMTT(30)
<1>9. i \in Nat \ {0}
  BY <1>7
<1>10. PICK u : u = U[k] /\ u = SubSeq(f, i, e)
  BY <1>5, <1>7, <1>8
<1>11. (u = <<>> <=> i > e) /\ (i <= e => u[1] = f[i])
  BY <1>2, <1>8, <1>9, <1>10, PieceIs
<1>12. u = <<>> => f[i] = 0
  <2> SUFFICES ASSUME i > e PROVE f[i] = 0
    BY <1>11
  <2>1. k # Len(c)
    <3>1. k = Len(c) => e = Len(f)
      BY <1>8 DEF EndOf
    <3> QED
      BY <1>2, <1>5, <1>7, <3>1
  <2>2. PICK l \in 1 .. Len(c) : l = k + 1
    BY <1>4, <2>1
  <2>3. PICK d \in Nat \ {0} : d = BeginOf(f, c[l])
    BY <1>2, BeginIs
  <2>4. f[d] = 0
    BY <1>2, <2>3, BeginIs
  <2>5. e = d - 1
    BY <1>8, <2>1, <2>2, <2>3 DEF EndOf
  <2>6. i = d
    BY <1>7, <1>8, <2>3, <2>5, SMTT(30)
  <2> QED
    BY <2>4, <2>6
<1>13. u # <<>> => f[i] = u[1]
  BY <1>7, <1>8, <1>11
<1>14. Len(f) - Behind(f, c, m) + 1 > 3
  <2>1. PICK b \in Nat : b = Behind(f, c, m)
    BY <1>6
  <2>2. b <= c[k] /\ c[k] \in Int
    BY <1>2, <1>4, <1>6, <2>1 DEF Codes
  <2> QED
    BY <1>2, <1>5, <2>1, <2>2, SMTT(30)
<1>15. n[1] + CodeAt(n[1]) = i /\ n[2] = e /\ n # <<>> /\ n[2] + 1 = Behind(f, c, m + 1)
  BY <1>6, <1>7, <1>8
<1> QED
  BY <1>1, <1>3, <1>10, <1>12, <1>13, <1>14, <1>15

LEMMA LearnsNoMore ==
    ASSUME frame \in Frame, NEW U, U = NalUnits
    PROVE  FindNalu(Behind(frame, CodeOf(frame), Len(U))) = <<>>
<1>1. PICK c : c = CodeOf(frame)
  OBVIOUS
<1>2. Codes(frame, c) /\ Listed(frame, c, U) /\ Len(frame) \in Nat
  BY <1>1, NalUnitsAre, CodesListed, UnitsListed, FrameIs
<1>3. PICK m \in 0 .. Len(c) : m = Len(U)
  BY <1>2 DEF Listed, Codes
<1>4. ASSUME m < Len(c) PROVE c[m + 1] + 3 > Len(frame)
  <2>1. m + 1 \in 1 .. Len(c) /\ ~(m + 1 <= Len(U))
    BY <1>2, <1>3, <1>4 DEF Codes
  <2>2. ~(c[m + 1] + 3 <= Len(frame)) /\ c[m + 1] \in Int
    BY <1>2, <2>1 DEF Listed, Codes
  <2> QED
    BY <1>2, <2>2
<1> QED
  BY <1>1, <1>2, <1>3, <1>4, FindNothing

-----------------------------------------------------------------------------
LEMMA GreatestIs ==
    ASSUME NEW N \in Nat, NEW S \in SUBSET (1 .. N), S # {}
    PROVE  Max(S) \in S /\ \A y \in S : Max(S) >= y
<1>1. PICK R : R = {N - x : x \in S}
  OBVIOUS
<1>2. R \in SUBSET Nat /\ R # {}
  <2>1. \A x \in S : N - x \in Nat
    <3> TAKE x \in S
    <3>1. x \in 1 .. N
      OBVIOUS
    <3> QED
      BY <3>1
  <2>2. PICK x : x \in S
    OBVIOUS
  <2>3. N - x \in R
    BY <1>1, <2>2
  <2> QED
    BY <1>1, <2>1, <2>3
<1>3. PICK r \in R : \A y \in R : r <= y
  BY <1>2, LeastIs
<1>4. PICK x \in S : r = N - x
  BY <1>1, <1>3
<1>5. ASSUME NEW y \in S PROVE x >= y
  <2>1. N - y \in R
    BY <1>1
  <2>2. N - x <= N - y
    BY <1>3, <1>4, <2>1
  <2>3. x \in 1 .. N /\ y \in 1 .. N
    OBVIOUS
  <2> QED
    BY <2>2, <2>3
<1> QED
  BY <1>4, <1>5 DEF Max

(* A sequence and what follows it. *)
LEMMA JoinedIs ==
    ASSUME NEW X, NEW us \in Seq(X), NEW w \in Seq(X), NEW v, v = us \o w
    PROVE  /\ v \in Seq(X) /\ Len(v) = Len(us) + Len(w) /\ Len(us) \in Nat /\ Len(w) \in Nat
           /\ DOMAIN us = 1 .. Len(us) /\ DOMAIN v = 1 .. Len(v)
           /\ \A i \in 1 .. Len(us) : v[i] = us[i]
           /\ \A i \in 1 .. Len(w) : v[Len(us) + i] = w[i]
  OBVIOUS

LEMMA BeginningIs ==
    ASSUME NEW X, NEW us \in Seq(X), NEW n \in 0 .. Len(us), NEW p, p = SubSeq(us, 1, n)
    PROVE  /\ p \in Seq(X) /\ Len(p) = n /\ DOMAIN p = 1 .. n /\ \A i \in 1 .. n : p[i] = us[i]
           /\ n = Len(us) => p = us
           /\ p = [i \in 1 .. n |-> us[i]]
<1>1. Len(us) \in Nat /\ p \in Seq(X) /\ Len(p) = n /\ DOMAIN p = 1 .. n /\ \A i \in 1 .. n : p[i] = us[i]
  OBVIOUS
<1>2. n = Len(us) => p = us
  BY <1>1
<1>3. p = [i \in 1 .. n |-> us[i]]
  BY <1>1
<1> QED
  BY <1>1, <1>2, <1>3

LEMMA BeginningSame ==
    ASSUME NEW X, NEW us \in Seq(X), NEW w \in Seq(X), NEW n \in 0 .. Len(us)
    PROVE  SubSeq(us \o w, 1, n) = SubSeq(us, 1, n)
<1>1. PICK v : v = us \o w
  OBVIOUS
<1>2. /\ v \in Seq(X) /\ Len(v) = Len(us) + Len(w) /\ Len(us) \in Nat /\ Len(w) \in Nat
      /\ \A i \in 1 .. Len(us) : v[i] = us[i]
  BY <1>1, JoinedIs
<1>3. n \in 0 .. Len(v)
  BY <1>2
<1>4. SubSeq(v, 1, n) = [i \in 1 .. n |-> v[i]] /\ SubSeq(us, 1, n) = [i \in 1 .. n |-> us[i]]
  BY <1>2, <1>3, BeginningIs
<1>5. [i \in 1 .. n |-> v[i]] = [i \in 1 .. n |-> us[i]]
  <2>1. \A i \in 1 .. n : v[i] = us[i]
    BY <1>2
  <2> QED
    BY <2>1
<1> QED
  BY <1>1, <1>4, <1>5

-----------------------------------------------------------------------------
(* The kinds of NAL units, of which the empty is none. *)
KindIn(codec, b) ==
    IF codec = "H264" THEN IF b % 32 = 7 THEN "sps" ELSE IF b % 32 = 8 THEN "pps" ELSE "other"
    ELSE IF (b \div 2) % 64 = 32 THEN "vps" ELSE IF (b \div 2) % 64 = 33 THEN "sps"
    ELSE IF (b \div 2) % 64 = 34 THEN "pps" ELSE "other"
NeededIn(codec) == IF codec = "H264" THEN {"sps", "pps"} ELSE {"vps", "sps", "pps"}

LEMMA KindIs ==
    ASSUME NEW b
    PROVE  Kind(b) = KindIn(vcodec_id, b) /\ Kind(b)' = KindIn(vcodec_id', b)
           /\ Needed = NeededIn(vcodec_id) /\ Needed' = NeededIn(vcodec_id')
<1> DEFINE Shape(codec, T, type, kinds) ==
               /\ T = (IF codec = "H264" THEN [sps |-> 7, pps |-> 8] ELSE [vps |-> 32, sps |-> 33, pps |-> 34])
               /\ type = (IF codec = "H264" THEN b % 32 ELSE (b \div 2) % 64)
               /\ kinds = {k \in DOMAIN T : T[k] = type}
<1>1. ASSUME NEW codec, NEW T, NEW type, NEW kinds, Shape(codec, T, type, kinds)
      PROVE  /\ (IF kinds = {} THEN "other" ELSE CHOOSE k \in kinds : TRUE) = KindIn(codec, b)
             /\ DOMAIN T = NeededIn(codec)
  <2>1. CASE codec = "H264"
    <3>1. T = [sps |-> 7, pps |-> 8] /\ type = b % 32
      BY <1>1, <2>1
    <3>2. DOMAIN T = {"sps", "pps"} /\ T["sps"] = 7 /\ T["pps"] = 8
      BY <3>1
    <3>3. kinds = (IF type = 7 THEN {"sps"} ELSE {}) \cup (IF type = 8 THEN {"pps"} ELSE {})
      BY <1>1, <3>2
    <3>4. (IF kinds = {} THEN "other" ELSE CHOOSE k \in kinds : TRUE)
             = IF type = 7 THEN "sps" ELSE IF type = 8 THEN "pps" ELSE "other"
      BY <3>3
    <3> QED
      BY <2>1, <3>1, <3>2, <3>4 DEF KindIn, NeededIn
  <2>2. CASE codec # "H264"
    <3>1. T = [vps |-> 32, sps |-> 33, pps |-> 34] /\ type = (b \div 2) % 64
      BY <1>1, <2>2
    <3>2. DOMAIN T = {"vps", "sps", "pps"} /\ T["vps"] = 32 /\ T["sps"] = 33 /\ T["pps"] = 34
      BY <3>1
    <3>3. kinds = (IF type = 32 THEN {"vps"} ELSE {}) \cup (IF type = 33 THEN {"sps"} ELSE {})
                  \cup (IF type = 34 THEN {"pps"} ELSE {})
      BY <1>1, <3>2
    <3>4. (IF kinds = {} THEN "other" ELSE CHOOSE k \in kinds : TRUE)
             = IF type = 32 THEN "vps" ELSE IF type = 33 THEN "sps" ELSE IF type = 34 THEN "pps" ELSE "other"
      BY <3>3
    <3> QED
      BY <2>2, <3>1, <3>2, <3>4 DEF KindIn, NeededIn
  <2> QED
    BY <2>1, <2>2
<1> HIDE DEF KindIn, NeededIn
<1>2. Kind(b) = KindIn(vcodec_id, b) /\ Needed = NeededIn(vcodec_id)
  <2>1. PICK codec, T, type, kinds : codec = vcodec_id /\ Shape(codec, T, type, kinds)
    OBVIOUS
  <2>2. /\ (IF kinds = {} THEN "other" ELSE CHOOSE k \in kinds : TRUE) = KindIn(codec, b)
        /\ DOMAIN T = NeededIn(codec)
    <3> HIDE DEF Shape
    <3> QED
      BY <1>1, <2>1
  <2>3. T = NalType /\ Needed = DOMAIN T
    BY <2>1 DEF Needed, NalType
  <2>4. Kind(b) = IF kinds = {} THEN "other" ELSE CHOOSE k \in kinds : TRUE
    BY <2>1, <2>3 DEF Kind, Needed
  <2> QED
    BY <2>1, <2>2, <2>3, <2>4
<1>3. Kind(b)' = KindIn(vcodec_id', b) /\ Needed' = NeededIn(vcodec_id')
  <2>1. PICK codec, T, type, kinds : codec = vcodec_id' /\ Shape(codec, T, type, kinds)
    OBVIOUS
  <2>2. /\ (IF kinds = {} THEN "other" ELSE CHOOSE k \in kinds : TRUE) = KindIn(codec, b)
        /\ DOMAIN T = NeededIn(codec)
    <3> HIDE DEF Shape
    <3> QED
      BY <1>1, <2>1
  <2>3. T = NalType' /\ Needed' = DOMAIN T
    BY <2>1 DEF Needed, NalType
  <2>4. Kind(b)' = IF kinds = {} THEN "other" ELSE CHOOSE k \in kinds : TRUE
    BY <2>1, <2>3 DEF Kind, Needed
  <2> QED
    BY <2>1, <2>2, <2>3, <2>4
<1> QED
  BY <1>2, <1>3

LEMMA KindOfIs ==
    ASSUME NEW u
    PROVE  /\ KindOf(u) \in ParamSet \cup {"other"} /\ KindOf(<<>>) = "other"
           /\ KindOf(u) # "other" => u # <<>> /\ KindOf(u) \in Needed
  BY KindIs DEF KindOf, KindIn, NeededIn, ParamSet

LEMMA ZeroIsOther == Kind(0) = "other"
  BY KindIs DEF KindIn

-----------------------------------------------------------------------------
(* The parameter sets of a sequence of NAL units. *)
Whole(us) == {n \in DOMAIN us : \A k \in Needed : Among(k, SubSeq(us, 1, n))}
Used(us) == IF Whole(us) = {} THEN us ELSE SubSeq(us, 1, Min(Whole(us)))
Places(k, us) == {i \in DOMAIN us : KindOf(us[i]) = k}
SetOf(k, us) == IF Places(k, us) = {} THEN <<>> ELSE Cut(us[Max(Places(k, us))])

LEMMA LatestIs == ASSUME NEW us PROVE Latest(us) = [k \in ParamSet |-> SetOf(k, Used(us))]
  BY DEF Latest, SetOf, Places, Used, Whole

LEMMA SameLatest ==
    ASSUME vcodec_id' = vcodec_id, NEW us, NEW k
    PROVE  Latest(us)' = Latest(us) /\ Among(k, us)' = Among(k, us)
<1>1. \A u : KindOf(u)' = KindOf(u)
  <2> TAKE u
  <2>1. \A b : Kind(b)' = Kind(b)
    BY KindIs
  <2> QED
    BY <2>1 DEF KindOf
<1>2. Needed' = Needed
  BY KindIs
<1>3. \A l, vs : Among(l, vs)' = Among(l, vs)
  BY <1>1 DEF Among
<1>4. \A l, vs : Places(l, vs)' = Places(l, vs)
  BY <1>1 DEF Places
<1>5. \A vs : Whole(vs)' = Whole(vs)
  BY <1>2, <1>3 DEF Whole
<1>6. \A vs : Used(vs)' = Used(vs)
  BY <1>5 DEF Used
<1>7. \A l, vs : SetOf(l, vs)' = SetOf(l, vs)
  BY <1>4 DEF SetOf
<1>8. Latest(us)' = [l \in ParamSet |-> SetOf(l, Used(us))']
  BY DEF Latest, SetOf, Places, Used, Whole
<1>9. Latest(us)' = [l \in ParamSet |-> SetOf(l, Used(us))]
  BY <1>6, <1>7, <1>8
<1> QED
  BY <1>3, <1>9, LatestIs

(* A set of a kind is there when a unit of the kind is. *)
LEMMA SetIs ==
    ASSUME NEW us \in Seq(Frame), NEW k \in ParamSet
    PROVE  SetOf(k, us) # <<>> <=> Among(k, us)
<1>1. Among(k, us) <=> Places(k, us) # {}
  BY DEF Among, Places
<1>2. ASSUME Places(k, us) # {} PROVE SetOf(k, us) # <<>>
  <2>1. PICK N \in Nat : N = Len(us) /\ DOMAIN us = 1 .. N
    OBVIOUS
  <2>2. PICK P : P = Places(k, us)
    OBVIOUS
  <2>3. P \in SUBSET (1 .. N) /\ P # {}
    BY <1>2, <2>1, <2>2 DEF Places
  <2>4. PICK i : i = Max(P)
    OBVIOUS
  <2>5. i \in P
    BY <2>3, <2>4, GreatestIs
  <2>6. i \in 1 .. N /\ KindOf(us[i]) = k
    BY <2>1, <2>2, <2>5 DEF Places
  <2>7. PICK u : u = us[i]
    OBVIOUS
  <2>8. u \in Frame /\ u # <<>>
    <3>1. u \in Frame
      BY <2>1, <2>6, <2>7
    <3>2. k # "other"
      BY DEF ParamSet
    <3> QED
      BY <2>6, <2>7, <3>1, <3>2, KindOfIs
  <2>9. Cut(u) # <<>>
    <3>1. PICK B : B = 0 .. 255
      OBVIOUS
    <3>2. u \in Seq(B)
      BY <2>8, <3>1 DEF Frame
    <3>3. Len(u) \in Nat \ {0}
      BY <2>8, <3>2
    <3>4. PICK m : m = IF Len(u) > PARAM_MAX THEN PARAM_MAX ELSE Len(u)
      OBVIOUS
    <3>5. m \in Nat \ {0} /\ m <= Len(u)
      BY <3>3, <3>4, ParamAssumption
    <3>6. m \in 0 .. Len(u)
      BY <3>3, <3>5
    <3>7. Len(SubSeq(u, 1, m)) = m
      BY <3>2, <3>6, BeginningIs
    <3>8. Len(<<>>) = 0
      OBVIOUS
    <3>9. SubSeq(u, 1, m) # <<>>
      BY <3>5, <3>7, <3>8
    <3> QED
      BY <3>4, <3>9 DEF Cut
  <2> QED
    BY <1>2, <2>2, <2>4, <2>7, <2>9 DEF SetOf
<1>3. Places(k, us) = {} => SetOf(k, us) = <<>>
  BY DEF SetOf
<1> QED
  BY <1>1, <1>2, <1>3

LEMMA WholeIs ==
    ASSUME NEW us \in Seq(Frame)
    PROVE  /\ Whole(us) \in SUBSET (1 .. Len(us)) /\ Len(us) \in Nat
           /\ Used(us) \in Seq(Frame)
           /\ Whole(us) = {} => Used(us) = us
           /\ Whole(us) # {} => /\ Min(Whole(us)) \in Whole(us)
                                /\ \A n \in Whole(us) : Min(Whole(us)) <= n
                                /\ \A k \in Needed : Among(k, Used(us))
<1>1. Len(us) \in Nat /\ DOMAIN us = 1 .. Len(us)
  OBVIOUS
<1>2. PICK W : W = Whole(us)
  OBVIOUS
<1>3. W \in SUBSET (1 .. Len(us))
  BY <1>1, <1>2 DEF Whole
<1>4. W = {} => Used(us) = us
  BY <1>2 DEF Used
<1>5. ASSUME W # {}
      PROVE  /\ Min(W) \in W /\ \A n \in W : Min(W) <= n
             /\ \A k \in Needed : Among(k, Used(us))
             /\ Used(us) \in Seq(Frame)
  <2>1. W \in SUBSET Nat
    BY <1>3
  <2>2. Min(W) \in W /\ \A n \in W : Min(W) <= n
    BY <1>5, <2>1, LeastIs
  <2>3. PICK m : m = Min(W)
    OBVIOUS
  <2>4. m \in 0 .. Len(us) /\ \A k \in Needed : Among(k, SubSeq(us, 1, m))
    BY <1>2, <1>3, <2>2, <2>3 DEF Whole
  <2>5. Used(us) = SubSeq(us, 1, m)
    BY <1>2, <1>5, <2>3 DEF Used
  <2>6. SubSeq(us, 1, m) \in Seq(Frame)
    BY <2>4, BeginningIs
  <2> QED
    BY <2>2, <2>4, <2>5, <2>6
<1> QED
  BY <1>1, <1>2, <1>3, <1>4, <1>5

(* All is known of the units when all kinds are among them. *)
LEMMA KnownWhole ==
    ASSUME NEW us \in Seq(Frame), codec_data = Latest(us)
    PROVE  AllKnown <=> Whole(us) # {}
<1>1. \A k \in Needed : codec_data[k] # <<>> <=> Among(k, Used(us))
  <2> TAKE k \in Needed
  <2>1. k \in ParamSet
    BY NeededIs
  <2>2. codec_data[k] = SetOf(k, Used(us))
    BY <2>1, LatestIs
  <2> QED
    BY <2>1, <2>2, WholeIs, SetIs
<1>2. Whole(us) # {} => AllKnown
  BY <1>1, WholeIs DEF AllKnown
<1>3. ASSUME Whole(us) = {}, AllKnown PROVE FALSE
  <2>1. Used(us) = us
    BY <1>3, WholeIs
  <2>2. \A k \in Needed : Among(k, us)
    BY <1>1, <1>3, <2>1 DEF AllKnown
  <2>3. PICK k : k \in Needed
    BY KindIs DEF NeededIn
  <2>4. Len(us) \in 1 .. Len(us) /\ DOMAIN us = 1 .. Len(us)
    <3>1. Among(k, us)
      BY <2>2, <2>3
    <3>2. DOMAIN us = 1 .. Len(us) /\ Len(us) \in Nat
      OBVIOUS
    <3>3. DOMAIN us # {}
      BY <3>1 DEF Among
    <3> QED
      BY <3>2, <3>3
  <2>5. SubSeq(us, 1, Len(us)) = us
    BY <2>4, BeginningIs
  <2>6. Len(us) \in Whole(us)
    BY <2>2, <2>4, <2>5 DEF Whole
  <2> QED
    BY <1>3, <2>6
<1> QED
  BY <1>2, <1>3

(* One unit more, as long as something is missing. *)
LEMMA LatestNext ==
    ASSUME NEW us \in Seq(Frame), Whole(us) = {}, NEW u \in Frame, NEW v, v = us \o <<u>>
    PROVE  Latest(v) = IF KindOf(u) = "other" THEN Latest(us)
                       ELSE [Latest(us) EXCEPT ![KindOf(u)] = Cut(u)]
<1>0. <<u>> \in Seq(Frame) /\ Len(<<u>>) = 1 /\ <<u>>[1] = u
  OBVIOUS
<1>1. PICK N \in Nat : N = Len(us)
  OBVIOUS
<1>2. /\ v \in Seq(Frame) /\ Len(v) = N + 1 /\ DOMAIN us = 1 .. N /\ DOMAIN v = 1 .. N + 1
      /\ \A i \in 1 .. N : v[i] = us[i]
      /\ v[N + 1] = u
  BY <1>0, <1>1, JoinedIs
<1>3. Used(us) = us
  BY WholeIs
<1>4. Used(v) = v
  <2>1. \A n \in Whole(v) : n = N + 1
    <3> TAKE n \in Whole(v)
    <3>1. n \in 1 .. N + 1
      BY <1>2 DEF Whole
    <3>2. ASSUME n \in 1 .. N PROVE FALSE
      <4>1. SubSeq(v, 1, n) = SubSeq(us, 1, n)
        <5>1. n \in 0 .. Len(us)
          BY <1>1, <3>2
        <5> QED
          BY <1>0, <5>1, BeginningSame
      <4>2. n \in Whole(us)
        BY <1>2, <3>2, <4>1 DEF Whole
      <4> QED
        BY <4>2
    <3> QED
      BY <3>1, <3>2
  <2>2. CASE Whole(v) = {}
    BY <2>2 DEF Used
  <2>3. CASE Whole(v) # {}
    <3>1. Min(Whole(v)) = N + 1
      BY <1>2, <2>1, <2>3, WholeIs
    <3>2. SubSeq(v, 1, N + 1) = v
      <4>1. PICK n \in 0 .. Len(v) : n = N + 1 /\ n = Len(v)
        BY <1>2
      <4>2. SubSeq(v, 1, n) = v
        BY <1>2, <4>1, BeginningIs, ZenonT(60)
      <4> QED
        BY <4>1, <4>2
    <3> QED
      BY <2>3, <3>1, <3>2 DEF Used
  <2> QED
    BY <2>2, <2>3
<1>5. ASSUME NEW k \in ParamSet, KindOf(u) # k PROVE SetOf(k, v) = SetOf(k, us)
  <2>1. PICK P : P = Places(k, us)
    OBVIOUS
  <2>2. Places(k, v) = P
    <3>1. \A i \in 1 .. N + 1 : KindOf(v[i]) = k <=> i \in 1 .. N /\ KindOf(us[i]) = k
      <4> TAKE i \in 1 .. N + 1
      <4>1. i \in 1 .. N \/ i = N + 1
        OBVIOUS
      <4>2. CASE i \in 1 .. N
        BY <1>2, <4>2
      <4>3. CASE i = N + 1
        <5>1. KindOf(v[i]) # k /\ i \notin 1 .. N
          BY <1>2, <1>5, <4>3
        <5> QED
          BY <5>1
      <4> QED
        BY <4>1, <4>2, <4>3
    <3>2. \A i \in 1 .. N : i \in 1 .. N + 1
      OBVIOUS
    <3> QED
      BY <1>2, <2>1, <3>1, <3>2 DEF Places
  <2>3. CASE P = {}
    BY <2>1, <2>2, <2>3 DEF SetOf
  <2>4. CASE P # {}
    <3>1. P \in SUBSET (1 .. N)
      BY <1>2, <2>1 DEF Places
    <3>2. PICK i \in P : i = Max(P)
      BY <2>4, <3>1, GreatestIs
    <3>3. v[i] = us[i]
      BY <1>2, <3>1, <3>2
    <3> QED
      BY <2>1, <2>2, <2>4, <3>2, <3>3 DEF SetOf
  <2> QED
    BY <2>3, <2>4
<1>6. ASSUME NEW k \in ParamSet, KindOf(u) = k PROVE SetOf(k, v) = Cut(u)
  <2>1. PICK P : P = Places(k, v)
    OBVIOUS
  <2>2. P \in SUBSET (1 .. N + 1) /\ N + 1 \in P /\ P # {}
    BY <1>2, <1>6, <2>1 DEF Places
  <2>3. PICK i \in P : i = Max(P) /\ \A y \in P : i >= y
    <3>1. N + 1 \in Nat
      OBVIOUS
    <3> QED
      BY <2>2, <3>1, GreatestIs
  <2>4. i = N + 1
    <3>1. i \in 1 .. N + 1 /\ i >= N + 1
      BY <2>2, <2>3
    <3> QED
      BY <3>1
  <2> QED
    BY <1>2, <2>1, <2>2, <2>3, <2>4 DEF SetOf
<1>7. Latest(us) = [k \in ParamSet |-> SetOf(k, us)] /\ Latest(v) = [k \in ParamSet |-> SetOf(k, v)]
  BY <1>3, <1>4, LatestIs
<1>8. CASE KindOf(u) = "other"
  <2>1. \A k \in ParamSet : KindOf(u) # k
    BY <1>8 DEF ParamSet
  <2>2. \A k \in ParamSet : SetOf(k, v) = SetOf(k, us)
    BY <1>5, <2>1
  <2> QED
    BY <1>7, <1>8, <2>2
<1>9. CASE KindOf(u) # "other"
  <2>1. PICK l \in ParamSet : l = KindOf(u)
    BY <1>9, KindOfIs
  <2>2. \A k \in ParamSet : SetOf(k, v) = IF k = l THEN Cut(u) ELSE SetOf(k, us)
    BY <1>5, <1>6, <2>1
  <2>3. Latest(v) = [k \in ParamSet |-> IF k = l THEN Cut(u) ELSE SetOf(k, us)]
    BY <1>7, <2>2
  <2>4. [Latest(us) EXCEPT ![l] = Cut(u)] = [k \in ParamSet |-> IF k = l THEN Cut(u) ELSE SetOf(k, us)]
    BY <1>7
  <2> QED
    BY <1>9, <2>1, <2>3, <2>4
<1> QED
  BY <1>8, <1>9

(* Once nothing is missing, what comes then changes nothing. *)
LEMMA LatestStays ==
    ASSUME NEW us \in Seq(Frame), Whole(us) # {}, NEW w \in Seq(Frame), NEW v, v = us \o w
    PROVE  Latest(v) = Latest(us)
<1>1. PICK N \in Nat : N = Len(us)
  OBVIOUS
<1>2. /\ v \in Seq(Frame) /\ Len(v) = N + Len(w) /\ Len(w) \in Nat
      /\ DOMAIN us = 1 .. N /\ DOMAIN v = 1 .. N + Len(w)
  BY <1>1, JoinedIs
<1>3. \A n \in 0 .. N : SubSeq(v, 1, n) = SubSeq(us, 1, n)
  BY <1>1, BeginningSame
<1>4. \A n \in 1 .. N : n \in Whole(v) <=> n \in Whole(us)
  <2> TAKE n \in 1 .. N
  <2>1. n \in 0 .. N /\ n \in 1 .. N + Len(w)
    BY <1>2
  <2> QED
    BY <1>2, <1>3, <2>1 DEF Whole
<1>5. PICK m : m = Min(Whole(us))
  OBVIOUS
<1>6. m \in 1 .. N /\ m \in Whole(us) /\ \A n \in Whole(us) : m <= n
  BY <1>1, <1>5, WholeIs
<1>7. PICK q : q = Min(Whole(v))
  OBVIOUS
<1>8. m \in Whole(v)
  BY <1>4, <1>6
<1>9. q \in Whole(v) /\ q <= m /\ q \in 1 .. N + Len(w)
  BY <1>2, <1>7, <1>8, WholeIs
<1>10. q = m
  <2>1. q \in 1 .. N
    BY <1>6, <1>9
  <2>2. q \in Whole(us)
    BY <1>4, <1>9, <2>1
  <2>3. m <= q
    BY <1>6, <2>2
  <2> QED
    BY <1>6, <1>9, <2>3
<1>11. Used(v) = Used(us)
  <2>1. SubSeq(v, 1, m) = SubSeq(us, 1, m)
    <3>1. m \in 0 .. N
      BY <1>6
    <3> QED
      BY <1>3, <3>1
  <2>2. Used(v) = SubSeq(v, 1, m)
    BY <1>7, <1>8, <1>10 DEF Used
  <2>3. Used(us) = SubSeq(us, 1, m)
    BY <1>5 DEF Used
  <2> QED
    BY <2>1, <2>2, <2>3
<1> QED
  BY <1>11, LatestIs

-----------------------------------------------------------------------------
(* The units of the first frames, one frame after the other. *)
Up(a, us) == a = [m \in 0 .. Len(us) |-> IF m = 0 THEN <<>> ELSE a[m - 1] \o us[m]]
UpToIn(us, n) == (CHOOSE a : Up(a, us))[n]

LEMMA UpToAre == \A n : UpTo(n) = UpToIn(units, n) /\ UpTo(n)' = UpToIn(units', n)
  BY DEF UpTo, UpToIn, Up

LEMMA UpToIs ==
    ASSUME NEW X, NEW us \in Seq(Seq(X))
    PROVE  /\ UpToIn(us, 0) = <<>>
           /\ \A n \in 1 .. Len(us) : UpToIn(us, n) = UpToIn(us, n - 1) \o us[n]
           /\ \A n \in 0 .. Len(us) : UpToIn(us, n) \in Seq(X)
<1>1. PICK N \in Nat : N = Len(us)
  OBVIOUS
<1>2. \A n \in 1 .. N : us[n] \in Seq(X)
  BY <1>1
<1> DEFINE Turn(g, m) == g[m] = IF m = 0 THEN <<>> ELSE g[m - 1] \o us[m]
           T == {k \in Nat : \E g : \A m \in 0 .. k : Turn(g, m)}
<1>3. 0 \in T
  <2>1. PICK g : g = [m \in {0} |-> <<>>]
    OBVIOUS
  <2>2. \A m \in 0 .. 0 : Turn(g, m)
    BY <2>1
  <2> QED
    BY <2>2
<1>4. ASSUME NEW k \in Nat, k \in T PROVE k + 1 \in T
  <2>1. PICK g : \A m \in 0 .. k : Turn(g, m)
    BY <1>4
  <2>0. PICK y : y = g[k] \o us[k + 1]
    OBVIOUS
  <2>2. PICK h : h = [m \in 0 .. k + 1 |-> IF m = k + 1 THEN y ELSE g[m]]
    OBVIOUS
  <2>3. \A m \in 0 .. k : h[m] = g[m]
    <3> TAKE m \in 0 .. k
    <3>1. m \in 0 .. k + 1 /\ m # k + 1
      OBVIOUS
    <3> QED
      BY <2>2, <3>1
  <2>4. h[k + 1] = g[k] \o us[k + 1]
    <3>1. k + 1 \in 0 .. k + 1
      OBVIOUS
    <3>2. h[k + 1] = y
      BY <2>2, <3>1
    <3> QED
      BY <2>0, <3>2
  <2>5. ASSUME NEW m \in 0 .. k + 1 PROVE Turn(h, m)
    <3>1. CASE m = 0
      BY <2>1, <2>3, <3>1
    <3>2. CASE m \in 1 .. k
      <4>1. m - 1 \in 0 .. k /\ m \in 0 .. k /\ m # 0
        BY <3>2
      <4>2. h[m] = g[m] /\ h[m - 1] = g[m - 1] /\ g[m] = g[m - 1] \o us[m]
        BY <2>1, <2>3, <4>1
      <4> QED
        BY <4>1, <4>2
    <3>3. CASE m = k + 1
      <4>1. k \in 0 .. k /\ m # 0 /\ m - 1 = k
        BY <3>3
      <4>2. h[k] = g[k]
        BY <2>3, <4>1
      <4> QED
        BY <2>4, <3>3, <4>1, <4>2
    <3> QED
      BY <3>1, <3>2, <3>3
  <2> HIDE DEF Turn
  <2> QED
    BY <2>5
<1> HIDE DEF T
<1>5. N \in T
  BY <1>1, <1>3, <1>4, SetInduction
<1>6. PICK g : \A m \in 0 .. N : Turn(g, m)
  BY <1>5 DEF T
<1>7. PICK h : h = [m \in 0 .. N |-> g[m]]
  OBVIOUS
<1>8. \A m \in 0 .. N : h[m] = IF m = 0 THEN <<>> ELSE h[m - 1] \o us[m]
  <2> TAKE m \in 0 .. N
  <2>1. m # 0 => m - 1 \in 0 .. N
    BY <1>1
  <2>2. h[m] = g[m] /\ (m # 0 => h[m - 1] = g[m - 1])
    BY <1>7, <2>1
  <2> QED
    BY <1>6, <2>2
<1>9. Up(h, us)
  <2>1. h = [m \in 0 .. N |-> h[m]]
    BY <1>7
  <2>2. h = [m \in 0 .. N |-> IF m = 0 THEN <<>> ELSE h[m - 1] \o us[m]]
    BY <1>8, <2>1, Zenon
  <2> QED
    BY <1>1, <2>2 DEF Up
<1>10. PICK a : Up(a, us) /\ \A n : UpToIn(us, n) = a[n]
  <2>1. Up(CHOOSE a : Up(a, us), us)
    BY <1>9
  <2> QED
    BY <2>1 DEF UpToIn
<1>11. \A m \in 0 .. N : a[m] = IF m = 0 THEN <<>> ELSE a[m - 1] \o us[m]
  BY <1>1, <1>10 DEF Up
<1>12. a[0] = <<>>
  BY <1>1, <1>11
<1>13. \A m \in 1 .. N : a[m] = a[m - 1] \o us[m]
  <2> TAKE m \in 1 .. N
  <2>1. m \in 0 .. N /\ m # 0
    OBVIOUS
  <2> QED
    BY <1>11, <2>1
<1> DEFINE R == {k \in Nat : k <= N => a[k] \in Seq(X)}
<1>14. 0 \in R
  <2>1. <<>> \in Seq(X)
    OBVIOUS
  <2> QED
    BY <1>12, <2>1
<1>15. ASSUME NEW k \in Nat, k \in R PROVE k + 1 \in R
  <2> SUFFICES ASSUME k + 1 <= N PROVE a[k + 1] \in Seq(X)
    OBVIOUS
  <2>1. k + 1 \in 1 .. N /\ (k + 1) - 1 = k /\ k <= N
    BY <1>1
  <2>2. a[k + 1] = a[k] \o us[k + 1]
    BY <1>13, <2>1
  <2>3. a[k] \in Seq(X) /\ us[k + 1] \in Seq(X)
    BY <1>2, <1>15, <2>1
  <2> QED
    BY <2>2, <2>3
<1> HIDE DEF R
<1>16. Nat \subseteq R
  BY <1>14, <1>15, SetInduction
<1>17. \A n \in 0 .. N : a[n] \in Seq(X)
  BY <1>1, <1>16 DEF R
<1> QED
  BY <1>1, <1>10, <1>12, <1>13, <1>17

OneMore(X, us, x, v) ==
    /\ v \in Seq(Seq(X)) /\ Len(v) = Len(us) + 1 /\ Len(us) \in Nat
    /\ DOMAIN us = 1 .. Len(us) /\ DOMAIN v = 1 .. Len(us) + 1 /\ v[Len(us) + 1] = x
    /\ \A n \in 0 .. Len(us) : UpToIn(v, n) = UpToIn(us, n)
    /\ UpToIn(v, Len(us) + 1) = UpToIn(us, Len(us)) \o x

LEMMA UpToAppend ==
    ASSUME NEW X, NEW us \in Seq(Seq(X)), NEW x \in Seq(X)
    PROVE  OneMore(X, us, x, Append(us, x))
<1>0. PICK v : v = Append(us, x)
  OBVIOUS
<1>1. PICK N \in Nat : N = Len(us)
  OBVIOUS
<1>2. /\ v \in Seq(Seq(X)) /\ Len(v) = N + 1 /\ DOMAIN us = 1 .. N /\ DOMAIN v = 1 .. N + 1
      /\ v[N + 1] = x /\ \A n \in 1 .. N : v[n] = us[n]
  BY <1>0, <1>1
<1>3. \A n \in 1 .. N : UpToIn(us, n) = UpToIn(us, n - 1) \o us[n]
  BY <1>1, UpToIs
<1>4. \A n \in 1 .. N + 1 : UpToIn(v, n) = UpToIn(v, n - 1) \o v[n]
  BY <1>2, UpToIs
<1> DEFINE R == {k \in Nat : k <= N => UpToIn(v, k) = UpToIn(us, k)}
<1>5. 0 \in R
  <2>1. UpToIn(us, 0) = <<>> /\ UpToIn(v, 0) = <<>>
    BY <1>2, UpToIs
  <2> QED
    BY <2>1
<1>6. ASSUME NEW k \in Nat, k \in R PROVE k + 1 \in R
  <2> SUFFICES ASSUME k + 1 <= N PROVE UpToIn(v, k + 1) = UpToIn(us, k + 1)
    OBVIOUS
  <2>1. k + 1 \in 1 .. N /\ k + 1 \in 1 .. N + 1 /\ (k + 1) - 1 = k /\ k <= N
    BY <1>1
  <2> QED
    BY <1>2, <1>3, <1>4, <1>6, <2>1
<1> HIDE DEF R
<1>7. Nat \subseteq R
  BY <1>5, <1>6, SetInduction
<1>8. \A n \in 0 .. N : UpToIn(v, n) = UpToIn(us, n)
  BY <1>1, <1>7 DEF R
<1>9. UpToIn(v, N + 1) = UpToIn(us, N) \o x
  <2>1. N + 1 \in 1 .. N + 1 /\ (N + 1) - 1 = N /\ N \in 0 .. N
    OBVIOUS
  <2> QED
    BY <1>2, <1>4, <1>8, <2>1
<1> QED
  BY <1>0, <1>1, <1>2, <1>8, <1>9 DEF OneMore

-----------------------------------------------------------------------------
(* The frames by whose end the tested kinds have come. After the first of them no
   frame is searched. *)
Settled == {n \in DOMAIN units : \A k \in Tested : Among(k, UpTo(n))}
ParametersSearched == Latest(UpTo(IF Settled = {} THEN Len(units) ELSE Min(Settled)))

(* While a frame is searched, what is known are the parameter sets of the frames
   before and of the NAL units searched so far; none of the frames before was
   the first by whose end the tested kinds have come. *)
LearnInv ==
    /\ units \in Seq(Seq(Frame))
    /\ phase # "learn" => codec_data = ParametersSearched
    /\ phase = "learn" =>
          /\ units # <<>> /\ units[Len(units)] = NalUnits
          /\ \A n \in 1 .. Len(units) - 1 : n \notin Settled
          /\ \E m \in 0 .. Len(NalUnits) :
                /\ start = Behind(frame, CodeOf(frame), m)
                /\ codec_data = Latest(UpTo(Len(units) - 1) \o SubSeq(NalUnits, 1, m))

LEMMA TestedIs == Tested \subseteq Needed /\ Tested # {}
<1>1. Needed = NeededIn(vcodec_id)
  BY KindIs
<1> QED
  BY <1>1 DEF Tested, NeededIn

LEMMA CodecStays == [Next]_vars => vcodec_id' = vcodec_id
  BY DEF Next, NextFrame, BeginFrame, LearnNalu, LearnDone, Send, Packetize, SkipByte, FirstCode, NextCode,
         LastNalu, Encode, NoNalu, Single, Fragment, EncodeDone, Describe, inputVars, packetVars, vars

LEMMA NoneAmong == \A k : ~Among(k, <<>>)
  BY DEF Among

LEMMA UsedAmong ==
    ASSUME NEW us \in Seq(Frame), NEW k, Among(k, Used(us))
    PROVE  Among(k, us)
<1>1. CASE Whole(us) = {}
  BY <1>1, WholeIs
<1>2. CASE Whole(us) # {}
  <2>1. PICK m : m = Min(Whole(us))
    OBVIOUS
  <2>2. m \in 1 .. Len(us) /\ Len(us) \in Nat
    BY <1>2, <2>1, WholeIs
  <2>3. PICK p : p = SubSeq(us, 1, m)
    OBVIOUS
  <2>4. Used(us) = p
    BY <1>2, <2>1, <2>3 DEF Used
  <2>5. m \in 0 .. Len(us)
    BY <2>2
  <2>6. DOMAIN p = 1 .. m /\ \A i \in 1 .. m : p[i] = us[i]
    BY <2>3, <2>5, BeginningIs
  <2>7. PICK i \in 1 .. m : KindOf(p[i]) = k
    BY <2>4, <2>6 DEF Among
  <2>8. i \in DOMAIN us
    <3>1. DOMAIN us = 1 .. Len(us)
      OBVIOUS
    <3> QED
      BY <2>2, <3>1
  <2> QED
    BY <2>6, <2>7, <2>8 DEF Among
<1> QED
  BY <1>1, <1>2

LEMMA SettledIs ==
    ASSUME units \in Seq(Seq(Frame))
    PROVE  /\ Settled \in SUBSET (1 .. Len(units)) /\ Len(units) \in Nat
           /\ \A n \in 0 .. Len(units) : UpTo(n) \in Seq(Frame)
           /\ \A n \in 0 .. Len(units) : (\A k \in Tested : Among(k, UpTo(n))) <=> n \in Settled
           /\ Settled # {} => Min(Settled) \in Settled /\ \A n \in Settled : Min(Settled) <= n
<1>1. DOMAIN units = 1 .. Len(units) /\ Len(units) \in Nat
  OBVIOUS
<1>2. Settled \in SUBSET (1 .. Len(units))
  BY <1>1 DEF Settled
<1>3. \A n \in 0 .. Len(units) : UpTo(n) \in Seq(Frame)
  BY UpToAre, UpToIs
<1>4. ASSUME NEW n \in 0 .. Len(units)
      PROVE  (\A k \in Tested : Among(k, UpTo(n))) <=> n \in Settled
  <2>1. CASE n = 0
    <3>1. UpTo(n) = <<>>
      BY <2>1, UpToAre, UpToIs
    <3>2. PICK k : k \in Tested
      BY TestedIs
    <3>3. n \notin Settled
      BY <1>2, <2>1
    <3> QED
      BY <3>1, <3>2, <3>3, NoneAmong
  <2>2. CASE n # 0
    <3>1. n \in DOMAIN units
      BY <1>1, <2>2
    <3> QED
      BY <3>1 DEF Settled
  <2> QED
    BY <2>1, <2>2
<1>5. Settled # {} => Min(Settled) \in Settled /\ \A n \in Settled : Min(Settled) <= n
  <2>1. Settled \in SUBSET Nat
    BY <1>2
  <2> QED
    BY <2>1, LeastIs
<1> QED
  BY <1>1, <1>2, <1>3, <1>4, <1>5

(* The tested kinds are known exactly when a frame has settled them. *)
LEMMA TestedKnown ==
    ASSUME units \in Seq(Seq(Frame)), codec_data = ParametersSearched
    PROVE  (\A k \in Tested : codec_data[k] # <<>>) <=> Settled # {}
<1>1. PICK n : n = IF Settled = {} THEN Len(units) ELSE Min(Settled)
  OBVIOUS
<1>2. n \in 0 .. Len(units) /\ (Settled # {} => n \in Settled)
  BY <1>1, SettledIs
<1>3. PICK us \in Seq(Frame) : us = UpTo(n)
  BY <1>2, SettledIs
<1>4. codec_data = Latest(us)
  BY <1>1, <1>3 DEF ParametersSearched
<1>5. \A k \in Tested : codec_data[k] # <<>> <=> Among(k, Used(us))
  <2> TAKE k \in Tested
  <2>1. k \in ParamSet
    BY TestedIs, NeededIs
  <2>2. codec_data[k] = SetOf(k, Used(us))
    BY <1>4, <2>1, LatestIs
  <2> QED
    BY <2>1, <2>2, WholeIs, SetIs
<1>6. \A k \in Tested : Among(k, Used(us)) <=> Among(k, us)
  <2> TAKE k \in Tested
  <2>1. Among(k, Used(us)) => Among(k, us)
    BY UsedAmong
  <2>2. ASSUME Among(k, us) PROVE Among(k, Used(us))
    <3>1. CASE Whole(us) = {}
      BY <2>2, <3>1, WholeIs
    <3>2. CASE Whole(us) # {}
      BY <3>2, WholeIs, TestedIs
    <3> QED
      BY <3>1, <3>2
  <2> QED
    BY <2>1, <2>2
<1>7. (\A k \in Tested : Among(k, us)) <=> n \in Settled
  BY <1>2, <1>3, SettledIs
<1> QED
  BY <1>2, <1>5, <1>6, <1>7

LEMMA NoUnits ==
    ASSUME NEW f, f = <<>>
    PROVE  UnitsOf(f) = <<>>
<1>1. f \in Frame /\ Len(f) = 0
  <2>1. PICK B : B = 0 .. 255
    OBVIOUS
  <2>2. f \in Seq(B) /\ Len(f) = 0
    OBVIOUS
  <2> QED
    BY <2>1, <2>2 DEF Frame
<1>2. PICK c, U : c = CodeOf(f) /\ U = UnitsOf(f)
  OBVIOUS
<1>3. Codes(f, c) /\ Listed(f, c, U)
  BY <1>1, <1>2, CodesListed, UnitsListed
<1>4. Len(U) = 0
  <2>1. Len(U) \in Nat /\ \A k \in 1 .. Len(U) : k \in 1 .. Len(c)
    BY <1>3 DEF Listed, Codes
  <2>2. \A k \in 1 .. Len(c) : c[k] \in 1 .. Len(f) - 2
    BY <1>3 DEF Codes
  <2>3. 1 .. Len(f) - 2 = {}
    BY <1>1
  <2>4. Len(U) > 0 => 1 \in 1 .. Len(U)
    BY <2>1
  <2> QED
    BY <2>1, <2>2, <2>3, <2>4
<1>5. U \in Seq(Frame)
  BY <1>3 DEF Listed
<1> QED
  BY <1>2, <1>4, <1>5

-----------------------------------------------------------------------------
LEMMA SameUnits ==
    ASSUME vcodec_id' = vcodec_id, units' = units
    PROVE  Settled' = Settled /\ ParametersSearched' = ParametersSearched /\ \A n : UpTo(n)' = UpTo(n)
<1>1. \A k, us : Among(k, us)' = Among(k, us)
  BY SameLatest
<1>2. \A us : Latest(us)' = Latest(us)
  BY SameLatest
<1>3. \A n : UpTo(n)' = UpTo(n)
  BY UpToAre
<1>4. Tested' = Tested
  BY DEF Tested
<1>5. Settled' = Settled
  BY <1>1, <1>3, <1>4 DEF Settled
<1>6. ParametersSearched' = ParametersSearched
  BY <1>2, <1>3, <1>5 DEF ParametersSearched
<1> QED
  BY <1>3, <1>5, <1>6

(* One frame more: what was settled stays so. *)
LEMMA FrameMore ==
    ASSUME units \in Seq(Seq(Frame)), vcodec_id' = vcodec_id,
           NEW U \in Seq(Frame), units' = Append(units, U)
    PROVE  /\ units' \in Seq(Seq(Frame)) /\ Len(units') = Len(units) + 1 /\ Len(units) \in Nat
           /\ units'[Len(units')] = U
           /\ \A n \in 1 .. Len(units) : n \in Settled' <=> n \in Settled
           /\ \A n \in 0 .. Len(units) : UpTo(n)' = UpTo(n)
           /\ Settled # {} => ParametersSearched' = ParametersSearched
           /\ Settled = {} /\ U = <<>> => ParametersSearched' = ParametersSearched
<1>0. PICK N \in Nat : N = Len(units)
  OBVIOUS
<1>1. PICK v : v = units'
  OBVIOUS
<1>2. /\ v \in Seq(Seq(Frame)) /\ Len(v) = N + 1 /\ DOMAIN units = 1 .. N /\ DOMAIN v = 1 .. N + 1
      /\ v[N + 1] = U
      /\ \A n \in 0 .. N : UpToIn(v, n) = UpToIn(units, n)
      /\ UpToIn(v, N + 1) = UpToIn(units, N) \o U
  <2>1. v = Append(units, U)
    BY <1>1
  <2>2. OneMore(Frame, units, U, v)
    BY <2>1, UpToAppend
  <2> QED
    BY <1>0, <2>2 DEF OneMore
<1>3. \A n \in 0 .. N : UpTo(n)' = UpTo(n)
  BY <1>1, <1>2, UpToAre
<1>4. UpTo(N + 1)' = UpTo(N) \o U
  BY <1>1, <1>2, UpToAre
<1>5. \A k, us : Among(k, us)' = Among(k, us)
  BY SameLatest
<1>6. \A us : Latest(us)' = Latest(us)
  BY SameLatest
<1>7. Tested' = Tested
  BY DEF Tested
<1>8. PICK S : S = Settled'
  OBVIOUS
<1>9. \A n : n \in S <=> n \in 1 .. N + 1 /\ \A k \in Tested : Among(k, UpTo(n)')
  <2> TAKE n
  <2>1. n \in S <=> n \in DOMAIN units' /\ \A k \in Tested' : Among(k, UpTo(n))'
    BY <1>8 DEF Settled
  <2>2. \A k : Among(k, UpTo(n))' = Among(k, UpTo(n)')
    <3>1. PICK us : us = UpTo(n)'
      OBVIOUS
    <3>2. \A k : Among(k, UpTo(n))' = Among(k, us)
      BY <1>5, <3>1
    <3> QED
      BY <3>1, <3>2
  <2> QED
    BY <1>1, <1>2, <1>7, <2>1, <2>2
<1>10. \A n \in 1 .. N : n \in S <=> n \in Settled
  <2> TAKE n \in 1 .. N
  <2>1. n \in 0 .. N /\ n \in 1 .. N + 1
    OBVIOUS
  <2>2. (\A k \in Tested : Among(k, UpTo(n))) <=> n \in Settled
    BY <1>0, <2>1, SettledIs
  <2>3. UpTo(n)' = UpTo(n)
    BY <1>3, <2>1
  <2>4. \A k : Among(k, UpTo(n)') = Among(k, UpTo(n))
    BY <2>3
  <2> QED
    BY <1>9, <2>1, <2>2, <2>4
<1>11. ParametersSearched' = Latest(UpTo(IF S = {} THEN N + 1 ELSE Min(S))')
  <2>1. PICK n : n = IF S = {} THEN N + 1 ELSE Min(S)
    OBVIOUS
  <2>2. ParametersSearched' = Latest(UpTo(n))'
    BY <1>1, <1>2, <1>8, <2>1 DEF ParametersSearched
  <2>3. PICK us : us = UpTo(n)'
    OBVIOUS
  <2>4. Latest(UpTo(n))' = Latest(us)
    BY <1>6, <2>3
  <2> QED
    BY <2>1, <2>2, <2>3, <2>4
<1>12. ASSUME Settled # {} PROVE ParametersSearched' = ParametersSearched
  <2>1. PICK m \in Settled : m = Min(Settled) /\ \A n \in Settled : m <= n
    BY <1>12, SettledIs
  <2>2. m \in 1 .. N
    BY <1>0, SettledIs
  <2>3. m \in S /\ S # {}
    BY <1>10, <2>2
  <2>4. S \in SUBSET Nat
    <3>1. \A n \in S : n \in 1 .. N + 1
      BY <1>9
    <3> QED
      BY <3>1
  <2>5. PICK q \in S : q = Min(S) /\ \A n \in S : q <= n
    BY <2>3, <2>4, LeastIs
  <2>6. q \in Nat /\ m \in Nat /\ q <= m
    BY <2>2, <2>3, <2>4, <2>5
  <2>7. q \in 1 .. N
    <3>1. q \in 1 .. N + 1
      BY <1>9
    <3> QED
      BY <2>2, <2>6, <3>1
  <2>8. q \in Settled
    BY <1>10, <2>7
  <2>9. q = m
    BY <2>1, <2>6, <2>8
  <2>10. ParametersSearched' = Latest(UpTo(m)')
    BY <1>11, <2>3, <2>5, <2>9
  <2>11. UpTo(m)' = UpTo(m)
    BY <1>3, <2>2
  <2>12. ParametersSearched = Latest(UpTo(m))
    BY <2>1 DEF ParametersSearched
  <2> QED
    BY <2>10, <2>11, <2>12
<1>13. ASSUME Settled = {}, U = <<>> PROVE ParametersSearched' = ParametersSearched
  <2>0. N \in 0 .. N
    OBVIOUS
  <2>1. UpTo(N) \in Seq(Frame)
    BY <1>0, <2>0, SettledIs
  <2>2. UpTo(N + 1)' = UpTo(N)
    BY <1>4, <1>13, <2>1
  <2>3. N + 1 \notin S
    <3> SUFFICES ASSUME N + 1 \in S PROVE FALSE
      OBVIOUS
    <3>1. PICK us : us = UpTo(N)
      OBVIOUS
    <3>2. \A k \in Tested : Among(k, us)
      BY <1>9, <2>2, <3>1
    <3>3. N \in Settled
      BY <1>0, <2>0, <3>1, <3>2, SettledIs
    <3> QED
      BY <1>13, <3>3
  <2>4. S = {}
    <3> SUFFICES ASSUME NEW n \in S PROVE FALSE
      OBVIOUS
    <3>1. n \in 1 .. N + 1
      BY <1>9
    <3>2. n \in 1 .. N
      BY <2>3, <3>1
    <3> QED
      BY <1>10, <1>13, <3>2
  <2>5. ParametersSearched' = Latest(UpTo(N))
    BY <1>11, <2>2, <2>4
  <2>6. ParametersSearched = Latest(UpTo(N))
    BY <1>0, <1>13 DEF ParametersSearched
  <2> QED
    BY <2>5, <2>6
<1>14. \A n \in 1 .. N : n \in Settled' <=> n \in Settled
  BY <1>8, <1>10
<1>15. Len(units') = N + 1 /\ units'[Len(units')] = U /\ units' \in Seq(Seq(Frame))
  BY <1>1, <1>2
<1> QED
  BY <1>0, <1>3, <1>12, <1>13, <1>14, <1>15

-----------------------------------------------------------------------------
LEMMA PartsOf ==
    ASSUME NEW X, NEW us \in Seq(X), NEW m \in 0 .. Len(us)
    PROVE  /\ SubSeq(us, 1, m) \in Seq(X) /\ SubSeq(us, m + 1, Len(us)) \in Seq(X)
           /\ SubSeq(us, 1, m) \o SubSeq(us, m + 1, Len(us)) = us
<1>0. PICK p, w : p = SubSeq(us, 1, m) /\ w = SubSeq(us, m + 1, Len(us))
  OBVIOUS
<1>1. PICK N \in Nat : N = Len(us)
  OBVIOUS
<1>2. p \in Seq(X) /\ Len(p) = m /\ \A i \in 1 .. m : p[i] = us[i]
  BY <1>0, BeginningIs
<1>3. w \in Seq(X) /\ Len(w) = N - m /\ \A i \in 1 .. N - m : w[i] = us[m + i]
  BY <1>0, <1>1
<1>4. PICK v : v = p \o w
  OBVIOUS
<1>5. /\ v \in Seq(X) /\ Len(v) = N /\ \A i \in 1 .. m : v[i] = us[i]
      /\ \A i \in 1 .. N - m : v[m + i] = us[m + i]
  <2>1. /\ v \in Seq(X) /\ Len(v) = Len(p) + Len(w)
        /\ \A i \in 1 .. Len(p) : v[i] = p[i]
        /\ \A i \in 1 .. Len(w) : v[Len(p) + i] = w[i]
    <3>1. \A x, y \in Seq(X) :
               /\ x \o y \in Seq(X) /\ Len(x \o y) = Len(x) + Len(y)
               /\ \A i \in 1 .. Len(x) : (x \o y)[i] = x[i]
               /\ \A i \in 1 .. Len(y) : (x \o y)[Len(x) + i] = y[i]
      BY JoinedIs
    <3>2. p \in Seq(X) /\ w \in Seq(X)
      BY <1>2, <1>3
    <3>3. /\ p \o w \in Seq(X) /\ Len(p \o w) = Len(p) + Len(w)
          /\ \A i \in 1 .. Len(p) : (p \o w)[i] = p[i]
          /\ \A i \in 1 .. Len(w) : (p \o w)[Len(p) + i] = w[i]
      BY <3>1, <3>2, Zenon
    <3> QED
      BY <1>4, <3>3, Zenon
  <2>2. Len(p) = m /\ Len(w) = N - m /\ m \in 0 .. N
    BY <1>1, <1>2, <1>3
  <2>3. Len(v) = N
    BY <1>1, <2>1, <2>2
  <2>4. \A i \in 1 .. m : v[i] = us[i]
    BY <1>2, <2>1, <2>2
  <2>5. \A i \in 1 .. N - m : v[m + i] = us[m + i]
    BY <1>3, <2>1, <2>2
  <2> QED
    BY <2>1, <2>3, <2>4, <2>5
<1>6. \A i \in 1 .. N : v[i] = us[i]
  <2> TAKE i \in 1 .. N
  <2>1. CASE i \in 1 .. m
    BY <1>5, <2>1
  <2>2. CASE i \notin 1 .. m
    <3>1. i - m \in 1 .. N - m /\ m + (i - m) = i
      BY <1>1, <2>2
    <3> QED
      BY <1>5, <3>1
  <2> QED
    BY <2>1, <2>2
<1>7. v = us
  <2>1. v = [i \in 1 .. N |-> v[i]] /\ us = [i \in 1 .. N |-> us[i]]
    BY <1>1, <1>5
  <2> QED
    BY <1>6, <2>1
<1> QED
  BY <1>0, <1>2, <1>3, <1>4, <1>7

LEMMA JoinedThrice ==
    ASSUME NEW X, NEW x \in Seq(X), NEW y \in Seq(X), NEW z \in Seq(X)
    PROVE  (x \o y) \o z = x \o (y \o z)
  OBVIOUS

LEMMA InitLearnInv == Init => LearnInv
<1> SUFFICES ASSUME Init PROVE LearnInv
  OBVIOUS
<1>1. units = <<>> /\ phase = "sent" /\ codec_data = [k \in ParamSet |-> <<>>]
  BY DEF Init, NoFrame
<1>2. units \in Seq(Seq(Frame)) /\ Len(units) = 0
  BY <1>1
<1>3. Settled = {}
  <2>1. 1 .. Len(units) = {}
    BY <1>2
  <2> QED
    BY <1>2, <2>1, SettledIs
<1>4. UpTo(Len(units)) = <<>>
  BY <1>2, UpToAre, UpToIs
<1>5. ParametersSearched = Latest(<<>>)
  BY <1>3, <1>4 DEF ParametersSearched
<1>6. Latest(<<>>) = [k \in ParamSet |-> <<>>]
  <2>1. Whole(<<>>) = {}
    BY DEF Whole
  <2>2. Used(<<>>) = <<>>
    BY <2>1 DEF Used
  <2>3. \A k : SetOf(k, <<>>) = <<>>
    BY DEF SetOf, Places
  <2>4. Latest(<<>>) = [k \in ParamSet |-> SetOf(k, <<>>)]
    BY <2>2, LatestIs
  <2> QED
    BY <2>3, <2>4
<1> QED
  BY <1>1, <1>2, <1>5, <1>6 DEF LearnInv

LEMMA NextFrameLearns ==
    ASSUME LearnInv, NextFrame, frame' \in Frame
    PROVE  LearnInv'
<1>1. /\ phase \in {"sent", "refused"} /\ codec_data' = codec_data /\ vcodec_id' = vcodec_id
      /\ units' = Append(units, NalUnits') /\ start' = 1
      /\ phase' = IF frame' = <<>> THEN "sent"
                  ELSE IF \E k \in Tested : codec_data[k] = <<>> THEN "learn" ELSE "scan"
  BY DEF NextFrame, BeginFrame
<1>2. units \in Seq(Seq(Frame)) /\ codec_data = ParametersSearched
  BY <1>1 DEF LearnInv
<1>3. PICK U : U = NalUnits'
  OBVIOUS
<1>4. U = UnitsOf(frame') /\ U \in Seq(Frame) /\ Len(U) \in Nat
  <2>1. U = UnitsOf(frame')
    BY <1>3, NalUnitsAre
  <2>2. PICK f \in Frame : f = frame'
    OBVIOUS
  <2>3. Listed(f, CodeOf(f), UnitsOf(f))
    BY UnitsListed
  <2> QED
    BY <2>1, <2>2, <2>3 DEF Listed
<1>5. PICK N \in Nat : N = Len(units)
  BY <1>2
<1>6. /\ units' \in Seq(Seq(Frame)) /\ Len(units') = N + 1 /\ units'[Len(units')] = U
      /\ \A n \in 1 .. N : n \in Settled' <=> n \in Settled
      /\ \A n \in 0 .. N : UpTo(n)' = UpTo(n)
      /\ Settled # {} => ParametersSearched' = ParametersSearched
      /\ Settled = {} /\ U = <<>> => ParametersSearched' = ParametersSearched
  BY <1>1, <1>2, <1>3, <1>4, <1>5, FrameMore
<1>7. (\A k \in Tested : codec_data[k] # <<>>) <=> Settled # {}
  BY <1>2, TestedKnown
<1>8. CASE frame' = <<>>
  <2>1. U = <<>>
    BY <1>4, <1>8, NoUnits
  <2>2. phase' = "sent"
    BY <1>1, <1>8
  <2> QED
    BY <1>1, <1>2, <1>6, <2>1, <2>2 DEF LearnInv
<1>9. CASE frame' # <<>> /\ Settled # {}
  <2>1. phase' = "scan"
    BY <1>1, <1>7, <1>9
  <2> QED
    BY <1>1, <1>2, <1>6, <1>9, <2>1 DEF LearnInv
<1>10. CASE frame' # <<>> /\ Settled = {}
  <2>1. phase' = "learn"
    BY <1>1, <1>7, <1>10
  <2>2. units' # <<>> /\ units'[Len(units')] = NalUnits'
    <3>1. units' # <<>>
      BY <1>5, <1>6
    <3> QED
      BY <1>3, <1>6, <3>1
  <2>3. \A n \in 1 .. Len(units') - 1 : n \notin Settled'
    BY <1>5, <1>6, <1>10
  <2>4. 0 \in 0 .. Len(U)
    BY <1>4
  <2>5. start' = Behind(frame', CodeOf(frame'), 0)
    BY <1>1 DEF Behind
  <2>6. SubSeq(U, 1, 0) = <<>>
    BY <1>4
  <2>7. (UpTo(Len(units) - 1))' = UpTo(N) /\ UpTo(N) \in Seq(Frame)
    <3>1. Len(units') - 1 = N /\ N \in 0 .. N
      BY <1>5, <1>6
    <3>2. UpTo(N)' = UpTo(N)
      BY <1>6, <3>1
    <3>3. UpTo(N) \in Seq(Frame)
      BY <1>2, <1>5, <3>1, SettledIs
    <3>4. PICK n : n = N /\ n = Len(units') - 1
      BY <3>1
    <3>5. (UpTo(Len(units) - 1))' = UpTo(n)'
      BY <3>4
    <3> QED
      BY <3>2, <3>3, <3>4, <3>5
  <2>8. codec_data = Latest(UpTo(N))
    BY <1>2, <1>5, <1>10 DEF ParametersSearched
  <2>9. UpTo(N) \o <<>> = UpTo(N)
    BY <2>7
  <2>10. codec_data' = Latest(UpTo(Len(units) - 1) \o SubSeq(NalUnits, 1, 0))'
    <3>1. PICK us : us = UpTo(N)
      OBVIOUS
    <3>2. Latest(us)' = Latest(us)
      BY <1>1, SameLatest
    <3>3. (UpTo(Len(units) - 1) \o SubSeq(NalUnits, 1, 0))' = us
      BY <1>3, <2>6, <2>7, <2>9, <3>1
    <3>4. Latest(UpTo(Len(units) - 1) \o SubSeq(NalUnits, 1, 0))' = Latest(us)'
      BY <3>3
    <3> QED
      BY <1>1, <2>8, <3>1, <3>2, <3>4
  <2> QED
    BY <1>3, <1>6, <2>1, <2>2, <2>3, <2>4, <2>5, <2>10 DEF LearnInv
<1> QED
  BY <1>8, <1>9, <1>10

LEMMA UnitLearned ==
    ASSUME LearnInv, LearnNalu, frame \in Frame
    PROVE  LearnInv'
<1>1. /\ phase = "learn" /\ phase' = "learn" /\ More /\ vcodec_id' = vcodec_id /\ frame' = frame
      /\ units' = units
  BY DEF LearnNalu, inputVars
<1>2. PICK U : U = NalUnits /\ U = NalUnits'
  BY <1>1, NalUnitsAre
<1>3. U \in Seq(Frame) /\ Len(U) \in Nat
  BY <1>2, NalUnitsAre, UnitsListed DEF Listed
<1>4. PICK c : c = CodeOf(frame)
  OBVIOUS
<1>5. PICK N \in Nat : N = Len(units) - 1
  <2>1. units \in Seq(Seq(Frame)) /\ units # <<>>
    BY <1>1 DEF LearnInv
  <2>2. Len(units) - 1 \in Nat
    BY <2>1
  <2> QED
    BY <2>2
<1>6. PICK B : B = UpTo(N)
  OBVIOUS
<1>7. B \in Seq(Frame) /\ UpTo(N)' = B
  <2>1. units \in Seq(Seq(Frame)) /\ N \in 0 .. Len(units)
    <3>1. units \in Seq(Seq(Frame))
      BY DEF LearnInv
    <3>2. Len(units) \in Nat
      BY <3>1
    <3> QED
      BY <1>5, <3>1, <3>2
  <2>2. UpTo(N) \in Seq(Frame)
    BY <2>1, SettledIs
  <2> QED
    BY <1>1, <1>6, <2>2, SameUnits
<1>8. PICK m \in 0 .. Len(U) : start = Behind(frame, c, m) /\ codec_data = Latest(B \o SubSeq(U, 1, m))
  BY <1>1, <1>2, <1>4, <1>5, <1>6 DEF LearnInv
<1>9. PICK n : n = FindNalu(Behind(frame, c, m))
  OBVIOUS
<1>10. m < Len(U)
  <2>1. n # <<>>
    BY <1>1, <1>8, <1>9 DEF More
  <2>2. m # Len(U)
    BY <1>2, <1>4, <1>9, <2>1, LearnsNoMore
  <2> QED
    BY <1>3, <2>2
<1>11. PICK u : u = U[m + 1]
  OBVIOUS
<1>12. PICK begin : begin = n[1] + CodeAt(n[1])
  OBVIOUS
<1>13. /\ n # <<>> /\ n[2] + 1 = Behind(frame, c, m + 1)
       /\ SubSeq(frame, begin, n[2]) = u
       /\ u = <<>> => frame[begin] = 0
       /\ u # <<>> => frame[begin] = u[1]
  BY <1>2, <1>4, <1>9, <1>10, <1>11, <1>12, LearnsNext
<1>14. Kind(frame[begin]) = KindOf(u)
  <2>1. CASE u = <<>>
    BY <1>13, <2>1, ZeroIsOther DEF KindOf
  <2>2. CASE u # <<>>
    BY <1>13, <2>2 DEF KindOf
  <2> QED
    BY <2>1, <2>2
<1>15. /\ codec_data' = IF KindOf(u) = "other" THEN codec_data ELSE [codec_data EXCEPT ![KindOf(u)] = Cut(u)]
       /\ start' = Behind(frame, c, m + 1)
  <2>1. start' = n[2] + 1
    BY <1>8, <1>9 DEF LearnNalu
  <2>2. codec_data' = IF Kind(frame[begin]) = "other" THEN codec_data
                      ELSE [codec_data EXCEPT ![Kind(frame[begin])] = Cut(SubSeq(frame, begin, n[2]))]
    BY <1>8, <1>9, <1>12 DEF LearnNalu
  <2> QED
    BY <1>13, <1>14, <2>1, <2>2
<1>16. PICK us : us = B \o SubSeq(U, 1, m)
  OBVIOUS
<1>17. PICK p \in Seq(Frame) : p = SubSeq(U, 1, m)
  <2>1. PICK p : p = SubSeq(U, 1, m)
    OBVIOUS
  <2>2. p \in Seq(Frame)
    BY <1>3, <2>1, BeginningIs
  <2> QED
    BY <2>1, <2>2
<1>18. us \in Seq(Frame)
  BY <1>7, <1>16, <1>17, JoinedIs
<1>19. Whole(us) = {}
  <2>1. ~AllKnown
    BY <1>1 DEF More
  <2> QED
    BY <1>8, <1>16, <1>18, <2>1, KnownWhole
<1>20. u \in Frame
  BY <1>3, <1>10, <1>11
<1>21. B \o SubSeq(U, 1, m + 1) = us \o <<u>>
  <2>1. SubSeq(U, 1, m + 1) = p \o <<u>>
    BY <1>3, <1>10, <1>11, <1>17
  <2> QED
    BY <1>7, <1>16, <1>17, <1>20, <2>1
<1>22. codec_data' = Latest(us \o <<u>>)
  BY <1>8, <1>15, <1>16, <1>18, <1>19, <1>20, LatestNext
<1>23. codec_data' = Latest(UpTo(Len(units) - 1) \o SubSeq(NalUnits, 1, m + 1))'
  <2>1. PICK v : v = us \o <<u>>
    OBVIOUS
  <2>2. Latest(v)' = Latest(v)
    BY <1>1, SameLatest
  <2>3. UpTo(Len(units) - 1)' = B
    BY <1>1, <1>5, <1>6, SameUnits
  <2>4. (UpTo(Len(units) - 1) \o SubSeq(NalUnits, 1, m + 1))' = v
    BY <1>2, <1>21, <2>1, <2>3
  <2>5. Latest(UpTo(Len(units) - 1) \o SubSeq(NalUnits, 1, m + 1))' = Latest(v)'
    BY <2>4
  <2> QED
    BY <1>22, <2>1, <2>2, <2>5
<1>24. m + 1 \in 0 .. Len(NalUnits')
  BY <1>2, <1>3, <1>10
<1>25. start' = Behind(frame', CodeOf(frame'), m + 1)
  BY <1>1, <1>4, <1>15
<1>26. Settled' = Settled /\ units' \in Seq(Seq(Frame)) /\ units' # <<>> /\ units'[Len(units')] = NalUnits'
       /\ \A i \in 1 .. Len(units') - 1 : i \notin Settled'
  <2>1. Settled' = Settled
    BY <1>1, SameUnits
  <2> QED
    BY <1>1, <1>2, <2>1 DEF LearnInv
<1> QED
  BY <1>1, <1>23, <1>24, <1>25, <1>26 DEF LearnInv

LEMMA AllLearned ==
    ASSUME LearnInv, LearnDone, frame \in Frame
    PROVE  LearnInv'
<1>1. /\ phase = "learn" /\ phase' = "scan" /\ ~More /\ vcodec_id' = vcodec_id /\ units' = units
      /\ codec_data' = codec_data
  BY DEF LearnDone, inputVars, sessionVars
<1>2. PICK U : U = NalUnits
  OBVIOUS
<1>3. U \in Seq(Frame) /\ Len(U) \in Nat
  BY <1>2, NalUnitsAre, UnitsListed DEF Listed
<1>4. PICK c : c = CodeOf(frame)
  OBVIOUS
<1>5. units \in Seq(Seq(Frame)) /\ units # <<>>
  BY <1>1 DEF LearnInv
<1>6. PICK N \in Nat : N = Len(units) - 1 /\ N + 1 = Len(units) /\ N + 1 \in 1 .. Len(units)
  <2>1. Len(units) \in Nat \ {0}
    BY <1>5
  <2>2. Len(units) - 1 \in Nat /\ (Len(units) - 1) + 1 = Len(units) /\ Len(units) \in 1 .. Len(units)
    BY <2>1
  <2> QED
    BY <2>2
<1>7. PICK B : B = UpTo(N)
  OBVIOUS
<1>8. B \in Seq(Frame)
  <2>1. N \in 0 .. Len(units)
    BY <1>6
  <2> QED
    BY <1>5, <1>7, <2>1, SettledIs
<1>9. PICK m \in 0 .. Len(U) : start = Behind(frame, c, m) /\ codec_data = Latest(B \o SubSeq(U, 1, m))
  BY <1>1, <1>2, <1>4, <1>6, <1>7 DEF LearnInv
<1>10. UpTo(N + 1) = B \o U
  <2>1. UpTo(N + 1) = UpTo((N + 1) - 1) \o units[N + 1]
    BY <1>5, <1>6, UpToAre, UpToIs
  <2>2. units[N + 1] = U /\ (N + 1) - 1 = N
    BY <1>1, <1>2, <1>6 DEF LearnInv
  <2> QED
    BY <1>7, <2>1, <2>2
<1>11. codec_data = Latest(B \o U)
  <2>1. CASE m = Len(U)
    <3>1. SubSeq(U, 1, m) = U
      BY <1>3, <2>1, BeginningIs
    <3> QED
      BY <1>9, <3>1
  <2>2. CASE m < Len(U)
    <3>1. PICK p, w : p = SubSeq(U, 1, m) /\ w = SubSeq(U, m + 1, Len(U))
      OBVIOUS
    <3>2. p \in Seq(Frame) /\ w \in Seq(Frame) /\ p \o w = U
      <4>1. \A x \in Seq(Frame) : \A i \in 0 .. Len(x) :
               /\ SubSeq(x, 1, i) \in Seq(Frame) /\ SubSeq(x, i + 1, Len(x)) \in Seq(Frame)
               /\ SubSeq(x, 1, i) \o SubSeq(x, i + 1, Len(x)) = x
        BY PartsOf
      <4> QED
        BY <1>3, <3>1, <4>1
    <3>3. PICK us : us = B \o p
      OBVIOUS
    <3>4. us \in Seq(Frame)
      BY <1>8, <3>2, <3>3
    <3>5. us \o w = B \o U
      <4>1. \A x, y, z \in Seq(Frame) : (x \o y) \o z = x \o (y \o z)
        BY JoinedThrice, SMTT(30)
      <4>2. (B \o p) \o w = B \o (p \o w)
        BY <1>8, <3>2, <4>1
      <4> QED
        BY <3>2, <3>3, <4>2
    <3>6. PICK n : n = FindNalu(Behind(frame, c, m))
      OBVIOUS
    <3>7. n # <<>> /\ Len(frame) - Behind(frame, c, m) + 1 > 3
      BY <1>2, <1>4, <2>2, <3>6, LearnsNext
    <3>8. AllKnown
      BY <1>1, <1>9, <3>6, <3>7 DEF More
    <3>9. Whole(us) # {}
      BY <1>9, <3>1, <3>3, <3>4, <3>8, KnownWhole
    <3>10. Latest(us \o w) = Latest(us)
      BY <3>2, <3>4, <3>9, LatestStays
    <3> QED
      BY <1>9, <3>1, <3>3, <3>5, <3>10
  <2> QED
    BY <1>3, <2>1, <2>2
<1>12. ParametersSearched = Latest(UpTo(N + 1))
  <2>1. CASE Settled = {}
    BY <1>6, <2>1 DEF ParametersSearched
  <2>2. CASE Settled # {}
    <3>1. Min(Settled) \in Settled /\ Settled \in SUBSET (1 .. Len(units))
      BY <1>5, <2>2, SettledIs
    <3>2. \A n \in 1 .. Len(units) - 1 : n \notin Settled
      BY <1>1 DEF LearnInv
    <3>3. PICK q \in 1 .. Len(units) : q = Min(Settled) /\ q \in Settled
      BY <3>1
    <3>4. q = N + 1
      <4>1. q \notin 1 .. Len(units) - 1
        BY <3>2, <3>3
      <4> QED
        BY <1>6, <4>1
    <3> QED
      BY <2>2, <3>3, <3>4 DEF ParametersSearched
  <2> QED
    BY <2>1, <2>2
<1>13. ParametersSearched' = ParametersSearched
  BY <1>1, SameUnits
<1> QED
  BY <1>1, <1>5, <1>10, <1>11, <1>12, <1>13 DEF LearnInv

LEMMA NextLearnInv == PacketInv /\ PacketInv' /\ LearnInv /\ [Next]_vars => LearnInv'
<1> SUFFICES ASSUME PacketInv, PacketInv', LearnInv, [Next]_vars PROVE LearnInv'
  OBVIOUS
<1>1. frame \in Frame /\ frame' \in Frame
  BY DEF PacketInv, Types
<1>2. vcodec_id' = vcodec_id
  BY CodecStays
<1>3. CASE NextFrame
  BY <1>1, <1>3, NextFrameLearns
<1>4. CASE LearnNalu
  BY <1>1, <1>4, UnitLearned
<1>5. CASE LearnDone
  BY <1>1, <1>5, AllLearned
<1>6. CASE Send
  <2>1. phase # "learn" /\ phase' # "learn" /\ codec_data' = codec_data /\ units' = units
    BY <1>6 DEF Send, Packetize, SkipByte, FirstCode, NextCode, LastNalu, Encode, NoNalu, Single,
             Fragment, EncodeDone, sessionVars
  <2>2. ParametersSearched' = ParametersSearched
    BY <1>2, <2>1, SameUnits
  <2> QED
    BY <2>1, <2>2 DEF LearnInv
<1>7. CASE Describe
  <2>1. phase # "learn" /\ phase' # "learn" /\ codec_data' = codec_data /\ units' = units
    BY <1>7 DEF Describe, packetVars
  <2>2. ParametersSearched' = ParametersSearched
    BY <1>2, <2>1, SameUnits
  <2> QED
    BY <2>1, <2>2 DEF LearnInv
<1>8. CASE UNCHANGED vars
  <2>1. /\ phase' = phase /\ codec_data' = codec_data /\ units' = units /\ frame' = frame /\ start' = start
    BY <1>8 DEF vars, packetVars
  <2>2. ParametersSearched' = ParametersSearched /\ Settled' = Settled /\ \A n : UpTo(n)' = UpTo(n)
    BY <1>2, <2>1, SameUnits
  <2>3. NalUnits' = NalUnits
    BY <2>1, NalUnitsAre
  <2>4. \A us : Latest(us)' = Latest(us)
    BY <1>2, SameLatest
  <2>5. CASE phase = "learn"
    <3>1. PICK m \in 0 .. Len(NalUnits) :
              /\ start = Behind(frame, CodeOf(frame), m)
              /\ codec_data = Latest(UpTo(Len(units) - 1) \o SubSeq(NalUnits, 1, m))
      BY <2>5 DEF LearnInv
    <3>2. PICK us : us = UpTo(Len(units) - 1) \o SubSeq(NalUnits, 1, m)
      OBVIOUS
    <3>3. (UpTo(Len(units) - 1) \o SubSeq(NalUnits, 1, m))' = us
      BY <2>1, <2>2, <2>3, <3>2
    <3>4. Latest(UpTo(Len(units) - 1) \o SubSeq(NalUnits, 1, m))' = Latest(us)'
      BY <3>3
    <3>5. codec_data' = Latest(UpTo(Len(units) - 1) \o SubSeq(NalUnits, 1, m))'
      BY <2>1, <2>4, <3>1, <3>2, <3>4
    <3>6. start' = Behind(frame', CodeOf(frame'), m) /\ m \in 0 .. Len(NalUnits')
      BY <2>1, <2>3, <3>1
    <3> QED
      BY <2>1, <2>2, <2>3, <2>5, <3>5, <3>6 DEF LearnInv
  <2>6. CASE phase # "learn"
    BY <2>1, <2>2, <2>6 DEF LearnInv
  <2> QED
    BY <2>5, <2>6
<1> QED
  BY <1>3, <1>4, <1>5, <1>6, <1>7, <1>8 DEF Next

-----------------------------------------------------------------------------
(* What has been searched against what has come. *)
LEMMA AmongLater ==
    ASSUME NEW us \in Seq(Frame), NEW w \in Seq(Frame), NEW v, v = us \o w
    PROVE  /\ v \in Seq(Frame) /\ Range(us) \subseteq Range(v)
           /\ \A k : Among(k, us) => Among(k, v)
<1>1. /\ v \in Seq(Frame) /\ DOMAIN us = 1 .. Len(us) /\ DOMAIN v = 1 .. Len(v)
      /\ Len(v) = Len(us) + Len(w) /\ Len(us) \in Nat /\ Len(w) \in Nat
      /\ \A i \in 1 .. Len(us) : v[i] = us[i]
  BY JoinedIs
<1>2. \A i \in DOMAIN us : i \in DOMAIN v /\ v[i] = us[i]
  BY <1>1
<1> QED
  BY <1>1, <1>2 DEF Among, Range

LEMMA AllCome ==
    ASSUME NEW us \in Seq(Frame), \A k \in Needed : Among(k, us)
    PROVE  Whole(us) # {}
<1>1. PICK k \in Needed : Among(k, us)
  BY TestedIs
<1>2. PICK i \in DOMAIN us : KindOf(us[i]) = k
  BY <1>1 DEF Among
<1>3. PICK N \in Nat : N = Len(us) /\ DOMAIN us = 1 .. N
  OBVIOUS
<1>4. N \in DOMAIN us /\ N \in 0 .. Len(us)
  BY <1>2, <1>3
<1>5. SubSeq(us, 1, N) = us
  BY <1>3, <1>4, BeginningIs
<1> QED
  BY <1>4, <1>5 DEF Whole

LEMMA UpToLater ==
    ASSUME units \in Seq(Seq(Frame)), NEW m \in 0 .. Len(units)
    PROVE  \E w \in Seq(Frame) : UpTo(Len(units)) = UpTo(m) \o w
<1>1. PICK us : us = units
  OBVIOUS
<1>2. PICK N \in Nat : N = Len(us)
  BY <1>1
<1>3. m \in 0 .. N /\ DOMAIN us = 1 .. N /\ \A n \in 1 .. N : us[n] \in Seq(Frame)
  BY <1>1, <1>2
<1>4. /\ \A n \in 1 .. N : UpTo(n) = UpTo(n - 1) \o us[n]
      /\ \A n \in 0 .. N : UpTo(n) \in Seq(Frame)
  BY <1>1, <1>2, UpToAre, UpToIs
<1>5. PICK b \in Seq(Frame) : b = UpTo(m)
  BY <1>3, <1>4
<1> DEFINE R == {j \in Nat : m + j <= N => \E w \in Seq(Frame) : UpTo(m + j) = b \o w}
<1>6. 0 \in R
  <2>1. <<>> \in Seq(Frame) /\ b \o <<>> = b /\ m + 0 = m
    BY <1>3, <1>5
  <2> QED
    BY <1>5, <2>1
<1>7. ASSUME NEW j \in Nat, j \in R PROVE j + 1 \in R
  <2> SUFFICES ASSUME m + (j + 1) <= N
               PROVE  \E w \in Seq(Frame) : UpTo(m + (j + 1)) = b \o w
    OBVIOUS
  <2>1. m + j <= N /\ m + (j + 1) \in 1 .. N /\ (m + (j + 1)) - 1 = m + j
    BY <1>3
  <2>2. PICK w \in Seq(Frame) : UpTo(m + j) = b \o w
    BY <1>7, <2>1
  <2>3. PICK x \in Seq(Frame) : x = us[m + (j + 1)] /\ UpTo(m + (j + 1)) = UpTo(m + j) \o x
    <3>1. PICK n \in 1 .. N : n = m + (j + 1) /\ n - 1 = m + j
      BY <2>1
    <3>2. UpTo(n) = UpTo(n - 1) \o us[n] /\ us[n] \in Seq(Frame)
      BY <1>3, <1>4
    <3> QED
      BY <3>1, <3>2
  <2>4. \A y, z, t \in Seq(Frame) : (y \o z) \o t = y \o (z \o t)
    BY JoinedThrice, SMTT(30)
  <2>5. (b \o w) \o x = b \o (w \o x)
    BY <2>4
  <2>6. w \o x \in Seq(Frame)
    OBVIOUS
  <2> QED
    BY <2>2, <2>3, <2>5, <2>6
<1> HIDE DEF R
<1>8. Nat \subseteq R
  BY <1>6, <1>7, SetInduction
<1>9. N - m \in Nat /\ m + (N - m) = N
  BY <1>3
<1>10. PICK j \in R : j = N - m
  BY <1>8, <1>9
<1>11. m + j <= N /\ m + j = N
  BY <1>9, <1>10
<1>12. PICK w \in Seq(Frame) : UpTo(m + j) = b \o w
  BY <1>10, <1>11 DEF R
<1>13. UpTo(m + j) = UpTo(Len(units))
  BY <1>1, <1>2, <1>11
<1>14. UpTo(Len(units)) = UpTo(m) \o w
  BY <1>5, <1>12, <1>13
<1> QED
  BY <1>12, <1>14

(* A set that is known has been sent. *)
LEMMA KnownSent ==
    ASSUME NEW us \in Seq(Frame), NEW k \in ParamSet, SetOf(k, Used(us)) # <<>>
    PROVE  \E u \in Range(us) : KindOf(u) = k /\ SetOf(k, Used(us)) = Cut(u)
<1>1. PICK vs : vs = Used(us)
  OBVIOUS
<1>2. vs \in Seq(Frame)
  BY <1>1, WholeIs
<1>3. PICK N \in Nat : N = Len(vs) /\ DOMAIN vs = 1 .. N
  BY <1>2
<1>4. PICK P : P = Places(k, vs)
  OBVIOUS
<1>5. P # {} /\ SetOf(k, vs) = Cut(vs[Max(P)])
  BY <1>1, <1>4 DEF SetOf
<1>6. P \in SUBSET (1 .. N)
  BY <1>3, <1>4 DEF Places
<1>7. PICK i : i = Max(P)
  OBVIOUS
<1>8. i \in P
  BY <1>5, <1>6, <1>7, GreatestIs
<1>9. i \in DOMAIN vs /\ KindOf(vs[i]) = k
  BY <1>4, <1>8 DEF Places
<1>10. vs[i] \in Range(us)
  <2>1. CASE Whole(us) = {}
    BY <1>1, <1>9, <2>1, WholeIs DEF Range
  <2>2. CASE Whole(us) # {}
    <3>1. PICK m : m = Min(Whole(us))
      OBVIOUS
    <3>2. m \in 1 .. Len(us) /\ Len(us) \in Nat
      BY <2>2, <3>1, WholeIs
    <3>3. m \in 0 .. Len(us) /\ DOMAIN us = 1 .. Len(us)
      BY <3>2
    <3>4. vs = SubSeq(us, 1, m)
      BY <1>1, <2>2, <3>1 DEF Used
    <3>5. DOMAIN vs = 1 .. m /\ \A l \in 1 .. m : vs[l] = us[l]
      BY <3>3, <3>4, BeginningIs
    <3>6. i \in DOMAIN us /\ vs[i] = us[i]
      BY <1>9, <3>2, <3>3, <3>5
    <3> QED
      BY <3>6 DEF Range
  <2> QED
    BY <2>1, <2>2
<1> QED
  BY <1>1, <1>5, <1>7, <1>9, <1>10

LEMMA SearchedIsLearned ==
    ASSUME units \in Seq(Seq(Frame)), codec_data = ParametersSearched
    PROVE  IF SpsLate
           THEN \A k \in Needed \ {"sps"} :
                   \E u \in Range(UpTo(Len(units))) : KindOf(u) = k /\ codec_data[k] = Cut(u)
           ELSE codec_data = ParametersOfStream
<1>1. /\ Settled \in SUBSET (1 .. Len(units)) /\ Len(units) \in Nat
      /\ \A n \in 0 .. Len(units) : UpTo(n) \in Seq(Frame)
      /\ \A n \in 0 .. Len(units) : (\A k \in Tested : Among(k, UpTo(n))) <=> n \in Settled
      /\ Settled # {} => Min(Settled) \in Settled
  BY SettledIs
<1>2. Tested = Needed \ {"sps"} /\ "sps" \in Needed
  <2>1. Needed = NeededIn(vcodec_id)
    BY KindIs
  <2> QED
    BY <2>1 DEF Tested, NeededIn
<1>3. DOMAIN units = 1 .. Len(units)
  OBVIOUS
<1>4. PICK m : m = IF Settled = {} THEN Len(units) ELSE Min(Settled)
  OBVIOUS
<1>5. m \in 0 .. Len(units) /\ codec_data = Latest(UpTo(m))
  <2>1. m \in 0 .. Len(units)
    <3>1. PICK N \in Nat : N = Len(units) /\ Settled \in SUBSET (1 .. N)
      BY <1>1
    <3>2. CASE Settled = {}
      BY <1>4, <3>1, <3>2
    <3>3. CASE Settled # {}
      <4>1. m = Min(Settled) /\ Min(Settled) \in Settled
        BY <1>1, <1>4, <3>3
      <4>2. m \in 1 .. N
        BY <3>1, <4>1
      <4> QED
        BY <3>1, <4>2
    <3> QED
      BY <3>2, <3>3
  <2>2. codec_data = Latest(UpTo(IF Settled = {} THEN Len(units) ELSE Min(Settled)))
    BY DEF ParametersSearched
  <2> QED
    BY <1>4, <2>1, <2>2
<1>6. PICK us, all : us = UpTo(m) /\ all = UpTo(Len(units))
  OBVIOUS
<1>7. us \in Seq(Frame) /\ all \in Seq(Frame)
  BY <1>1, <1>5, <1>6
<1>8. PICK w \in Seq(Frame) : all = us \o w
  BY <1>5, <1>6, UpToLater
<1>9. CASE SpsLate
  <2>1. Settled # {}
    <3>1. PICK n \in DOMAIN units : \A k \in Needed \ {"sps"} : Among(k, UpTo(n))
      BY <1>9 DEF SpsLate
    <3>2. n \in 0 .. Len(units)
      BY <1>1, <1>3, <3>1
    <3>3. n \in Settled
      BY <1>1, <1>2, <3>1, <3>2
    <3> QED
      BY <3>3
  <2>2. \A k \in Tested : codec_data[k] # <<>>
    BY <2>1, TestedKnown
  <2>3. ASSUME NEW k \in Needed \ {"sps"}
        PROVE  \E u \in Range(all) : KindOf(u) = k /\ codec_data[k] = Cut(u)
    <3>1. k \in ParamSet /\ k \in Tested
      BY <1>2, NeededIs
    <3>2. codec_data[k] = SetOf(k, Used(us))
      BY <1>5, <1>6, <3>1, LatestIs
    <3>3. PICK u \in Range(us) : KindOf(u) = k /\ SetOf(k, Used(us)) = Cut(u)
      BY <1>7, <2>2, <3>1, <3>2, KnownSent
    <3>4. u \in Range(all)
      BY <1>7, <1>8, AmongLater
    <3> QED
      BY <3>2, <3>3, <3>4
  <2> QED
    BY <1>6, <1>9, <2>3
<1>10. CASE ~SpsLate
  <2>1. CASE Settled = {}
    BY <1>4, <1>5, <1>10, <2>1 DEF ParametersOfStream
  <2>2. CASE Settled # {}
    <3>1. m \in Settled /\ m \in DOMAIN units
      BY <1>1, <1>3, <1>4, <2>2
    <3>2. \A k \in Needed \ {"sps"} : Among(k, us)
      BY <1>1, <1>2, <1>5, <1>6, <3>1
    <3>3. Among("sps", us)
      BY <1>6, <1>10, <3>1, <3>2 DEF SpsLate
    <3>4. Whole(us) # {}
      BY <1>7, <3>2, <3>3, AllCome
    <3>5. Latest(all) = Latest(us)
      BY <1>7, <1>8, <3>4, LatestStays
    <3> QED
      BY <1>5, <1>6, <1>10, <3>5 DEF ParametersOfStream
  <2> QED
    BY <2>1, <2>2
<1> QED
  BY <1>9, <1>10

(* Whatever the NAL units, frames and codec, a session knows the parameter sets of
   its stream between the searches, but for an SPS that came in a frame after
   the others (utils.c:128-238, rtsp_demo.c:1812-1833). *)
THEOREM AlwaysLearnedAsSent == Spec => []LearnedAsSent
<1>1. LearnInv => LearnedAsSent
  BY SearchedIsLearned DEF LearnInv, LearnedAsSent
<1> QED
  BY <1>1, InitPacketInv, NextPacketInv, InitLearnInv, NextLearnInv, PTL DEF Spec

-----------------------------------------------------------------------------
(* What a receiver has of a sequence of packets. *)
Nothing == [part |-> <<>>, got |-> <<>>]
Heard(a, ps) == a = [i \in 0 .. Len(ps) |-> IF i = 0 THEN [part |-> <<>>, got |-> <<>>]
                                            ELSE Receive(a[i - 1], ps[i])]
ReceivedOf(ps) == (CHOOSE a : Heard(a, ps))[Len(ps)]

LEMMA ReceivedIs == Received = ReceivedOf(packets).got /\ Received' = ReceivedOf(packets').got
  BY DEF Received, ReceivedOf, Heard

Turns(a, ps, n) == \A i \in 0 .. n : a[i] = IF i = 0 THEN Nothing ELSE Receive(a[i - 1], ps[i])

LEMMA HeardIs ==
    ASSUME NEW ps, Len(ps) \in Nat
    PROVE  \E a : Turns(a, ps, Len(ps)) /\ ReceivedOf(ps) = a[Len(ps)]
<1>1. PICK N \in Nat : N = Len(ps)
  OBVIOUS
<1> DEFINE T == {n \in Nat : \E g : Turns(g, ps, n)}
<1>2. 0 \in T
  <2>1. PICK g : g = [i \in {0} |-> Nothing]
    OBVIOUS
  <2>2. Turns(g, ps, 0)
    BY <2>1 DEF Turns
  <2> QED
    BY <2>2
<1>3. ASSUME NEW n \in Nat, n \in T PROVE n + 1 \in T
  <2>1. PICK g : Turns(g, ps, n)
    BY <1>3
  <2>2. PICK y : y = Receive(g[n], ps[n + 1])
    OBVIOUS
  <2>3. PICK h : h = [i \in 0 .. n + 1 |-> IF i = n + 1 THEN y ELSE g[i]]
    OBVIOUS
  <2>4. \A i \in 0 .. n : h[i] = g[i]
    <3> TAKE i \in 0 .. n
    <3>1. i \in 0 .. n + 1 /\ i # n + 1
      OBVIOUS
    <3> QED
      BY <2>3, <3>1
  <2>5. h[n + 1] = y
    <3>1. n + 1 \in 0 .. n + 1
      OBVIOUS
    <3> QED
      BY <2>3, <3>1
  <2>6. ASSUME NEW i \in 0 .. n + 1
        PROVE  h[i] = IF i = 0 THEN Nothing ELSE Receive(h[i - 1], ps[i])
    <3>1. CASE i = n + 1
      <4>1. n \in 0 .. n /\ i # 0 /\ i - 1 = n
        BY <3>1
      <4>2. h[i - 1] = g[n]
        BY <2>4, <4>1
      <4> QED
        BY <2>2, <2>5, <3>1, <4>1, <4>2
    <3>2. CASE i \in 0 .. n
      <4>1. i # 0 => i - 1 \in 0 .. n
        BY <3>2
      <4>2. h[i] = g[i] /\ (i # 0 => h[i - 1] = g[i - 1])
        BY <2>4, <3>2, <4>1
      <4>3. g[i] = IF i = 0 THEN Nothing ELSE Receive(g[i - 1], ps[i])
        BY <2>1, <3>2 DEF Turns
      <4> QED
        BY <4>2, <4>3
    <3> QED
      BY <3>1, <3>2
  <2>7. Turns(h, ps, n + 1)
    BY <2>6 DEF Turns
  <2> QED
    BY <2>7
<1> HIDE DEF T
<1>4. N \in T
  BY <1>1, <1>2, <1>3, SetInduction
<1>5. PICK g : Turns(g, ps, N)
  BY <1>4 DEF T
<1>6. PICK h : h = [i \in 0 .. N |-> g[i]]
  OBVIOUS
<1>7. \A i \in 0 .. N : h[i] = IF i = 0 THEN Nothing ELSE Receive(h[i - 1], ps[i])
  <2> TAKE i \in 0 .. N
  <2>1. i # 0 => i - 1 \in 0 .. N
    BY <1>1
  <2>2. h[i] = g[i] /\ (i # 0 => h[i - 1] = g[i - 1])
    BY <1>6, <2>1
  <2>3. g[i] = IF i = 0 THEN Nothing ELSE Receive(g[i - 1], ps[i])
    BY <1>5 DEF Turns
  <2> QED
    BY <2>2, <2>3
<1>8. Heard(h, ps)
  <2>1. h = [i \in 0 .. N |-> h[i]]
    BY <1>6
  <2>2. h = [i \in 0 .. N |-> IF i = 0 THEN Nothing ELSE Receive(h[i - 1], ps[i])]
    BY <1>7, <2>1, Zenon
  <2> QED
    BY <1>1, <2>2 DEF Heard, Nothing
<1>9. PICK a : Heard(a, ps) /\ ReceivedOf(ps) = a[N]
  <2>1. Heard(CHOOSE a : Heard(a, ps), ps)
    BY <1>8
  <2> QED
    BY <1>1, <2>1 DEF ReceivedOf
<1>10. Turns(a, ps, N)
  <2>1. a = [i \in 0 .. N |-> IF i = 0 THEN Nothing ELSE Receive(a[i - 1], ps[i])]
    BY <1>1, <1>9 DEF Heard, Nothing
  <2> QED
    BY <2>1 DEF Turns
<1> QED
  BY <1>1, <1>9, <1>10

LEMMA ReceivedNothing == ReceivedOf(<<>>) = Nothing
<1>1. PICK a : Turns(a, <<>>, Len(<<>>)) /\ ReceivedOf(<<>>) = a[Len(<<>>)]
  <2>1. Len(<<>>) \in Nat
    OBVIOUS
  <2> QED
    BY <2>1, HeardIs
<1>2. Len(<<>>) = 0 /\ 0 \in 0 .. 0
  OBVIOUS
<1> QED
  BY <1>1, <1>2 DEF Turns

(* One packet more. *)
LEMMA ReceivedMore ==
    ASSUME NEW P, NEW ps \in Seq(P), NEW p
    PROVE  ReceivedOf(Append(ps, p)) = Receive(ReceivedOf(ps), p)
<1>1. PICK N \in Nat : N = Len(ps)
  OBVIOUS
<1>2. PICK qs : qs = Append(ps, p)
  OBVIOUS
<1>3. Len(qs) = N + 1 /\ qs[N + 1] = p /\ \A i \in 1 .. N : qs[i] = ps[i]
  <2>1. ps \in Seq(P \cup {p}) /\ p \in P \cup {p}
    OBVIOUS
  <2> QED
    BY <1>1, <1>2, <2>1
<1>4. PICK a : Turns(a, ps, N) /\ ReceivedOf(ps) = a[N]
  BY <1>1, HeardIs
<1>5. PICK b : Turns(b, qs, N + 1) /\ ReceivedOf(qs) = b[N + 1]
  <2>1. Len(qs) \in Nat
    BY <1>3
  <2> QED
    BY <1>3, <2>1, HeardIs
<1> DEFINE R == {n \in Nat : n <= N => a[n] = b[n]}
<1>6. 0 \in R
  <2>1. 0 \in 0 .. N /\ 0 \in 0 .. N + 1
    OBVIOUS
  <2>2. a[0] = Nothing /\ b[0] = Nothing
    BY <1>4, <1>5, <2>1 DEF Turns
  <2> QED
    BY <2>2
<1>7. ASSUME NEW n \in Nat, n \in R PROVE n + 1 \in R
  <2> SUFFICES ASSUME n + 1 <= N PROVE a[n + 1] = b[n + 1]
    OBVIOUS
  <2>1. n + 1 \in 0 .. N /\ n + 1 \in 0 .. N + 1 /\ n + 1 \in 1 .. N /\ n + 1 # 0 /\ (n + 1) - 1 = n /\ n <= N
    BY <1>1
  <2>2. a[n + 1] = Receive(a[n], ps[n + 1])
    BY <1>4, <2>1 DEF Turns
  <2>3. b[n + 1] = Receive(b[n], qs[n + 1])
    BY <1>5, <2>1 DEF Turns
  <2> QED
    BY <1>3, <1>7, <2>1, <2>2, <2>3
<1> HIDE DEF R
<1>8. N \in R
  BY <1>1, <1>6, <1>7, SetInduction
<1>9. a[N] = b[N]
  BY <1>8 DEF R
<1>10. b[N + 1] = Receive(b[N], qs[N + 1])
  <2>1. N + 1 \in 0 .. N + 1 /\ N + 1 # 0 /\ (N + 1) - 1 = N
    OBVIOUS
  <2> QED
    BY <1>5, <2>1 DEF Turns
<1> QED
  BY <1>2, <1>3, <1>4, <1>5, <1>9, <1>10

-----------------------------------------------------------------------------
(* A NAL unit of which no packet is made refuses the frame. *)
Void(U, k) == U[k] = <<>> \/ (k = Len(U) /\ \E n \in 1 .. 3 : U[k] = [i \in 1 .. n |-> 0])

(* The first bytes at i, up to four. *)
LEMMA FromIs ==
    ASSUME frame \in Frame, NEW i \in 1 .. Len(frame), NEW n \in {3, 4}, NEW q, q = From(i, n)
    PROVE  /\ Len(q) = IF i + n > Len(frame) THEN Len(frame) - i + 1 ELSE n
           /\ \A j \in 1 .. Len(q) : q[j] = frame[i + j - 1]
           /\ q \in Frame
<1>1. PICK f : f = frame
  OBVIOUS
<1>2. f \in Frame /\ Len(f) \in Nat /\ i \in 1 .. Len(f)
  BY <1>1, FrameIs
<1>3. PICK e \in i .. Len(f) : e = IF i + n > Len(f) THEN Len(f) ELSE i + n - 1
  <2>1. n = 3 \/ n = 4
    OBVIOUS
  <2>2. Len(f) \in i .. Len(f) /\ (~(i + n > Len(f)) => i + n - 1 \in i .. Len(f))
    BY <1>2, <2>1
  <2> QED
    BY <2>2
<1>4. q = SubSeq(f, i, e)
  BY <1>1, <1>3 DEF From
<1>5. q \in Frame /\ Len(q) = e - i + 1 /\ \A j \in 1 .. e - i + 1 : q[j] = f[i + j - 1]
  BY <1>2, <1>4, PartIs, ZenonT(60)
<1>6. Len(q) = IF i + n > Len(f) THEN Len(f) - i + 1 ELSE n
  BY <1>2, <1>3, <1>5
<1> QED
  BY <1>1, <1>5, <1>6

LEMMA FourAre ==
    ASSUME NEW q \in Frame, Len(q) = 4, q[1] = 0, q[2] = 0, q[3] = 0, q[4] = 1
    PROVE  q = <<0, 0, 0, 1>>
<1>1. PICK B : B = 0 .. 255
  OBVIOUS
<1>2. q \in Seq(B)
  BY <1>1 DEF Frame
<1> QED
  BY <1>2

LEMMA PrefixFour ==
    ASSUME NEW q \in Frame, IsPrefix(q, <<0, 0, 0, 1>>)
    PROVE  Len(q) \in 0 .. 4 /\ \A j \in 1 .. Len(q) : q[j] = IF j = 4 THEN 1 ELSE 0
<1>1. PICK w : w = <<0, 0, 0, 1>>
  OBVIOUS
<1>2. Len(w) = 4 /\ w \in Seq({0, 1}) /\ \A j \in 1 .. 4 : w[j] = IF j = 4 THEN 1 ELSE 0
  BY <1>1
<1>3. PICK n : n = Len(q)
  OBVIOUS
<1>4. n \in Nat
  BY <1>3, FrameIs
<1>5. n <= 4 /\ SubSeq(q, 1, n) = SubSeq(w, 1, n)
  BY <1>1, <1>2, <1>3 DEF IsPrefix
<1>6. n \in 0 .. 4
  BY <1>4, <1>5
<1>7. q = SubSeq(q, 1, n)
  <2>1. q \in Seq(0 .. 255) /\ n \in 0 .. Len(q)
    BY <1>3, <1>4 DEF Frame
  <2> QED
    BY <1>3, <2>1, BeginningIs
<1>8. \A j \in 1 .. n : SubSeq(w, 1, n)[j] = w[j]
  BY <1>2, <1>6, BeginningIs
<1>9. \A j \in 1 .. n : j \in 1 .. 4
  BY <1>6
<1> QED
  BY <1>2, <1>3, <1>5, <1>6, <1>7, <1>8, <1>9

(* Where a packer begins: behind the start code, unless there is nothing to send. *)
LEMMA EncodeBegins ==
    ASSUME frame \in Frame, NEW U, U = NalUnits, NEW c, c = CodeOf(frame), NEW k \in 1 .. Len(U),
           s = BeginOf(frame, c[k]), NEW last, last = EndOf(frame, c, k), Encode(last)
    PROVE  \/ pos' = c[k] + 3 /\ pos' + len' = last + 1
           \/ len' <= 0 /\ Void(U, k)
<1>1. PICK f : f = frame
  OBVIOUS
<1>2. f \in Frame /\ Codes(f, c) /\ Listed(f, c, U) /\ Len(f) \in Nat
  BY <1>1, NalUnitsAre, CodesListed, UnitsListed, FrameIs
<1>3. k \in 1 .. Len(c) /\ Len(c) \in Nat /\ Len(U) \in Nat /\ Len(U) <= Len(c)
  BY <1>2 DEF Listed, Codes
<1>4. PICK x \in 1 .. Len(f) - 2 : x = c[k] /\ x \in CodesOf(f)
  BY <1>2, <1>3 DEF Codes
<1>5. f[x] = 0 /\ f[x + 1] = 0 /\ f[x + 2] = 1
  BY <1>2, <1>4, CodesAre
<1>6. x + 3 <= Len(f) /\ U[k] = SubSeq(f, x + 3, last)
  BY <1>1, <1>2, <1>4 DEF Listed
<1>7. PICK e \in Nat : e = last /\ x + 2 <= e /\ e <= Len(f)
  BY <1>1, <1>2, <1>3, <1>4, EndIs
<1>8. PICK b : b = s /\ b = IF x > 1 /\ f[x - 1] = 0 THEN x - 1 ELSE x
  BY <1>1, <1>4 DEF BeginOf
<1>9. PICK p : p = IF From(b, 3) = <<0, 0, 1>> THEN b + 3 ELSE b
  OBVIOUS
<1>10. PICK long \in BOOLEAN :
           /\ IF long THEN IsPrefix(From(p, 4), <<0, 0, 0, 1>>) ELSE From(p, 4) # <<0, 0, 0, 1>>
           /\ pos' = IF long THEN p + 4 ELSE p
           /\ len' = last + 1 - pos'
  BY <1>8, <1>9 DEF Encode
<1>11. CASE b = x - 1 /\ b # x
  <2>1. b \in 1 .. Len(f) /\ b + 4 <= Len(f) /\ b + 1 = x /\ f[b] = 0
    <3>1. x > 1 /\ f[x - 1] = 0
      BY <1>8, <1>11
    <3>2. b = x - 1 /\ x \in Nat /\ x + 3 <= Len(f) /\ Len(f) \in Nat
      BY <1>2, <1>4, <1>6, <1>11
    <3>3. b \in 1 .. Len(f) /\ b + 4 <= Len(f) /\ b + 1 = x
      BY <3>1, <3>2
    <3> QED
      BY <3>1, <3>2, <3>3
  <2>2. PICK q : q = From(b, 3)
    OBVIOUS
  <2>3. q[3] = f[b + 3 - 1] /\ f[b + 3 - 1] = 0
    <3>1. Len(q) = 3 /\ \A j \in 1 .. Len(q) : q[j] = f[b + j - 1]
      <4>1. PICK n \in {3, 4} : n = 3
        OBVIOUS
      <4>2. q = From(b, n) /\ b \in 1 .. Len(frame)
        BY <1>1, <2>1, <2>2, <4>1
      <4>3. /\ Len(q) = IF b + n > Len(f) THEN Len(f) - b + 1 ELSE n
            /\ \A j \in 1 .. Len(q) : q[j] = f[b + j - 1]
        BY <1>1, <4>2, FromIs
      <4>4. Len(q) = 3
        BY <1>2, <2>1, <4>1, <4>3
      <4> QED
        BY <4>3, <4>4
    <3>2. q[3] = f[b + 3 - 1]
      BY <3>1
    <3>3. b + 3 - 1 = x + 1
      BY <1>4, <2>1
    <3> QED
      BY <1>5, <3>2, <3>3
  <2>4. p = b
    <3>1. q # <<0, 0, 1>>
      BY <2>3
    <3> QED
      BY <1>9, <2>2, <3>1
  <2>5. PICK r : r = From(b, 4)
    OBVIOUS
  <2>6. Len(r) = 4 /\ r \in Frame /\ \A j \in 1 .. 4 : r[j] = f[b + j - 1]
    <3>1. PICK n \in {3, 4} : n = 4
      OBVIOUS
    <3>2. r = From(b, n) /\ b \in 1 .. Len(frame)
      BY <1>1, <2>1, <2>5, <3>1
    <3>3. /\ Len(r) = IF b + n > Len(f) THEN Len(f) - b + 1 ELSE n
          /\ \A j \in 1 .. Len(r) : r[j] = f[b + j - 1]
          /\ r \in Frame
      BY <1>1, <3>2, FromIs
    <3>4. Len(r) = 4
      BY <1>2, <2>1, <3>1, <3>3
    <3> QED
      BY <3>3, <3>4
  <2>7. r = <<0, 0, 0, 1>>
    <3>1. b + 1 - 1 = b /\ b + 2 - 1 = x /\ b + 3 - 1 = x + 1 /\ b + 4 - 1 = x + 2
      BY <1>4, <2>1
    <3>2. r[1] = f[b + 1 - 1] /\ r[2] = f[b + 2 - 1] /\ r[3] = f[b + 3 - 1] /\ r[4] = f[b + 4 - 1]
      BY <2>6
    <3>3. r[1] = 0 /\ r[2] = 0 /\ r[3] = 0 /\ r[4] = 1
      BY <1>5, <2>1, <3>1, <3>2
    <3> QED
      BY <2>6, <3>3, FourAre
  <2>8. long
    BY <1>10, <2>4, <2>5, <2>7
  <2>9. pos' = x + 3 /\ len' = e + 1 - (x + 3)
    <3>1. b + 4 = x + 3
      BY <1>4, <2>1
    <3> QED
      BY <1>7, <1>10, <2>4, <2>8, <3>1
  <2> QED
    BY <1>4, <1>7, <2>9
<1>12. CASE b = x
  <2>1. x \in 1 .. Len(f)
    BY <1>2, <1>4
  <2>2. p = x + 3
    <3>1. From(x, 3) = SubSeq(f, x, x + 2)
      <4>1. x + 3 - 1 = x + 2 /\ ~(x + 3 > Len(f))
        BY <1>2, <1>4, <1>6
      <4> QED
        BY <1>1, <4>1 DEF From
    <3>2. SubSeq(f, x, x + 2) = <<0, 0, 1>>
      BY <1>4 DEF CodesOf
    <3> QED
      BY <1>9, <1>12, <3>1, <3>2
  <2>3. CASE ~long
    <3>1. pos' = x + 3 /\ len' = e + 1 - (x + 3)
      BY <1>7, <1>10, <2>2, <2>3
    <3>2. (x + 3) + (e + 1 - (x + 3)) = e + 1
      BY <1>7
    <3> QED
      BY <1>4, <1>7, <3>1, <3>2
  <2>4. CASE long
    <3>1. p \in 1 .. Len(f)
      BY <1>2, <1>4, <1>6, <2>2
    <3>2. PICK q : q = From(p, 4)
      OBVIOUS
    <3>3. /\ Len(q) = IF p + 4 > Len(f) THEN Len(f) - p + 1 ELSE 4
          /\ \A j \in 1 .. Len(q) : q[j] = f[p + j - 1]
          /\ q \in Frame
      BY <1>1, <1>2, <3>1, <3>2, FromIs
    <3>4. Len(q) \in 0 .. 4 /\ \A j \in 1 .. Len(q) : q[j] = IF j = 4 THEN 1 ELSE 0
      BY <1>10, <2>4, <3>2, <3>3, PrefixFour
    <3>5. len' = e + 1 - (p + 4)
      BY <1>7, <1>10, <2>4
    <3>6. CASE Len(q) = 4
      <4>1. p + 3 <= Len(f)
        <5>1. p + 4 > Len(f) => Len(f) - p + 1 = 4
          BY <3>3, <3>6
        <5> HIDE <3>3
        <5> QED
          BY <1>2, <3>1, <5>1
      <4>2. q[1] = f[p] /\ q[2] = f[p + 1] /\ q[3] = f[(p + 1) + 1] /\ q[4] = f[(p + 1) + 2]
        <5>1. p + 1 - 1 = p /\ p + 2 - 1 = p + 1 /\ p + 3 - 1 = (p + 1) + 1 /\ p + 4 - 1 = (p + 1) + 2
          BY <3>1
        <5>2. q[1] = f[p + 1 - 1] /\ q[2] = f[p + 2 - 1] /\ q[3] = f[p + 3 - 1] /\ q[4] = f[p + 4 - 1]
          <6>1. \A j \in 1 .. 4 : q[j] = f[p + j - 1]
            BY <3>3, <3>6
          <6> HIDE <3>2
          <6> QED
            BY <6>1
        <5> QED
          BY <5>1, <5>2
      <4>3. q[1] = 0 /\ q[2] = 0 /\ q[3] = 0 /\ q[4] = 1
        BY <3>4, <3>6
      <4>4. p + 1 \in CodesOf(f)
        <5>1. p + 1 \in 1 .. Len(f) - 2
          BY <1>2, <3>1, <4>1
        <5> QED
          BY <1>2, <4>2, <4>3, <5>1, CodesAre
      <4>5. PICK l \in 1 .. Len(c) : c[l] = p + 1
        BY <1>2, <4>4 DEF Codes
      <4>6. l > k
        <5>1. l < k => (p + 1) + 3 <= x
          BY <1>2, <1>3, <1>4, <4>5 DEF Codes
        <5>2. l = k => p + 1 = x
          BY <1>4, <4>5
        <5> QED
          BY <1>3, <1>4, <2>2, <5>1, <5>2
      <4>7. PICK d \in 1 .. Len(c) : d = k + 1
        BY <1>3, <4>6
      <4>8. PICK y \in 1 .. Len(f) - 2 : y = c[d] /\ x + 3 <= y
        <5>1. c[d] \in 1 .. Len(f) - 2
          BY <1>2 DEF Codes
        <5>2. x + 3 <= c[d]
          BY <1>2, <1>3, <1>4, <4>7 DEF Codes
        <5> QED
          BY <5>1, <5>2
      <4>9. y <= p + 1
        <5>1. d < l => y + 3 <= p + 1
          BY <1>2, <4>5, <4>8 DEF Codes
        <5>2. d = l => y = p + 1
          BY <4>5, <4>8
        <5>3. d <= l
          BY <1>3, <4>6, <4>7
        <5> QED
          BY <1>3, <3>1, <4>7, <4>8, <5>1, <5>2, <5>3
      <4>10. y # p
        <5>1. y \in CodesOf(f)
          BY <1>2, <4>7, <4>8 DEF Codes
        <5>2. f[y + 2] = 1
          BY <1>2, <5>1, CodesAre
        <5>3. y = p => y + 2 = (p + 1) + 1
          BY <3>1
        <5>4. f[(p + 1) + 1] = 0
          BY <4>2, <4>3
        <5>5. y = p => f[(p + 1) + 1] = 1
          BY <5>2, <5>3
        <5> QED
          BY <5>4, <5>5
      <4>11. y = p + 1
        <5>1. p <= y /\ p \in Nat /\ y \in Nat
          BY <1>4, <2>2, <3>1, <4>8
        <5> QED
          BY <4>9, <4>10, <5>1
      <4>12. last = p - 1
        <5>1. k # Len(c)
          BY <1>3, <4>7
        <5>2. last = BeginOf(f, y) - 1
          BY <1>1, <4>7, <4>8, <5>1 DEF EndOf
        <5>3. BeginOf(f, y) = p
          <6>1. y > 1 /\ y - 1 = p
            BY <3>1, <4>11
          <6>2. f[p] = 0
            BY <4>2, <4>3
          <6> QED
            BY <6>1, <6>2 DEF BeginOf
        <5> QED
          BY <5>2, <5>3
      <4>13. U[k] = <<>>
        <5>1. p \in Nat \ {0} /\ p - 1 \in Nat /\ p - 1 <= p - 1 /\ p - 1 <= Len(f) /\ p > p - 1
          BY <1>2, <3>1
        <5>2. U[k] = SubSeq(f, p, p - 1)
          BY <1>6, <2>2, <4>12
        <5>3. PICK g : g = p - 1
          OBVIOUS
        <5>4. SubSeq(f, p, g) = <<>>
          BY <1>2, <5>1, <5>3, PieceIs
        <5> QED
          BY <5>2, <5>3, <5>4
      <4>14. len' <= 0
        BY <1>7, <3>1, <3>5, <4>12
      <4> QED
        BY <4>13, <4>14 DEF Void
    <3>7. CASE Len(q) # 4
      <4>1. PICK n \in 1 .. 3 : n = Len(q) /\ n = Len(f) - p + 1
        BY <1>2, <3>1, <3>3, <3>4, <3>7
      <4>2. \A j \in 1 .. n : f[p + j - 1] = 0
        BY <3>3, <3>4, <4>1
      <4>3. k = Len(c)
        <5> SUFFICES ASSUME k # Len(c) PROVE FALSE
          OBVIOUS
        <5>1. PICK d \in 1 .. Len(c) : d = k + 1
          BY <1>3
        <5>2. PICK y \in 1 .. Len(f) - 2 : y = c[d] /\ x + 3 <= y
          <6>1. c[d] \in 1 .. Len(f) - 2
            BY <1>2 DEF Codes
          <6>2. x + 3 <= c[d]
            <7>1. k \in 1 .. Len(c) /\ k < d /\ c[k] = x
              BY <1>3, <1>4, <5>1
            <7>2. \A i, j \in 1 .. Len(c) : i < j => c[i] + 3 <= c[j]
              BY <1>2 DEF Codes
            <7> QED
              BY <7>1, <7>2
          <6> QED
            BY <6>1, <6>2
        <5>3. f[y + 2] = 1
          <6>1. y \in CodesOf(f)
            BY <1>2, <5>1, <5>2 DEF Codes
          <6> QED
            BY <1>2, <6>1, CodesAre
        <5>4. PICK j \in 1 .. n : p + j - 1 = y + 2
          <6>1. PICK m \in Int : m = y + 3 - p
            BY <3>1, <5>2
          <6>2. y + 2 <= Len(f) /\ x \in Nat /\ y \in Nat
            BY <1>2, <1>4, <5>2
          <6>4. p = x + 3 /\ x + 3 <= y /\ n = Len(f) - p + 1
            BY <2>2, <4>1, <5>2
          <6>3. m \in 1 .. n /\ p + m - 1 = y + 2
            BY <1>2, <3>1, <6>1, <6>2, <6>4
          <6> QED
            BY <6>3
        <5> QED
          BY <4>2, <5>3, <5>4
      <4>4. k = Len(U) /\ last = Len(f)
        BY <1>1, <1>3, <4>3 DEF EndOf
      <4>5. U[k] = [i \in 1 .. n |-> 0]
        <5>1. PICK u : u = SubSeq(f, p, Len(f))
          OBVIOUS
        <5>2. Len(f) \in p .. Len(f) /\ p \in 1 .. Len(f)
          BY <1>2, <3>1
        <5>3. u \in Frame /\ Len(u) = n /\ \A j \in 1 .. n : u[j] = f[p + j - 1]
          <6>1. PICK g : g = Len(f)
            OBVIOUS
          <6>2. u \in Frame /\ Len(u) = g - p + 1 /\ \A j \in 1 .. g - p + 1 : u[j] = f[p + j - 1]
            BY <1>2, <5>1, <5>2, <6>1, PartIs
          <6> QED
            BY <4>1, <6>1, <6>2
        <5>4. u = [i \in 1 .. n |-> u[i]]
          <6>1. u \in Seq(0 .. 255) /\ n \in 0 .. Len(u) /\ n = Len(u)
            BY <4>1, <5>3 DEF Frame
          <6>2. SubSeq(u, 1, n) = u /\ SubSeq(u, 1, n) = [i \in 1 .. n |-> u[i]]
            BY <6>1, BeginningIs
          <6> QED
            BY <6>2
        <5>5. \A j \in 1 .. n : u[j] = 0
          BY <4>2, <5>3
        <5>6. [i \in 1 .. n |-> u[i]] = [i \in 1 .. n |-> 0]
          BY <5>5
        <5> QED
          BY <1>6, <2>2, <4>4, <5>1, <5>4, <5>6
      <4>6. len' <= 0
        BY <1>2, <1>7, <3>1, <3>5, <4>1, <4>4
      <4> QED
        BY <4>4, <4>5, <4>6 DEF Void
    <3> QED
      BY <3>6, <3>7
  <2> QED
    BY <2>3, <2>4
<1> QED
  BY <1>8, <1>11, <1>12

-----------------------------------------------------------------------------
(* The search has come to b, behind the first k start codes. *)
Between(f, c, k, b) ==
    /\ k > 0 => c[k] + 3 <= b
    /\ k < Len(c) => b <= BeginOf(f, c[k + 1])

(* A receiver has the first k NAL units. *)
Rebuilt(U, k, ps) == ReceivedOf(ps) = [part |-> <<>>, got |-> SubSeq(U, 1, k)]

LEMMA SearchStops ==
    ASSUME frame \in Frame, NEW c, Codes(frame, c), NEW k \in 0 .. Len(c), NEW b \in 1 .. Len(frame),
           Between(frame, c, k, b)
    PROVE  /\ CodeAt(b) = 0 => Between(frame, c, k, b + 1)
           /\ CodeAt(b) > 0 => /\ k < Len(c) /\ b = BeginOf(frame, c[k + 1])
                               /\ b + CodeAt(b) = c[k + 1] + 3
<1>1. Len(frame) \in Nat /\ Len(c) \in Nat /\ b \in Nat \ {0} /\ \A l \in 1 .. Len(c) : c[l] \in Nat
  BY FrameIs DEF Codes
<1>2. CodeAt(b) \in Nat
  BY DEF CodeAt
<1>3. CASE k < Len(c)
  <2>1. PICK l \in 1 .. Len(c) : l = k + 1
    BY <1>1, <1>3
  <2>2. PICK g \in Nat \ {0} : g = BeginOf(frame, c[l])
    BY BeginIs
  <2>3. b <= g
    BY <1>3, <2>1, <2>2 DEF Between
  <2>4. l = 1 \/ c[l - 1] < b
    <3>1. CASE k = 0
      BY <2>1, <3>1
    <3>2. CASE k > 0
      <4>1. c[k] + 3 <= b /\ c[k] \in Nat /\ l - 1 = k
        BY <1>1, <2>1, <3>2 DEF Between
      <4> QED
        BY <1>1, <4>1
    <3> QED
      BY <3>1, <3>2
  <2>5. Found(b) # {} /\ Min(Found(b)) = g /\ g + CodeAt(g) = c[l] + 3
    BY <1>1, <2>2, <2>3, <2>4, FoundNext
  <2>6. g \in Found(b) /\ \A y \in Found(b) : g <= y
    <3>1. Found(b) \in SUBSET Nat
      BY <1>1 DEF Found
    <3> QED
      BY <2>5, <3>1, LeastIs
  <2>7. CASE CodeAt(b) = 0
    <3>1. g # b
      BY <2>6, <2>7 DEF Found
    <3>2. b + 1 <= g
      BY <1>1, <2>2, <2>3, <3>1
    <3>3. k > 0 => c[k] + 3 <= b + 1
      <4> SUFFICES ASSUME k > 0 PROVE c[k] + 3 <= b + 1
        OBVIOUS
      <4>1. c[k] + 3 <= b /\ c[k] \in Nat
        BY <1>1, <1>3 DEF Between
      <4> QED
        BY <1>1, <4>1
    <3>4. k < Len(c) => b + 1 <= BeginOf(frame, c[k + 1])
      BY <2>1, <2>2, <3>2
    <3>5. Between(frame, c, k, b + 1)
      BY <3>3, <3>4 DEF Between
    <3> QED
      BY <2>7, <3>5
  <2>8. CASE CodeAt(b) > 0
    <3>1. b \in Found(b)
      BY <1>1, <2>8 DEF Found
    <3>2. g = b
      <4>1. g <= b
        BY <2>6, <3>1
      <4> QED
        BY <1>1, <2>2, <2>3, <4>1
    <3> QED
      BY <1>2, <1>3, <2>1, <2>2, <2>5, <2>8, <3>2
  <2> QED
    BY <1>2, <2>7, <2>8
<1>4. CASE k = Len(c)
  <2>1. Len(c) = 0 \/ c[Len(c)] < b
    <3>1. CASE k = 0
      BY <1>4, <3>1
    <3>2. CASE k > 0
      <4>1. c[k] + 3 <= b /\ c[k] \in Nat
        BY <1>1, <3>2 DEF Between
      <4> QED
        BY <1>1, <1>4, <4>1
    <3> QED
      BY <3>1, <3>2
  <2>2. Found(b) = {}
    BY <1>1, <2>1, FoundNone
  <2>3. ~(CodeAt(b) > 0)
    BY <1>1, <2>2 DEF Found
  <2>4. CodeAt(b) = 0 => Between(frame, c, k, b + 1)
    <3>1. k > 0 => c[k] + 3 <= b + 1
      <4> SUFFICES ASSUME k > 0 PROVE c[k] + 3 <= b + 1
        OBVIOUS
      <4>1. c[k] + 3 <= b /\ c[k] \in Nat
        BY <1>1 DEF Between
      <4> QED
        BY <1>1, <4>1
    <3> QED
      BY <1>1, <1>4, <3>1 DEF Between
  <2> QED
    BY <2>3, <2>4
<1> QED
  BY <1>1, <1>3, <1>4

(* Near the end of the frame no start code is left. *)
LEMMA SearchEnds ==
    ASSUME NEW f \in Frame, NEW c, Codes(f, c), NEW k \in 0 .. Len(c), NEW b \in Nat, Len(f) - b + 1 < 3,
           Between(f, c, k, b)
    PROVE  k = Len(c)
<1>0. Len(c) \in Nat
  BY DEF Codes
<1> SUFFICES ASSUME k < Len(c) PROVE FALSE
  BY <1>0
<1>1. PICK l \in 1 .. Len(c) : l = k + 1
  BY <1>0
<1>2. PICK x \in 1 .. Len(f) - 2 : x = c[l]
  BY DEF Codes
<1>3. PICK g \in Nat \ {0} : g = BeginOf(f, c[l]) /\ g <= x
  BY <1>2, BeginIs
<1>4. b <= g
  BY <1>1, <1>3 DEF Between
<1>5. Len(f) \in Nat
  BY FrameIs
<1> QED
  BY <1>2, <1>3, <1>4, <1>5

(* Behind a NAL unit the search is before the next start code. *)
LEMMA BehindUnit ==
    ASSUME NEW f \in Frame, NEW c, Codes(f, c), NEW k \in 1 .. Len(c)
    PROVE  /\ Between(f, c, k, c[k] + 3) /\ Between(f, c, k, EndOf(f, c, k) + 1)
           /\ EndOf(f, c, k) >= Len(f) => k = Len(c)
<1>1. Len(f) \in Nat /\ Len(c) \in Nat
  BY FrameIs DEF Codes
<1>2. PICK x \in 1 .. Len(f) - 2 : x = c[k]
  BY DEF Codes
<1>3. PICK e \in Nat : e = EndOf(f, c, k) /\ x + 2 <= e /\ e <= Len(f)
  BY <1>2, EndIs
<1>4. x + 3 <= x + 3 /\ x + 3 <= e + 1
  BY <1>2, <1>3
<1>5. CASE k = Len(c)
  <2>1. ~(k < Len(c))
    BY <1>1, <1>5
  <2> QED
    BY <1>2, <1>3, <1>4, <1>5, <2>1 DEF Between
<1>6. CASE k # Len(c)
  <2>1. PICK l \in 1 .. Len(c) : l = k + 1
    BY <1>1, <1>6
  <2>2. PICK g \in Nat \ {0} : g = BeginOf(f, c[l])
    BY BeginIs
  <2>3. PICK y \in 1 .. Len(f) - 2 : y = c[l]
    BY DEF Codes
  <2>4. g <= y
    BY <2>2, <2>3, BeginIs
  <2>5. e = g - 1
    BY <1>3, <1>6, <2>1, <2>2 DEF EndOf
  <2>6. x + 3 <= g /\ e + 1 <= g /\ ~(e >= Len(f))
    <3>1. e + 1 = g /\ x + 2 <= e /\ e < Len(f)
      BY <1>1, <1>3, <2>2, <2>3, <2>4, <2>5
    <3>2. x + 3 <= g
      BY <1>2, <1>3, <3>1
    <3> QED
      BY <1>1, <1>3, <3>1, <3>2
  <2> QED
    BY <1>2, <1>3, <1>4, <2>1, <2>2, <2>6 DEF Between
<1> QED
  BY <1>5, <1>6

LEMMA NextUnit ==
    ASSUME NEW X, NEW us \in Seq(X), NEW k \in 1 .. Len(us)
    PROVE  Append(SubSeq(us, 1, k - 1), us[k]) = SubSeq(us, 1, k)
<1>1. PICK m \in 0 .. Len(us) : m = k - 1 /\ m + 1 = k
  OBVIOUS
<1>2. PICK p, q, v : p = SubSeq(us, 1, m) /\ q = SubSeq(us, 1, k) /\ v = Append(p, us[k])
  OBVIOUS
<1>3. p \in Seq(X) /\ Len(p) = m /\ \A i \in 1 .. m : p[i] = us[i]
  BY <1>2, BeginningIs
<1>4. q \in Seq(X) /\ Len(q) = k /\ \A i \in 1 .. k : q[i] = us[i]
  <2>1. k \in 0 .. Len(us)
    OBVIOUS
  <2> QED
    BY <1>2, <2>1, BeginningIs
<1>5. v \in Seq(X) /\ Len(v) = k /\ v[k] = us[k] /\ \A i \in 1 .. m : v[i] = us[i]
  BY <1>1, <1>2, <1>3
<1>6. \A i \in 1 .. k : v[i] = q[i]
  <2> TAKE i \in 1 .. k
  <2>1. i = k \/ i \in 1 .. m
    BY <1>1
  <2> QED
    BY <1>4, <1>5, <2>1
<1>7. v = q
  BY <1>4, <1>5, <1>6
<1> QED
  BY <1>1, <1>2, <1>7

LEMMA PiecesJoin ==
    ASSUME NEW f \in Frame, NEW i \in 1 .. Len(f), NEW m \in 1 .. Len(f), NEW e \in 1 .. Len(f), i < m, m <= e
    PROVE  SubSeq(f, i, m - 1) \o SubSeq(f, m, e) = SubSeq(f, i, e) /\ SubSeq(f, i, m - 1) # <<>>
<1>0. PICK B : B = 0 .. 255
  OBVIOUS
<1>1. f \in Seq(B) /\ Len(f) \in Nat
  BY <1>0 DEF Frame
<1>2. PICK g \in 1 .. Len(f) : g = m - 1 /\ g \in i .. Len(f)
  BY <1>1
<1>3. PICK p, q, r, v : p = SubSeq(f, i, g) /\ q = SubSeq(f, m, e) /\ r = SubSeq(f, i, e) /\ v = p \o q
  OBVIOUS
<1>4. p \in Frame /\ Len(p) = g - i + 1 /\ \A j \in 1 .. g - i + 1 : p[j] = f[i + j - 1]
  BY <1>2, <1>3, PartIs, ZenonT(60)
<1>5. q \in Frame /\ Len(q) = e - m + 1 /\ \A j \in 1 .. e - m + 1 : q[j] = f[m + j - 1]
  <2>1. e \in m .. Len(f)
    OBVIOUS
  <2> QED
    BY <1>3, <2>1, PartIs, ZenonT(60)
<1>6. r \in Frame /\ Len(r) = e - i + 1 /\ \A j \in 1 .. e - i + 1 : r[j] = f[i + j - 1]
  <2>1. e \in i .. Len(f)
    BY <1>1
  <2> QED
    BY <1>3, <2>1, PartIs
<1>7. PICK a \in Nat : a = m - i /\ a = g - i + 1
  BY <1>1, <1>2
<1>8. /\ v \in Seq(B) /\ Len(v) = Len(p) + Len(q)
      /\ \A j \in 1 .. Len(p) : v[j] = p[j]
      /\ \A j \in 1 .. Len(q) : v[Len(p) + j] = q[j]
  <2>1. p \in Seq(B) /\ q \in Seq(B)
    BY <1>0, <1>4, <1>5 DEF Frame
  <2> QED
    <3>1. v = p \o q
      BY <1>3
    <3> HIDE <1>3
    <3>2. Len(p) \in Nat /\ Len(q) \in Nat
      BY <2>1
    <3>3. v \in Seq(B) /\ Len(v) = Len(p) + Len(q)
      BY <2>1, <3>1
    <3>4. \A j \in 1 .. Len(p) : v[j] = p[j]
      BY <2>1, <3>1
    <3>5. \A j \in 1 .. Len(q) : v[Len(p) + j] = q[j]
      BY <2>1, <3>1
    <3> QED
      BY <3>3, <3>4, <3>5
<1>9. Len(v) = e - i + 1
  BY <1>1, <1>4, <1>5, <1>7, <1>8
<1>10. \A j \in 1 .. e - i + 1 : v[j] = r[j]
  <2> TAKE j \in 1 .. e - i + 1
  <2>1. CASE j \in 1 .. a
    BY <1>4, <1>6, <1>7, <1>8, <2>1
  <2>2. CASE j \notin 1 .. a
    <3>1. PICK h \in 1 .. e - m + 1 : h = j - a
      BY <1>1, <1>7, <2>2
    <3>2. a + h = j /\ m + h - 1 = i + j - 1
      BY <1>7, <3>1
    <3>3. v[a + h] = q[h] /\ q[h] = f[m + h - 1]
      BY <1>4, <1>5, <1>7, <1>8, <3>1
    <3> QED
      BY <1>6, <3>2, <3>3
  <2> QED
    BY <2>1, <2>2
<1>11. v = r
  <2>1. r \in Seq(B)
    BY <1>0, <1>6 DEF Frame
  <2> QED
    BY <1>6, <1>8, <1>9, <1>10, <2>1
<1>12. p # <<>>
  <2>1. Len(p) > 0
    BY <1>4, <1>7
  <2> QED
    BY <2>1
<1> QED
  BY <1>2, <1>3, <1>11, <1>12

-----------------------------------------------------------------------------
(* While the frame is searched a receiver has the NAL units behind which the
   search is; when one has begun at sc, the search is behind its start code. *)
Scanning(f, c, U, sc, b, ps) ==
    \E k \in 0 .. Len(U) :
        /\ Rebuilt(U, k, ps)
        /\ IF sc = NONE THEN Between(f, c, k, b)
           ELSE k < Len(U) /\ sc = BeginOf(f, c[k + 1]) /\ Between(f, c, k + 1, b)

(* While NAL unit k is packed a receiver has the units before it and, once there
   is some packet of it, what lies before p. *)
Packing(f, c, U, last, some, p, l, ps) ==
    \E k \in 1 .. Len(U) :
        /\ last = EndOf(f, c, k)
        /\ IF some
           THEN /\ p + l = last + 1 /\ c[k] + 3 < p /\ l >= 0
                /\ IF l = 0 THEN Rebuilt(U, k, ps)
                   ELSE ReceivedOf(ps) = [part |-> SubSeq(f, c[k] + 3, p - 1), got |-> SubSeq(U, 1, k - 1)]
           ELSE /\ Rebuilt(U, k - 1, ps)
                /\ (p = c[k] + 3 /\ p + l = last + 1) \/ (l <= 0 /\ Void(U, k))

(* What a receiver has of a frame that was sent: all of it, unless all packets are used. *)
SentWell(U, ps) ==
    \E k \in 0 .. Len(U) :
        ReceivedOf(ps).got = SubSeq(U, 1, k) /\ (Len(ps) < VRTP_MAX_NBPKTS => k = Len(U))

RefusedWell(U) == \E k \in 1 .. Len(U) : Void(U, k)

RebuildInv ==
    /\ phase = "learn" => buff = 1 /\ s = NONE
    /\ phase = "scan" => /\ Len(packets) < VRTP_MAX_NBPKTS
                         /\ Scanning(frame, CodeOf(frame), NalUnits, s, buff, packets)
    /\ phase = "encode" => /\ Len(packets) = first => Len(packets) < VRTP_MAX_NBPKTS
                           /\ Packing(frame, CodeOf(frame), NalUnits, nal[2], Len(packets) # first,
                                      pos, len, packets)
    /\ phase = "sent" => SentWell(NalUnits, packets)
    /\ phase = "refused" => RefusedWell(NalUnits)

LEMMA RebuiltWell == PacketInv /\ RebuildInv => ReceiverRebuildsFrame
<1> SUFFICES ASSUME PacketInv, RebuildInv PROVE ReceiverRebuildsFrame
  OBVIOUS
<1>1. PICK U : U = NalUnits
  OBVIOUS
<1>2. U \in Seq(Frame) /\ Len(U) \in Nat
  <2>1. frame \in Frame
    BY DEF PacketInv, Types
  <2> QED
    BY <1>1, <2>1, NalUnitsAre, UnitsListed DEF Listed
<1>3. ASSUME phase = "sent"
      PROVE  IsPrefix(Received, U) /\ (Len(packets) < VRTP_MAX_NBPKTS => Received = U)
  <2>1. PICK R : R = Received /\ R = ReceivedOf(packets).got
    BY ReceivedIs
  <2>2. PICK k \in 0 .. Len(U) : R = SubSeq(U, 1, k) /\ (Len(packets) < VRTP_MAX_NBPKTS => k = Len(U))
    BY <1>1, <1>3, <2>1 DEF RebuildInv, SentWell
  <2>3. R \in Seq(Frame) /\ Len(R) = k /\ (k = Len(U) => R = U)
    BY <1>2, <2>2, BeginningIs
  <2>4. SubSeq(R, 1, k) = R
    <3>1. k \in 0 .. Len(R) /\ k = Len(R)
      BY <2>3
    <3> QED
      BY <2>3, <3>1, BeginningIs
  <2>5. IsPrefix(R, U)
    BY <1>2, <2>2, <2>3, <2>4 DEF IsPrefix
  <2> QED
    BY <2>1, <2>2, <2>3, <2>5
<1>4. ASSUME phase = "refused"
      PROVE  \/ \E k \in DOMAIN U : U[k] = <<>>
             \/ \E n \in 1 .. 3 : Last(U) = [i \in 1 .. n |-> 0]
  <2>1. PICK k \in 1 .. Len(U) : Void(U, k)
    BY <1>1, <1>4 DEF RebuildInv, RefusedWell
  <2>2. DOMAIN U = 1 .. Len(U)
    BY <1>2
  <2>3. CASE U[k] = <<>>
    BY <2>1, <2>2, <2>3
  <2>4. CASE k = Len(U) /\ \E n \in 1 .. 3 : U[k] = [i \in 1 .. n |-> 0]
    BY <2>4 DEF Last
  <2> QED
    BY <2>1, <2>3, <2>4 DEF Void
<1> QED
  BY <1>1, <1>3, <1>4 DEF ReceiverRebuildsFrame

(* Where a step leads. *)
LEMMA NowScanning ==
    ASSUME phase' = "scan", Len(packets') < VRTP_MAX_NBPKTS,
           Scanning(frame', CodeOf(frame'), NalUnits', s', buff', packets')
    PROVE  RebuildInv'
  BY DEF RebuildInv

LEMMA NowPacking ==
    ASSUME phase' = "encode", Len(packets') = first' => Len(packets') < VRTP_MAX_NBPKTS,
           Packing(frame', CodeOf(frame'), NalUnits', nal'[2], Len(packets') # first', pos', len', packets')
    PROVE  RebuildInv'
  BY DEF RebuildInv

LEMMA NowSent == ASSUME phase' = "sent", SentWell(NalUnits', packets') PROVE RebuildInv'
  BY DEF RebuildInv

LEMMA NowRefused == ASSUME phase' = "refused", RefusedWell(NalUnits') PROVE RebuildInv'
  BY DEF RebuildInv

LEMMA NowLearning == ASSUME phase' = "learn", buff' = 1, s' = NONE PROVE RebuildInv'
  BY DEF RebuildInv

LEMMA AllSent ==
    ASSUME NEW U \in Seq(Frame), NEW ps, Rebuilt(U, Len(U), ps)
    PROVE  SentWell(U, ps)
<1>1. Len(U) \in 0 .. Len(U)
  OBVIOUS
<1>2. ReceivedOf(ps).got = SubSeq(U, 1, Len(U))
  BY DEF Rebuilt
<1> QED
  BY <1>1, <1>2 DEF SentWell

LEMMA NothingRebuilt == ASSUME NEW U \in Seq(Frame) PROVE Rebuilt(U, 0, <<>>)
<1>1. SubSeq(U, 1, 0) = <<>>
  OBVIOUS
<1> QED
  BY <1>1, ReceivedNothing DEF Rebuilt, Nothing

(* The search begins. *)
LEMMA BeginsScanning ==
    ASSUME NEW f \in Frame
    PROVE  Scanning(f, CodeOf(f), UnitsOf(f), NONE, 1, <<>>)
<1>1. PICK c, U : c = CodeOf(f) /\ U = UnitsOf(f)
  OBVIOUS
<1>2. Codes(f, c) /\ Listed(f, c, U)
  BY <1>1, CodesListed, UnitsListed
<1>3. U \in Seq(Frame) /\ 0 \in 0 .. Len(U)
  BY <1>2 DEF Listed
<1>4. 0 < Len(c) => 1 <= BeginOf(f, c[1])
  <2> SUFFICES ASSUME 0 < Len(c) PROVE 1 <= BeginOf(f, c[1])
    OBVIOUS
  <2>1. 1 \in 1 .. Len(c)
    BY <1>2 DEF Codes
  <2>2. BeginOf(f, c[1]) \in Nat \ {0}
    BY <1>2, <2>1, BeginIs
  <2> QED
    BY <2>2
<1>5. Between(f, c, 0, 1)
  <2>1. 0 + 1 = 1 /\ ~(0 > 0)
    OBVIOUS
  <2> QED
    BY <1>4, <2>1 DEF Between
<1>6. Rebuilt(U, 0, <<>>)
  BY <1>3, NothingRebuilt
<1> QED
  BY <1>1, <1>3, <1>5, <1>6 DEF Scanning

LEMMA InitRebuildInv == Init => RebuildInv
<1> SUFFICES ASSUME Init PROVE RebuildInv
  OBVIOUS
<1>1. phase = "sent" /\ frame = <<>> /\ packets = <<>>
  BY DEF Init, NoFrame
<1>2. NalUnits = <<>>
  BY <1>1, NalUnitsAre, NoUnits
<1>3. PICK U : U = <<>>
  OBVIOUS
<1>4. U \in Seq(Frame) /\ Len(U) = 0
  BY <1>3
<1>5. SentWell(U, <<>>)
  BY <1>4, NothingRebuilt, AllSent
<1> QED
  BY <1>1, <1>2, <1>3, <1>5 DEF RebuildInv

LEMMA NextFrameRebuilds ==
    ASSUME PacketInv', NextFrame
    PROVE  RebuildInv'
<1>1. /\ packets' = <<>> /\ buff' = 1 /\ s' = NONE
      /\ phase' = IF frame' = <<>> THEN "sent"
                  ELSE IF \E k \in Tested : codec_data[k] = <<>> THEN "learn" ELSE "scan"
  BY DEF NextFrame, BeginFrame
<1>2. PICK f \in Frame : f = frame'
  BY DEF PacketInv, Types
<1>3. NalUnits' = UnitsOf(f)
  BY <1>2, NalUnitsAre
<1>4. CASE phase' = "learn"
  BY <1>1, <1>4, NowLearning
<1>5. CASE phase' = "scan"
  <2>1. Scanning(frame', CodeOf(frame'), NalUnits', s', buff', packets')
    <3>1. Scanning(f, CodeOf(f), UnitsOf(f), NONE, 1, <<>>)
      BY BeginsScanning
    <3> QED
      BY <1>1, <1>2, <1>3, <3>1
  <2>2. Len(packets') < VRTP_MAX_NBPKTS
    <3>1. Len(<<>>) = 0
      OBVIOUS
    <3> QED
      BY <1>1, <3>1, NbpktsAssumption
  <2> QED
    BY <1>5, <2>1, <2>2, NowScanning
<1>6. CASE phase' = "sent" /\ frame' = <<>>
  <2>1. PICK U : U = <<>>
    OBVIOUS
  <2>2. U \in Seq(Frame) /\ Len(U) = 0
    BY <2>1
  <2>3. SentWell(U, <<>>)
    BY <2>2, NothingRebuilt, AllSent
  <2>4. NalUnits' = U
    BY <1>2, <1>3, <1>6, <2>1, NoUnits
  <2> QED
    BY <1>1, <1>6, <2>3, <2>4, NowSent
<1> QED
  BY <1>1, <1>4, <1>5, <1>6

LEMMA LearnDoneRebuilds ==
    ASSUME PacketInv, RebuildInv, LearnDone
    PROVE  RebuildInv'
<1>1. /\ phase = "learn" /\ phase' = "scan" /\ frame' = frame /\ packets' = packets /\ buff' = buff /\ s' = s
  BY DEF LearnDone, inputVars
<1>2. packets = <<>> /\ buff = 1 /\ s = NONE /\ frame \in Frame
  BY <1>1 DEF PacketInv, Types, Progress, RebuildInv
<1>3. NalUnits' = UnitsOf(frame)
  BY <1>1, NalUnitsAre
<1>4. Scanning(frame', CodeOf(frame'), NalUnits', s', buff', packets')
  <2>1. Scanning(frame, CodeOf(frame), UnitsOf(frame), NONE, 1, <<>>)
    BY <1>2, BeginsScanning
  <2> QED
    BY <1>1, <1>2, <1>3, <2>1
<1>5. Len(packets') < VRTP_MAX_NBPKTS
  <2>1. Len(<<>>) = 0
    OBVIOUS
  <2> QED
    BY <1>1, <1>2, <2>1, NbpktsAssumption
<1> QED
  BY <1>1, <1>4, <1>5, NowScanning

-----------------------------------------------------------------------------
(* The steps of the search. *)
LEMMA SkipByteRebuilds ==
    ASSUME PacketInv, RebuildInv, SkipByte
    PROVE  RebuildInv'
<1>1. /\ phase = "scan" /\ phase' = "scan" /\ CodeAt(buff) = 0 /\ Left >= 3
      /\ frame' = frame /\ packets' = packets /\ s' = s /\ buff' = buff + 1
  BY DEF SkipByte, inputVars
<1>2. PICK f, c, U : f = frame /\ c = CodeOf(frame) /\ U = NalUnits
  OBVIOUS
<1>3. /\ frame \in Frame /\ Codes(frame, c) /\ Listed(frame, c, U) /\ NalUnits' = U
      /\ buff \in 1 .. Len(frame)
  <2>1. frame \in Frame /\ buff \in Nat \ {0}
    BY DEF PacketInv, Types
  <2>2. buff \in 1 .. Len(frame)
    BY <1>1, <2>1, FrameIs DEF Left
  <2> QED
    BY <1>1, <1>2, <2>1, <2>2, NalUnitsAre, CodesListed, UnitsListed
<1>4. Len(U) \in Nat /\ Len(c) \in Nat /\ Len(U) <= Len(c)
  BY <1>3 DEF Listed, Codes
<1>5. Len(packets) < VRTP_MAX_NBPKTS /\ Scanning(frame, c, U, s, buff, packets)
  BY <1>1, <1>2 DEF RebuildInv
<1>6. PICK k \in 0 .. Len(U) :
        /\ Rebuilt(U, k, packets)
        /\ IF s = NONE THEN Between(frame, c, k, buff)
           ELSE k < Len(U) /\ s = BeginOf(frame, c[k + 1]) /\ Between(frame, c, k + 1, buff)
  BY <1>5 DEF Scanning
<1>7. CASE s = NONE
  <2>1. k \in 0 .. Len(c) /\ Between(frame, c, k, buff)
    BY <1>4, <1>6, <1>7
  <2>2. Between(frame, c, k, buff + 1)
    BY <1>1, <1>3, <2>1, SearchStops
  <2>3. Scanning(frame, c, U, s, buff + 1, packets)
    BY <1>6, <1>7, <2>2 DEF Scanning
  <2> QED
    BY <1>1, <1>2, <1>3, <1>5, <2>3, NowScanning
<1>8. CASE s # NONE
  <2>1. PICK l \in 0 .. Len(c) : l = k + 1
    BY <1>4, <1>6, <1>8
  <2>2. k < Len(U) /\ s = BeginOf(frame, c[k + 1]) /\ Between(frame, c, l, buff)
    BY <1>6, <1>8, <2>1
  <2>3. Between(frame, c, l, buff + 1)
    BY <1>1, <1>3, <2>1, <2>2, SearchStops
  <2>4. Scanning(frame, c, U, s, buff + 1, packets)
    BY <1>6, <1>8, <2>1, <2>2, <2>3 DEF Scanning
  <2> QED
    BY <1>1, <1>2, <1>3, <1>5, <2>4, NowScanning
<1> QED
  BY <1>7, <1>8

LEMMA FirstCodeRebuilds ==
    ASSUME PacketInv, RebuildInv, FirstCode
    PROVE  RebuildInv'
<1>1. /\ phase = "scan" /\ CodeAt(buff) > 0 /\ Left >= 3 /\ s = NONE
      /\ frame' = frame /\ packets' = packets
      /\ IF Left > CodeAt(buff) THEN s' = buff /\ buff' = buff + CodeAt(buff) /\ phase' = phase
         ELSE phase' = "sent"
  BY DEF FirstCode, inputVars
<1>2. PICK c, U : c = CodeOf(frame) /\ U = NalUnits
  OBVIOUS
<1>3. /\ frame \in Frame /\ Codes(frame, c) /\ Listed(frame, c, U) /\ NalUnits' = U
      /\ buff \in 1 .. Len(frame) /\ Len(frame) \in Nat
  <2>1. frame \in Frame /\ buff \in Nat \ {0}
    BY DEF PacketInv, Types
  <2>2. buff \in 1 .. Len(frame)
    BY <1>1, <2>1, FrameIs DEF Left
  <2> QED
    BY <1>1, <1>2, <2>1, <2>2, NalUnitsAre, CodesListed, UnitsListed, FrameIs
<1>4. U \in Seq(Frame) /\ Len(U) \in Nat /\ Len(c) \in Nat /\ Len(U) <= Len(c)
  BY <1>3 DEF Listed, Codes
<1>5. Len(packets) < VRTP_MAX_NBPKTS /\ Scanning(frame, c, U, s, buff, packets)
  BY <1>1, <1>2 DEF RebuildInv
<1>6. PICK k \in 0 .. Len(U) : Rebuilt(U, k, packets) /\ Between(frame, c, k, buff)
  BY <1>1, <1>5 DEF Scanning
<1>7. k < Len(c) /\ buff = BeginOf(frame, c[k + 1]) /\ buff + CodeAt(buff) = c[k + 1] + 3
  <2>1. k \in 0 .. Len(c)
    BY <1>4, <1>6
  <2> QED
    BY <1>1, <1>3, <1>6, <2>1, SearchStops
<1>8. PICK l \in 1 .. Len(c) : l = k + 1
  BY <1>4, <1>7
<1>9. PICK x \in 1 .. Len(frame) - 2 : x = c[l]
  BY <1>3 DEF Codes
<1>10. PICK a \in Nat : a = CodeAt(buff) /\ buff + a = x + 3
  <2>1. CodeAt(buff) \in Nat
    BY DEF CodeAt
  <2> QED
    BY <1>7, <1>8, <1>9, <2>1
<1>11. Left > a <=> x + 3 <= Len(frame)
  <2>1. Len(frame) - buff + 1 > a <=> buff + a <= Len(frame)
    BY <1>3, <1>10
  <2> QED
    BY <1>10, <2>1 DEF Left
<1>12. CASE Left > a
  <2>1. phase' = "scan" /\ s' = buff /\ buff' = x + 3
    BY <1>1, <1>10, <1>12
  <2>2. l <= Len(U)
    BY <1>3, <1>9, <1>11, <1>12 DEF Listed
  <2>3. k < Len(U)
    BY <1>4, <1>8, <2>2
  <2>4. Between(frame, c, k + 1, x + 3)
    <3>1. Between(frame, c, l, c[l] + 3)
      BY <1>3, <1>8, BehindUnit
    <3> QED
      BY <1>8, <1>9, <3>1
  <2>5. s' # NONE
    BY <1>3, <2>1 DEF NONE
  <2>6. Scanning(frame, c, U, s', buff', packets)
    BY <1>6, <1>7, <2>1, <2>3, <2>4, <2>5 DEF Scanning
  <2> QED
    BY <1>1, <1>2, <1>3, <1>5, <2>1, <2>6, NowScanning
<1>13. CASE ~(Left > a)
  <2>1. phase' = "sent"
    BY <1>1, <1>10, <1>13
  <2>2. k = Len(U)
    <3> SUFFICES ASSUME k # Len(U) PROVE FALSE
      OBVIOUS
    <3>1. l \in 1 .. Len(U)
      BY <1>4, <1>8
    <3>2. c[l] + 3 <= Len(frame)
      BY <1>3, <3>1 DEF Listed
    <3> QED
      BY <1>9, <1>11, <1>13, <3>2
  <2>3. SentWell(U, packets)
    BY <1>4, <1>6, <2>2, AllSent
  <2> QED
    BY <1>1, <1>3, <2>1, <2>3, NowSent
<1> QED
  BY <1>12, <1>13

LEMMA NoNaluRebuilds ==
    ASSUME PacketInv, RebuildInv, NoNalu
    PROVE  RebuildInv'
<1>1. phase = "scan" /\ phase' = "sent" /\ Left < 3 /\ s = NONE /\ frame' = frame /\ packets' = packets
  BY DEF NoNalu, inputVars
<1>2. PICK c, U : c = CodeOf(frame) /\ U = NalUnits
  OBVIOUS
<1>3. frame \in Frame /\ Codes(frame, c) /\ Listed(frame, c, U) /\ NalUnits' = U /\ buff \in Nat
  <2>1. frame \in Frame /\ buff \in Nat \ {0}
    BY DEF PacketInv, Types
  <2> QED
    BY <1>1, <1>2, <2>1, NalUnitsAre, CodesListed, UnitsListed
<1>4. U \in Seq(Frame) /\ Len(U) \in Nat /\ Len(c) \in Nat /\ Len(U) <= Len(c)
  BY <1>3 DEF Listed, Codes
<1>5. Scanning(frame, c, U, s, buff, packets)
  BY <1>1, <1>2 DEF RebuildInv
<1>6. PICK k \in 0 .. Len(U) : Rebuilt(U, k, packets) /\ Between(frame, c, k, buff)
  BY <1>1, <1>5 DEF Scanning
<1>7. k = Len(c)
  <2>1. k \in 0 .. Len(c)
    BY <1>4, <1>6
  <2>2. Len(frame) - buff + 1 < 3
    BY <1>1 DEF Left
  <2> QED
    BY <1>3, <1>6, <2>1, <2>2, SearchEnds
<1>8. k = Len(U)
  BY <1>4, <1>7
<1>9. SentWell(U, packets)
  BY <1>4, <1>6, <1>8, AllSent
<1> QED
  BY <1>1, <1>3, <1>9, NowSent

(* A packer begins on NAL unit k. *)
LEMMA EncodeRebuilds ==
    ASSUME PacketInv, RebuildInv, phase = "scan", s # NONE, NEW c, c = CodeOf(frame), NEW k \in 1 .. Len(NalUnits),
           NEW last, last = EndOf(frame, c, k), Encode(last), s = BeginOf(frame, c[k]),
           Rebuilt(NalUnits, k - 1, packets)
    PROVE  RebuildInv'
<1>1. /\ nal' = <<s, last>> /\ first' = Len(packets) /\ phase' = "encode" /\ frame' = frame /\ packets' = packets
  BY DEF Encode, inputVars
<1>2. PICK U : U = NalUnits
  OBVIOUS
<1>3. frame \in Frame /\ NalUnits' = U
  <2>1. frame \in Frame
    BY DEF PacketInv, Types
  <2> QED
    BY <1>1, <1>2, <2>1, NalUnitsAre
<1>4. \/ pos' = c[k] + 3 /\ pos' + len' = last + 1
      \/ len' <= 0 /\ Void(U, k)
  BY <1>2, <1>3, EncodeBegins
<1>5. Len(packets) < VRTP_MAX_NBPKTS
  BY DEF RebuildInv
<1>6. nal'[2] = last /\ (Len(packets') # first') = FALSE
  BY <1>1
<1>7. Packing(frame, c, U, last, FALSE, pos', len', packets)
  BY <1>2, <1>4 DEF Packing
<1> QED
  BY <1>1, <1>2, <1>3, <1>5, <1>6, <1>7, NowPacking

LEMMA NextCodeRebuilds ==
    ASSUME PacketInv, RebuildInv, NextCode
    PROVE  RebuildInv'
<1>1. phase = "scan" /\ Left >= 3 /\ s # NONE /\ CodeAt(buff) > 0 /\ Encode(buff - 1)
  BY DEF NextCode
<1>2. PICK c, U : c = CodeOf(frame) /\ U = NalUnits
  OBVIOUS
<1>3. frame \in Frame /\ Codes(frame, c) /\ Listed(frame, c, U) /\ buff \in 1 .. Len(frame)
  <2>1. frame \in Frame /\ buff \in Nat \ {0}
    BY DEF PacketInv, Types
  <2>2. buff \in 1 .. Len(frame)
    BY <1>1, <2>1, FrameIs DEF Left
  <2> QED
    BY <1>2, <2>1, <2>2, NalUnitsAre, CodesListed, UnitsListed
<1>4. Len(U) \in Nat /\ Len(c) \in Nat /\ Len(U) <= Len(c)
  BY <1>3 DEF Listed, Codes
<1>5. Scanning(frame, c, U, s, buff, packets)
  BY <1>1, <1>2 DEF RebuildInv
<1>6. PICK k \in 0 .. Len(U) : /\ Rebuilt(U, k, packets) /\ k < Len(U) /\ s = BeginOf(frame, c[k + 1])
                               /\ Between(frame, c, k + 1, buff)
  BY <1>1, <1>5 DEF Scanning
<1>7. PICK l \in 1 .. Len(U) : l = k + 1 /\ l - 1 = k
  BY <1>4, <1>6
<1>8. l < Len(c) /\ buff = BeginOf(frame, c[l + 1])
  <2>1. l \in 0 .. Len(c) /\ Between(frame, c, l, buff)
    BY <1>4, <1>6, <1>7
  <2> QED
    BY <1>1, <1>3, <2>1, SearchStops
<1>9. PICK last : last = buff - 1
  OBVIOUS
<1>10. last = EndOf(frame, c, l)
  <2>1. l # Len(c)
    BY <1>4, <1>8
  <2> QED
    BY <1>8, <1>9, <2>1 DEF EndOf
<1>11. s = BeginOf(frame, c[l]) /\ Rebuilt(U, l - 1, packets) /\ Encode(last)
  BY <1>1, <1>6, <1>7, <1>9
<1> QED
  BY <1>1, <1>2, <1>10, <1>11, EncodeRebuilds

LEMMA LastNaluRebuilds ==
    ASSUME PacketInv, RebuildInv, LastNalu
    PROVE  RebuildInv'
<1>1. phase = "scan" /\ Left < 3 /\ s # NONE /\ Encode(Len(frame))
  BY DEF LastNalu
<1>2. PICK c, U : c = CodeOf(frame) /\ U = NalUnits
  OBVIOUS
<1>3. frame \in Frame /\ Codes(frame, c) /\ Listed(frame, c, U) /\ buff \in Nat
  <2>1. frame \in Frame /\ buff \in Nat \ {0}
    BY DEF PacketInv, Types
  <2> QED
    BY <1>2, <2>1, NalUnitsAre, CodesListed, UnitsListed
<1>4. Len(U) \in Nat /\ Len(c) \in Nat /\ Len(U) <= Len(c)
  BY <1>3 DEF Listed, Codes
<1>5. Scanning(frame, c, U, s, buff, packets)
  BY <1>1, <1>2 DEF RebuildInv
<1>6. PICK k \in 0 .. Len(U) : /\ Rebuilt(U, k, packets) /\ k < Len(U) /\ s = BeginOf(frame, c[k + 1])
                               /\ Between(frame, c, k + 1, buff)
  BY <1>1, <1>5 DEF Scanning
<1>7. PICK l \in 1 .. Len(U) : l = k + 1 /\ l - 1 = k
  BY <1>4, <1>6
<1>8. l = Len(c)
  <2>1. l \in 0 .. Len(c) /\ Between(frame, c, l, buff)
    BY <1>4, <1>6, <1>7
  <2>2. Len(frame) - buff + 1 < 3
    BY <1>1 DEF Left
  <2> QED
    BY <1>3, <2>1, <2>2, SearchEnds
<1>9. PICK last : last = Len(frame)
  OBVIOUS
<1>10. last = EndOf(frame, c, l)
  BY <1>8, <1>9 DEF EndOf
<1>11. s = BeginOf(frame, c[l]) /\ Rebuilt(U, l - 1, packets) /\ Encode(last)
  BY <1>1, <1>6, <1>7, <1>9
<1> QED
  BY <1>1, <1>2, <1>10, <1>11, EncodeRebuilds

-----------------------------------------------------------------------------
(* The steps of the packers. *)
LEMMA SingleRebuilds ==
    ASSUME PacketInv, RebuildInv, Single
    PROVE  RebuildInv'
<1>1. /\ phase = "encode" /\ phase' = "encode" /\ len > 0 /\ Len(packets) = first /\ first' = first
      /\ frame' = frame /\ nal' = nal /\ pos' = pos + len /\ len' = 0
  BY DEF Single, FitsInOne, inputVars
<1>2. PICK p : p = [fu |-> FALSE, m |-> TRUE, body |-> Bytes(pos, len)]
  OBVIOUS
<1>3. packets' = Append(packets, p) /\ ~p.fu /\ p.body = Bytes(pos, len)
  BY <1>2 DEF Single
<1>4. PICK c, U, last : c = CodeOf(frame) /\ U = NalUnits /\ last = nal[2]
  OBVIOUS
<1>5. /\ frame \in Frame /\ Codes(frame, c) /\ Listed(frame, c, U) /\ NalUnits' = U
      /\ pos \in Nat \ {0} /\ len \in Int /\ last \in Nat
  <2>1. frame \in Frame /\ pos \in Nat \ {0} /\ len \in Int /\ last \in Nat
    BY <1>4 DEF PacketInv, Types
  <2> QED
    BY <1>1, <1>4, <2>1, NalUnitsAre, CodesListed, UnitsListed
<1>6. PICK P : packets \in Seq(P)
  BY DEF PacketInv, Types
<1>7. Packing(frame, c, U, last, FALSE, pos, len, packets)
  <2>1. (Len(packets) # first) = FALSE
    BY <1>1
  <2> QED
    BY <1>1, <1>4, <2>1 DEF RebuildInv
<1>8. PICK k \in 1 .. Len(U) : /\ last = EndOf(frame, c, k) /\ Rebuilt(U, k - 1, packets)
                               /\ (pos = c[k] + 3 /\ pos + len = last + 1) \/ (len <= 0 /\ Void(U, k))
  BY <1>7 DEF Packing
<1>9. pos = c[k] + 3 /\ pos + len = last + 1
  BY <1>1, <1>5, <1>8
<1>10. p.body = U[k]
  <2>1. pos + len - 1 = last
    BY <1>5, <1>9
  <2>2. U[k] = SubSeq(frame, c[k] + 3, last)
    BY <1>5, <1>8 DEF Listed
  <2> QED
    BY <1>3, <1>9, <2>1, <2>2 DEF Bytes
<1>11. Rebuilt(U, k, packets')
  <2>1. ReceivedOf(packets') = Receive(ReceivedOf(packets), p)
    BY <1>3, <1>6, ReceivedMore
  <2>2. ReceivedOf(packets) = [part |-> <<>>, got |-> SubSeq(U, 1, k - 1)]
    BY <1>8 DEF Rebuilt
  <2>3. Receive(ReceivedOf(packets), p) = [part |-> <<>>, got |-> Append(SubSeq(U, 1, k - 1), U[k])]
    BY <1>3, <1>10, <2>2 DEF Receive
  <2>4. Append(SubSeq(U, 1, k - 1), U[k]) = SubSeq(U, 1, k)
    <3>1. U \in Seq(Frame)
      BY <1>5 DEF Listed
    <3> QED
      BY <3>1, NextUnit
  <2> QED
    BY <2>1, <2>3, <2>4 DEF Rebuilt
<1>12. Len(packets') # first'
  <2>1. Len(packets') = Len(packets) + 1 /\ Len(packets) \in Nat
    BY <1>3, <1>6
  <2> QED
    BY <1>1, <2>1
<1>13. Packing(frame, c, U, last, TRUE, pos', len', packets')
  <2>1. pos' + len' = last + 1
    BY <1>1, <1>5, <1>9
  <2>2. c[k] + 3 < pos'
    BY <1>1, <1>5, <1>9
  <2> QED
    BY <1>1, <1>8, <1>11, <2>1, <2>2 DEF Packing
<1>14. (Len(packets') # first') = TRUE /\ nal'[2] = last
  BY <1>1, <1>4, <1>12
<1> QED
  BY <1>1, <1>4, <1>5, <1>12, <1>13, <1>14, NowPacking

(* What a fragment takes: hdr and body of the packet together are the bytes up to
   the new position. *)
LEMMA FragmentIs ==
    ASSUME PacketInv, Fragment
    PROVE  \E S, E \in BOOLEAN : \E p : \E b, n, k \in Nat :
              /\ S = (Len(packets) = first)
              /\ packets' = Append(packets, p) /\ p.fu /\ p.S = S /\ p.E = E
              /\ b = (IF S THEN pos + nalhdr ELSE pos) /\ n = len - (b - pos)
              /\ S => p.hdr = Bytes(pos, nalhdr)
              /\ p.body = Bytes(b, k) /\ pos' = b + k /\ len' = n - k
              /\ 0 < k /\ k <= n /\ (E <=> n - k = 0)
              /\ S => ~E
<1>1. /\ phase = "encode" /\ len > 0 /\ ~FitsInOne
  BY DEF Fragment
<1>2. /\ pos \in Nat \ {0} /\ len \in Nat \ {0} /\ first \in Nat
  BY <1>1 DEF PacketInv, Types
<1>5. nalhdr \in 1 .. 2 /\ FragmentRoom \in Nat \ {0} /\ FragmentRoom < PAYLOAD - nalhdr /\ PAYLOAD \in Nat
  BY PacketSizes, Constants DEF PacketInv, Types
<1> DEFINE S0 == Len(packets) = first
           b0 == IF S0 THEN pos + nalhdr ELSE pos
           n0 == len - (b0 - pos)
           E0 == ~S0 /\ LastFragment(n0)
           k0 == IF E0 THEN n0 ELSE FragmentRoom
           hdr0 == IF S0 THEN Bytes(pos, nalhdr) ELSE packets[first + 1].hdr
<1>a. /\ packets' = Append(packets, [fu |-> TRUE, m |-> E0, hdr |-> hdr0,
                                    S |-> S0, E |-> E0, body |-> Bytes(b0, k0)])
      /\ pos' = b0 + k0 /\ len' = n0 - k0
  BY Zenon DEF Fragment
<1>b. PICK S, E, hdr, b, n, k : S = S0 /\ E = E0 /\ hdr = hdr0 /\ b = b0 /\ n = n0 /\ k = k0
  OBVIOUS
<1>6. /\ S = (Len(packets) = first)
      /\ b = IF S THEN pos + nalhdr ELSE pos
      /\ n = len - (b - pos)
      /\ E = (~S /\ LastFragment(n))
      /\ k = IF E THEN n ELSE FragmentRoom
      /\ S => hdr = Bytes(pos, nalhdr)
      /\ packets' = Append(packets, [fu |-> TRUE, m |-> E, hdr |-> hdr,
                                    S |-> S, E |-> E, body |-> Bytes(b, k)])
      /\ pos' = b + k /\ len' = n - k
  BY <1>a, <1>b, Zenon
<1> HIDE DEF S0, b0, n0, E0, k0, hdr0
<1>7. b \in Nat \ {0} /\ n \in Nat \ {0} /\ (S => n > FragmentRoom)
  <2>1. CASE S
    <3>1. len > PAYLOAD
      <4>1. Len(packets) = first
        BY <1>6, <2>1
      <4>2. ~(len <= PAYLOAD)
        BY <1>1, <4>1 DEF FitsInOne
      <4> QED
        BY <1>2, <1>5, <4>2
    <3> QED
      BY <1>2, <1>5, <1>6, <2>1, <3>1
  <2>2. CASE ~S
    BY <1>2, <1>6, <2>2
  <2> QED
    BY <2>1, <2>2
<1>8. k \in Nat /\ 0 < k /\ k <= n /\ (E <=> n - k = 0)
  <2>1. CASE E
    <3>1. k = n
      BY <1>6, <2>1
    <3> QED
      BY <1>7, <2>1, <3>1
  <2>2. CASE ~E
    <3>1. n > FragmentRoom
      <4>1. CASE S
        BY <1>7, <4>1
      <4>2. CASE ~S
        <5>1. ~(n <= FragmentRoom)
          BY <1>6, <2>2, <4>2 DEF LastFragment
        <5> QED
          BY <1>5, <1>7, <5>1
      <4> QED
        BY <4>1, <4>2
    <3>2. k = FragmentRoom
      BY <1>6, <2>2
    <3> QED
      BY <1>5, <1>7, <2>2, <3>1, <3>2
  <2> QED
    BY <2>1, <2>2
<1>9. PICK p : p = [fu |-> TRUE, m |-> E, hdr |-> hdr, S |-> S, E |-> E, body |-> Bytes(b, k)]
  OBVIOUS
<1>10. p.fu /\ p.S = S /\ p.E = E /\ p.hdr = hdr /\ p.body = Bytes(b, k) /\ packets' = Append(packets, p)
  BY <1>6, <1>9
<1>11. S \in BOOLEAN /\ E \in BOOLEAN /\ (S => ~E)
  BY <1>6
<1> QED
  BY <1>6, <1>7, <1>8, <1>10, <1>11

-----------------------------------------------------------------------------
LEMMA FragmentRebuilds ==
    ASSUME PacketInv, RebuildInv, Fragment
    PROVE  RebuildInv'
<1>1. /\ phase = "encode" /\ phase' = "encode" /\ len > 0 /\ first' = first
      /\ frame' = frame /\ nal' = nal
  BY DEF Fragment, inputVars
<1>2. PICK c, U, last : c = CodeOf(frame) /\ U = NalUnits /\ last = nal[2]
  OBVIOUS
<1>3. /\ frame \in Frame /\ Codes(frame, c) /\ Listed(frame, c, U) /\ NalUnits' = U
      /\ pos \in Nat \ {0} /\ len \in Nat \ {0} /\ last \in Nat /\ Len(frame) \in Nat
      /\ pos + len <= Len(frame) + 1 /\ first <= Len(packets) /\ first \in Nat
  <2>1. frame \in Frame /\ pos \in Nat \ {0} /\ len \in Nat \ {0} /\ last \in Nat /\ first \in Nat
    BY <1>1, <1>2 DEF PacketInv, Types
  <2>2. pos + len <= Len(frame) + 1 /\ first <= Len(packets)
    BY <1>1 DEF PacketInv, Progress
  <2> QED
    BY <1>1, <1>2, <2>1, <2>2, NalUnitsAre, CodesListed, UnitsListed, FrameIs
<1>4. PICK P : packets \in Seq(P)
  BY DEF PacketInv, Types
<1>5. nalhdr \in 1 .. 2
  BY PacketSizes DEF PacketInv, Types
<1>6. PICK S \in BOOLEAN, E \in BOOLEAN : \E p : \E b, n, m \in Nat :
              /\ S = (Len(packets) = first)
              /\ packets' = Append(packets, p) /\ p.fu /\ p.S = S /\ p.E = E
              /\ b = (IF S THEN pos + nalhdr ELSE pos) /\ n = len - (b - pos)
              /\ S => p.hdr = Bytes(pos, nalhdr)
              /\ p.body = Bytes(b, m) /\ pos' = b + m /\ len' = n - m
              /\ 0 < m /\ m <= n /\ (E <=> n - m = 0)
              /\ S => ~E
  BY FragmentIs
<1>7. PICK p : \E b, n, m \in Nat :
              /\ S = (Len(packets) = first)
              /\ packets' = Append(packets, p) /\ p.fu /\ p.S = S /\ p.E = E
              /\ b = (IF S THEN pos + nalhdr ELSE pos) /\ n = len - (b - pos)
              /\ S => p.hdr = Bytes(pos, nalhdr)
              /\ p.body = Bytes(b, m) /\ pos' = b + m /\ len' = n - m
              /\ 0 < m /\ m <= n /\ (E <=> n - m = 0)
              /\ S => ~E
  BY <1>6
<1>8. PICK b \in Nat, n \in Nat, m \in Nat :
              /\ S = (Len(packets) = first)
              /\ packets' = Append(packets, p) /\ p.fu /\ p.S = S /\ p.E = E
              /\ b = (IF S THEN pos + nalhdr ELSE pos) /\ n = len - (b - pos)
              /\ S => p.hdr = Bytes(pos, nalhdr)
              /\ p.body = Bytes(b, m) /\ pos' = b + m /\ len' = n - m
              /\ 0 < m /\ m <= n /\ (E <=> n - m = 0)
              /\ S => ~E
  BY <1>7
<1>9. PICK e \in Nat : e = b + m - 1 /\ pos' - 1 = e
  BY <1>8
<1>10. /\ pos <= b /\ b <= e /\ e <= Len(frame) /\ pos' + len' = pos + len /\ len' \in Nat /\ (E <=> len' = 0)
       /\ pos' = e + 1
  <2>0. 0 < m /\ m <= n /\ pos' = b + m /\ len' = n - m /\ (E <=> n - m = 0) /\ n = len - (b - pos)
    BY <1>8
  <2>1. b + n = pos + len
    BY <1>3, <2>0
  <2>2. b + m - 1 <= Len(frame)
    BY <1>3, <2>0, <2>1
  <2>3. pos <= b
    <3>1. CASE S
      <4>1. b = pos + nalhdr
        BY <1>8, <3>1
      <4> QED
        BY <1>3, <1>5, <4>1
    <3>2. CASE ~S
      <4>1. b = pos
        BY <1>8, <3>2
      <4> QED
        BY <1>3, <4>1
    <3> QED
      BY <3>1, <3>2
  <2>4. b <= e /\ e <= Len(frame) /\ pos' = e + 1
    BY <1>3, <1>9, <2>0, <2>2
  <2>5. pos' + len' = pos + len /\ len' \in Nat /\ (E <=> len' = 0)
    <3>1. (b + m) + (n - m) = b + n /\ n - m \in Nat
      BY <2>0
    <3> QED
      BY <2>0, <2>1, <3>1
  <2> QED
    BY <2>3, <2>4, <2>5
<1>11. p.body = SubSeq(frame, b, e)
  BY <1>8, <1>9 DEF Bytes
<1>12. ReceivedOf(packets') = Receive(ReceivedOf(packets), p)
  BY <1>4, <1>8, ReceivedMore
<1>13. Len(packets') # first'
  <2>1. Len(packets') = Len(packets) + 1 /\ Len(packets) \in Nat
    BY <1>4, <1>8
  <2> QED
    BY <1>1, <1>3, <2>1
<1>14. \E k \in 1 .. Len(U) :
          /\ last = EndOf(frame, c, k) /\ pos + len = last + 1 /\ c[k] + 3 < pos'
          /\ ReceivedOf(packets') = IF E THEN [part |-> <<>>, got |-> Append(SubSeq(U, 1, k - 1), SubSeq(frame, c[k] + 3, e))]
                                    ELSE [part |-> SubSeq(frame, c[k] + 3, e), got |-> SubSeq(U, 1, k - 1)]
  <2>1. CASE S
    <3>1. (Len(packets) # first) = FALSE
      BY <1>8, <2>1
    <3>2. Packing(frame, c, U, last, FALSE, pos, len, packets)
      BY <1>1, <1>2, <3>1 DEF RebuildInv
    <3>3. PICK k \in 1 .. Len(U) : /\ last = EndOf(frame, c, k) /\ Rebuilt(U, k - 1, packets)
                                   /\ (pos = c[k] + 3 /\ pos + len = last + 1) \/ (len <= 0 /\ Void(U, k))
      BY <3>2 DEF Packing
    <3>4. pos = c[k] + 3 /\ pos + len = last + 1
      BY <1>1, <1>3, <3>3
    <3>5. pos < b /\ b = pos + nalhdr
      <4>1. b = pos + nalhdr
        BY <1>8, <2>1
      <4> QED
        BY <1>3, <1>5, <4>1
    <3>6. p.hdr = SubSeq(frame, pos, b - 1)
      <4>1. p.hdr = Bytes(pos, nalhdr)
        BY <1>8, <2>1
      <4>2. pos + nalhdr - 1 = b - 1
        BY <1>3, <1>5, <3>5
      <4> QED
        BY <4>1, <4>2 DEF Bytes
    <3>7. p.hdr \o p.body = SubSeq(frame, pos, e)
      <4>1. pos \in 1 .. Len(frame) /\ b \in 1 .. Len(frame) /\ e \in 1 .. Len(frame)
        BY <1>3, <1>10
      <4>2. SubSeq(frame, pos, b - 1) \o SubSeq(frame, b, e) = SubSeq(frame, pos, e)
        BY <1>3, <1>10, <3>5, <4>1, PiecesJoin
      <4> QED
        BY <1>11, <3>6, <4>2
    <3>8. ReceivedOf(packets) = [part |-> <<>>, got |-> SubSeq(U, 1, k - 1)]
      BY <3>3 DEF Rebuilt
    <3>9. ~E /\ ~p.E /\ p.S /\ p.fu
      BY <1>8, <2>1
    <3>10. ReceivedOf(packets') = [part |-> SubSeq(frame, c[k] + 3, e), got |-> SubSeq(U, 1, k - 1)]
      BY <1>12, <3>4, <3>7, <3>8, <3>9 DEF Receive
    <3>11. c[k] + 3 < pos'
      <4>1. pos < e + 1
        BY <1>3, <1>10, <3>5
      <4> QED
        BY <1>10, <3>4, <4>1
    <3> QED
      BY <3>3, <3>4, <3>9, <3>10, <3>11
  <2>2. CASE ~S
    <3>1. (Len(packets) # first) = TRUE
      BY <1>8, <2>2
    <3>2. Packing(frame, c, U, last, TRUE, pos, len, packets)
      BY <1>1, <1>2, <3>1 DEF RebuildInv
    <3>3. PICK k \in 1 .. Len(U) :
              /\ last = EndOf(frame, c, k) /\ pos + len = last + 1 /\ c[k] + 3 < pos
              /\ IF len = 0 THEN Rebuilt(U, k, packets)
                 ELSE ReceivedOf(packets) = [part |-> SubSeq(frame, c[k] + 3, pos - 1), got |-> SubSeq(U, 1, k - 1)]
      BY <3>2 DEF Packing
    <3>4. PICK x \in Nat \ {0} : x = c[k] + 3
      <4>1. k \in 1 .. Len(c)
        BY <1>3 DEF Listed, Codes
      <4>2. c[k] \in 1 .. Len(frame) - 2
        BY <1>3, <4>1 DEF Codes
      <4> QED
        BY <4>2
    <3>5. b = pos
      BY <1>8, <2>2
    <3>6. PICK q : q = SubSeq(frame, x, pos - 1)
      OBVIOUS
    <3>7. q \o p.body = SubSeq(frame, x, e) /\ q # <<>>
      <4>0. x < pos
        BY <3>3, <3>4
      <4>1. x \in 1 .. Len(frame) /\ b \in 1 .. Len(frame) /\ e \in 1 .. Len(frame) /\ x < b
        BY <1>3, <1>10, <3>5, <4>0
      <4>2. SubSeq(frame, x, b - 1) \o SubSeq(frame, b, e) = SubSeq(frame, x, e) /\ SubSeq(frame, x, b - 1) # <<>>
        BY <1>3, <1>10, <4>1, PiecesJoin
      <4> QED
        BY <1>11, <3>5, <3>6, <4>2
    <3>8. ReceivedOf(packets) = [part |-> q, got |-> SubSeq(U, 1, k - 1)]
      BY <1>3, <3>3, <3>4, <3>6
    <3>9. p.E = E /\ ~p.S /\ p.fu
      BY <1>8, <2>2
    <3>10. ReceivedOf(packets') = IF E THEN [part |-> <<>>, got |-> Append(SubSeq(U, 1, k - 1), SubSeq(frame, x, e))]
                                  ELSE [part |-> SubSeq(frame, x, e), got |-> SubSeq(U, 1, k - 1)]
      <4>1. PICK acc : acc = ReceivedOf(packets)
        OBVIOUS
      <4>2. acc.part = q /\ acc.got = SubSeq(U, 1, k - 1)
        BY <3>8, <4>1
      <4>3. Receive(acc, p) = IF E THEN [part |-> <<>>, got |-> Append(acc.got, acc.part \o p.body)]
                              ELSE [part |-> acc.part \o p.body, got |-> acc.got]
        BY <3>7, <3>9, <4>2, Zenon DEF Receive
      <4> QED
        BY <1>12, <3>7, <4>1, <4>2, <4>3, Zenon
    <3>11. c[k] + 3 < pos'
      <4>1. x < pos /\ pos < e + 1 /\ e \in Int
        BY <1>3, <1>10, <3>3, <3>4, <3>5
      <4> QED
        BY <1>3, <1>10, <3>4, <4>1
    <3> QED
      BY <3>3, <3>4, <3>10, <3>11
  <2> QED
    BY <2>1, <2>2
<1>15. PICK k \in 1 .. Len(U) :
          /\ last = EndOf(frame, c, k) /\ pos + len = last + 1 /\ c[k] + 3 < pos'
          /\ ReceivedOf(packets') = IF E THEN [part |-> <<>>, got |-> Append(SubSeq(U, 1, k - 1), SubSeq(frame, c[k] + 3, e))]
                                    ELSE [part |-> SubSeq(frame, c[k] + 3, e), got |-> SubSeq(U, 1, k - 1)]
  BY <1>14
<1>16. Packing(frame, c, U, last, TRUE, pos', len', packets')
  <2>1. pos' + len' = last + 1 /\ len' >= 0
    BY <1>10, <1>15
  <2>2. IF len' = 0 THEN Rebuilt(U, k, packets')
        ELSE ReceivedOf(packets') = [part |-> SubSeq(frame, c[k] + 3, pos' - 1), got |-> SubSeq(U, 1, k - 1)]
    <3>1. CASE E
      <4>1. len' = 0 /\ e = last
        BY <1>3, <1>10, <2>1, <3>1
      <4>2. U \in Seq(Frame) /\ U[k] = SubSeq(frame, c[k] + 3, last)
        BY <1>3, <1>15 DEF Listed
      <4>3. Append(SubSeq(U, 1, k - 1), U[k]) = SubSeq(U, 1, k)
        BY <4>2, NextUnit
      <4> QED
        BY <1>15, <3>1, <4>1, <4>2, <4>3 DEF Rebuilt
    <3>2. CASE ~E
      BY <1>9, <1>10, <1>15, <3>2
    <3> QED
      BY <3>1, <3>2
  <2> QED
    BY <1>15, <2>1, <2>2 DEF Packing
<1>17. (Len(packets') # first') = TRUE /\ nal'[2] = last
  BY <1>1, <1>2, <1>13
<1> QED
  BY <1>1, <1>2, <1>3, <1>13, <1>16, <1>17, NowPacking

LEMMA EncodeDoneRebuilds ==
    ASSUME PacketInv, RebuildInv, EncodeDone
    PROVE  RebuildInv'
<1>1. /\ phase = "encode" /\ (len <= 0 \/ ~Room) /\ frame' = frame /\ packets' = packets
      /\ buff' = nal[2] + 1 /\ s' = NONE
      /\ phase' = IF Len(packets) = first THEN "refused"
                  ELSE IF nal[2] < Len(frame) /\ Room THEN "scan" ELSE "sent"
  BY DEF EncodeDone, inputVars
<1>2. PICK c, U, last : c = CodeOf(frame) /\ U = NalUnits /\ last = nal[2]
  OBVIOUS
<1>3. /\ frame \in Frame /\ Codes(frame, c) /\ Listed(frame, c, U) /\ NalUnits' = U
      /\ pos \in Nat \ {0} /\ len \in Int /\ last \in Nat
  <2>1. frame \in Frame /\ pos \in Nat \ {0} /\ len \in Int /\ last \in Nat
    BY <1>2 DEF PacketInv, Types
  <2> QED
    BY <1>1, <1>2, <2>1, NalUnitsAre, CodesListed, UnitsListed
<1>4. U \in Seq(Frame) /\ Len(U) \in Nat /\ Len(c) \in Nat /\ Len(U) <= Len(c) /\ Len(frame) \in Nat
  BY <1>3, FrameIs DEF Listed, Codes
<1>5. CASE Len(packets) = first
  <2>1. Packing(frame, c, U, last, FALSE, pos, len, packets) /\ Len(packets) < VRTP_MAX_NBPKTS
    <3>1. (Len(packets) # first) = FALSE
      BY <1>5
    <3> QED
      BY <1>1, <1>2, <1>5, <3>1 DEF RebuildInv
  <2>2. len <= 0
    BY <1>1, <2>1 DEF Room
  <2>3. PICK k \in 1 .. Len(U) : /\ last = EndOf(frame, c, k)
                                 /\ (pos = c[k] + 3 /\ pos + len = last + 1) \/ (len <= 0 /\ Void(U, k))
    BY <2>1 DEF Packing
  <2>4. Void(U, k)
    <3>1. CASE pos = c[k] + 3 /\ pos + len = last + 1
      <4>1. U[k] = SubSeq(frame, pos, last)
        BY <1>3, <2>3, <3>1 DEF Listed
      <4>2. pos > last /\ pos - 1 <= last /\ last <= Len(frame)
        <5>1. k \in 1 .. Len(c)
          BY <1>4
        <5>2. PICK x \in 1 .. Len(frame) - 2 : x = c[k]
          BY <1>3, <5>1 DEF Codes
        <5>3. x + 2 <= last /\ last <= Len(frame)
          BY <1>3, <2>3, <5>1, <5>2, EndIs
        <5>4. pos - 1 = x + 2
          BY <3>1, <5>2
        <5> QED
          <6>1. pos + len = last + 1 /\ len <= 0 /\ pos \in Nat /\ len \in Int /\ last \in Nat
            BY <1>3, <2>2, <3>1
          <6>2. pos > last
            BY <6>1
          <6> QED
            BY <5>3, <5>4, <6>2
      <4>3. U[k] = <<>>
        BY <1>3, <4>1, <4>2, PieceIs
      <4> QED
        BY <4>3 DEF Void
    <3> QED
      BY <2>3, <3>1
  <2>5. phase' = "refused" /\ RefusedWell(U)
    BY <1>1, <1>5, <2>4 DEF RefusedWell
  <2> QED
    BY <1>3, <2>5, NowRefused
<1>6. CASE Len(packets) # first
  <2>1. Packing(frame, c, U, last, TRUE, pos, len, packets)
    <3>1. (Len(packets) # first) = TRUE
      BY <1>6
    <3> QED
      BY <1>1, <1>2, <3>1 DEF RebuildInv
  <2>2. PICK k \in 1 .. Len(U) :
            /\ last = EndOf(frame, c, k) /\ len >= 0
            /\ IF len = 0 THEN Rebuilt(U, k, packets)
               ELSE ReceivedOf(packets) = [part |-> SubSeq(frame, c[k] + 3, pos - 1), got |-> SubSeq(U, 1, k - 1)]
    BY <2>1 DEF Packing
  <2>3. k \in 1 .. Len(c)
    BY <1>4
  <2>4. Between(frame, c, k, last + 1) /\ (last >= Len(frame) => k = Len(c))
    BY <1>3, <2>2, <2>3, BehindUnit
  <2>5. CASE Room /\ last < Len(frame)
    <3>1. Rebuilt(U, k, packets)
      BY <1>1, <1>3, <2>2, <2>5
    <3>2. Scanning(frame, c, U, NONE, last + 1, packets)
      BY <1>4, <2>4, <3>1 DEF Scanning
    <3>3. phase' = "scan" /\ buff' = last + 1 /\ Len(packets') < VRTP_MAX_NBPKTS
      BY <1>1, <1>2, <1>6, <2>5 DEF Room
    <3> QED
      BY <1>1, <1>2, <1>3, <3>2, <3>3, NowScanning
  <2>6. CASE Room /\ ~(last < Len(frame))
    <3>1. Rebuilt(U, k, packets)
      BY <1>1, <1>3, <2>2, <2>6
    <3>2. k = Len(U)
      BY <1>3, <1>4, <2>4, <2>6
    <3>3. phase' = "sent" /\ SentWell(U, packets)
      BY <1>1, <1>2, <1>4, <1>6, <2>6, <3>1, <3>2, AllSent
    <3> QED
      BY <1>1, <1>3, <3>3, NowSent
  <2>7. CASE ~Room
    <3>1. PICK m \in 0 .. Len(U) : ReceivedOf(packets).got = SubSeq(U, 1, m)
      <4>1. CASE len = 0
        BY <1>4, <2>2, <4>1 DEF Rebuilt
      <4>2. CASE len # 0
        <5>1. k - 1 \in 0 .. Len(U)
          BY <1>4
        <5> QED
          BY <2>2, <4>2, <5>1
      <4> QED
        BY <4>1, <4>2
    <3>2. SentWell(U, packets)
      BY <2>7, <3>1 DEF SentWell, Room
    <3>3. phase' = "sent"
      BY <1>1, <1>6, <2>7
    <3> QED
      BY <1>1, <1>3, <3>2, <3>3, NowSent
  <2> QED
    BY <2>5, <2>6, <2>7
<1> QED
  BY <1>5, <1>6

LEMMA NextRebuildInv == PacketInv /\ PacketInv' /\ RebuildInv /\ [Next]_vars => RebuildInv'
<1> SUFFICES ASSUME PacketInv, PacketInv', RebuildInv, [Next]_vars PROVE RebuildInv'
  OBVIOUS
<1>1. CASE NextFrame
  BY <1>1, NextFrameRebuilds
<1>2. CASE LearnDone
  BY <1>2, LearnDoneRebuilds
<1>3. CASE Send
  BY <1>3, SkipByteRebuilds, FirstCodeRebuilds, NextCodeRebuilds, LastNaluRebuilds, NoNaluRebuilds,
     SingleRebuilds, FragmentRebuilds, EncodeDoneRebuilds DEF Send, Packetize
<1>4. CASE LearnNalu \/ Describe \/ UNCHANGED vars
  <2>1. /\ phase' = phase /\ frame' = frame /\ buff' = buff /\ s' = s /\ nal' = nal /\ first' = first
        /\ pos' = pos /\ len' = len /\ packets' = packets
    BY <1>4 DEF LearnNalu, Describe, vars, packetVars, inputVars, nalVars
  <2>2. NalUnits' = NalUnits
    BY <2>1, NalUnitsAre
  <2> QED
    BY <2>1, <2>2 DEF RebuildInv
<1> QED
  BY <1>1, <1>2, <1>3, <1>4 DEF Next

(* Whatever the frame, the codec and the size and number of packets, a receiver
   rebuilds the NAL units of a frame that is sent, and one is refused only for a NAL
   unit without content (utils.c:62-100, rtp_enc.c:39-189). *)
THEOREM AlwaysRebuilt == Spec => []ReceiverRebuildsFrame
  BY InitPacketInv, NextPacketInv, InitRebuildInv, NextRebuildInv, RebuiltWell, PTL DEF Spec

=============================================================================
