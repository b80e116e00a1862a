------------------------- MODULE H264PipelineProofs -------------------------
(***************************************************************************)
(* Proofs about H264Pipeline, for every queue limit and every number of    *)
(* packets: its invariants, and that it implements PacketDelivery and uses *)
(* the camera reader as CameraContract allows.                             *)
(***************************************************************************)
EXTENDS H264Pipeline, SequenceTheorems, FiniteSetTheorems, TLAPS

-----------------------------------------------------------------------------
(* Sequences: what taking and adding one element does. *)
LEMMA TailFacts ==
    ASSUME NEW S, NEW s \in Seq(S), s # <<>>
    PROVE  /\ Tail(s) \in Seq(S)
           /\ Len(Tail(s)) = Len(s) - 1
           /\ \A i \in 1 .. Len(s) - 1 : Tail(s)[i] = s[i + 1]
           /\ Head(s) = s[1]
           /\ Len(s) \in Nat \ {0}
           /\ Head(s) \in S
           /\ Len(s) = 1 <=> Tail(s) = <<>>
<1>1. /\ Tail(s) \in Seq(S)
      /\ Len(Tail(s)) = Len(s) - 1
      /\ \A i \in 1 .. Len(s) - 1 : Tail(s)[i] = s[i + 1]
      /\ Head(s) = s[1]
      /\ Len(s) \in Nat \ {0}
      /\ Head(s) \in S
  OBVIOUS
<1>2. Tail(s) = <<>> => Len(Tail(s)) = 0
  BY EmptySeq
<1>3. Len(Tail(s)) = 0 => Tail(s) = <<>>
  BY <1>1, EmptySeq
<1> QED
  BY <1>1, <1>2, <1>3

(* Appending to a sequence of packets keeps its type, its old elements, and
   adds the new one at the end. *)
LEMMA AppendFacts ==
    ASSUME NEW S, NEW s \in Seq(S), NEW e \in S
    PROVE  /\ Append(s, e) \in Seq(S)
           /\ Len(Append(s, e)) = Len(s) + 1
           /\ \A i \in 1 .. Len(s) : Append(s, e)[i] = s[i]
           /\ Append(s, e)[Len(s) + 1] = e
           /\ Append(s, e) # <<>>
  OBVIOUS

(* A sequence whose elements all lie in a set is a sequence over that set. *)
LEMMA SeqOfElements ==
    ASSUME NEW S, NEW s \in Seq(S), NEW T, \A i \in DOMAIN s : s[i] \in T
    PROVE  s \in Seq(T)
  OBVIOUS

(* The one or two packets EncOut hands over are new: numbered just after
   those that exist. *)
LEMMA FreshFacts ==
    ASSUME packets \in Seq(Kind), NEW k \in {1, 2}
    PROVE  /\ Fresh(k) \in Seq(Nat)
           /\ Len(Fresh(k)) = k
           /\ Fresh(k) # <<>>
           /\ \A i \in 1 .. k : Fresh(k)[i] = Len(packets) + i
  BY DEF Fresh

-----------------------------------------------------------------------------
AnyLocation ==
    {"init", "start", "poll", "joinIpc", "uninitEnc", "uninitRtsp", "exit", "off",
     "startRtsp", "startEnc", "loop", "join1", "stop2", "join2", "done", "first", "body",
     "emit", "size", "drop", "put", "dequeue", "send", "drainSize", "drain"}

ControlOK ==
    /\ pc \in [Thread -> AnyLocation]
    /\ pc["main"] \in {"init", "start", "poll", "joinIpc", "uninitEnc", "uninitRtsp", "exit"}
    /\ pc["ipc"] \in {"off", "startRtsp", "startEnc", "loop", "join1", "stop2", "join2", "done"}
    /\ pc["enc"] \in {"off", "first", "loop", "body", "emit", "size", "drop", "put", "done"}
    /\ pc["rtsp"] \in {"off", "loop", "size", "dequeue", "send", "drainSize", "drain", "done"}
    /\ stopFlag \in [Thread -> BOOLEAN]
    /\ staFlag \in 0 .. 2
    /\ spsPps \in BOOLEAN
    /\ initFlag \in BOOLEAN
    /\ reader \in {"none", "open", "freed"}
    /\ crash \in {NoCrash, "nullDeref", "wildDeref", "doubleFree"}

(* Every packet number in use is that of a packet allocated so far. Packet
   grows, so the elements are typed one by one. *)
DataOK ==
    /\ packets \in Seq(Kind)
    /\ pending \in Seq(Nat) /\ \A i \in 1 .. Len(pending) : pending[i] \in Packet
    /\ h264Queue \in Seq(Nat) /\ \A i \in 1 .. Len(h264Queue) : h264Queue[i] \in Packet
    /\ sent \in Seq(Nat) /\ \A i \in 1 .. Len(sent) : sent[i] \in Packet
    /\ h264Data \in Packet \cup {NULL, GARBAGE}
    /\ freed \in SUBSET Packet

(* The encoder has a packet while it emits, the sender while it sends. *)
HandsFull ==
    /\ pc["enc"] \in {"emit", "size", "drop", "put"} <=> pending # <<>>
    /\ pc["rtsp"] = "send" <=> h264Data \in Packet

TypeInv == ControlOK /\ DataOK /\ HandsFull

(* The type invariant and the control facts hold when main starts. *)
LEMMA InitTypeInv == Init => TypeInv
<1> SUFFICES ASSUME Init PROVE TypeInv
  OBVIOUS
<1> USE DEF Thread, NULL, GARBAGE, NoCrash
<1>1. ControlOK
  <2>1. pc \in [Thread -> AnyLocation] /\ stopFlag \in [Thread -> BOOLEAN]
    BY DEF Init, AnyLocation
  <2>2. pc["main"] = "init" /\ pc["ipc"] = "off" /\ pc["enc"] = "off" /\ pc["rtsp"] = "off"
    BY DEF Init
  <2>3. spsPps \in BOOLEAN /\ initFlag \in BOOLEAN
    BY Zenon DEF Init
  <2>4. /\ staFlag \in 0 .. 2
        /\ reader \in {"none", "open", "freed"}
        /\ crash \in {NoCrash, "nullDeref", "wildDeref", "doubleFree"}
    BY DEF Init
  <2> QED
    BY <2>1, <2>2, <2>3, <2>4 DEF ControlOK
<1>2. DataOK /\ HandsFull
  BY DEF Init, DataOK, HandsFull, Packet
<1> QED
  BY <1>1, <1>2 DEF TypeInv

(* Every step of every thread keeps the types and each thread at a location
   of its own. *)
LEMMA StepTypeInv == TypeInv /\ [Next]_vars => TypeInv'
<1> SUFFICES ASSUME ControlOK, DataOK, HandsFull, [Next]_vars
             PROVE  ControlOK' /\ DataOK' /\ HandsFull'
  BY DEF TypeInv
<1> USE DEF Thread, NoCrash, Goto, encVars, packetVars
<1>1. CASE MainInit
  <2>1. ControlOK'
    <3>1. PICK r \in {"none", "open", "freed"} :
             \/ reader' = r /\ initFlag' = TRUE /\ pc' = [pc EXCEPT !["main"] = "start"]
                /\ crash' = crash
             \/ UninitReader(r) /\ initFlag' = initFlag /\ pc' = [pc EXCEPT !["main"] = "exit"]
      BY <1>1 DEF MainInit
    <3>2. reader' \in {"none", "open", "freed"}
          /\ crash' \in {NoCrash, "nullDeref", "wildDeref", "doubleFree"}
      BY <3>1 DEF UninitReader, ControlOK
    <3>3. pc' \in [Thread -> AnyLocation] /\ pc'["main"] \in {"start", "exit"}
          /\ pc'["ipc"] = pc["ipc"] /\ pc'["enc"] = pc["enc"] /\ pc'["rtsp"] = pc["rtsp"]
      BY <3>1 DEF ControlOK, AnyLocation
    <3>4. initFlag' \in BOOLEAN
      BY <3>1 DEF ControlOK
    <3> QED
      BY <1>1, <3>2, <3>3, <3>4 DEF MainInit, ControlOK
  <2>2. DataOK'
    BY <1>1 DEF MainInit, UninitReader, DataOK, Packet
  <2>3. HandsFull'
    BY <1>1 DEF MainInit, UninitReader, ControlOK, HandsFull, Packet, NULL
  <2> QED
    BY <2>1, <2>2, <2>3
<1>2. CASE MainStart
  <2>1. ControlOK'
    <3>1. CASE pc["ipc"] = "off"
      <4>1. pc' = [pc EXCEPT !["ipc"] = "startRtsp", !["main"] = "poll"]
        BY <1>2, <3>1 DEF MainStart, Start
      <4>2. pc' \in [Thread -> AnyLocation] /\ pc'["main"] = "poll" /\ pc'["ipc"] = "startRtsp"
            /\ pc'["enc"] = pc["enc"] /\ pc'["rtsp"] = pc["rtsp"]
        BY <4>1 DEF ControlOK, AnyLocation
      <4>3. stopFlag' \in [Thread -> BOOLEAN]
        BY <1>2, <3>1, ZenonT(60) DEF MainStart, Start, ControlOK
      <4> QED
        BY <1>2, <4>2, <4>3 DEF MainStart, ControlOK
    <3>2. CASE pc["ipc"] # "off"
      BY <1>2, <3>2 DEF MainStart, Start, ControlOK, AnyLocation
    <3> QED
      BY <3>1, <3>2
  <2>2. DataOK'
    BY <1>2 DEF MainStart, Start, DataOK, Packet
  <2>3. HandsFull'
    BY <1>2 DEF MainStart, Start, ControlOK, HandsFull, Packet, NULL
  <2> QED
    BY <2>1, <2>2, <2>3
<1>3. CASE SignProc
  <2>1. ControlOK'
    BY <1>3 DEF SignProc, ControlOK, AnyLocation
  <2>2. DataOK'
    BY <1>3 DEF SignProc, DataOK, Packet
  <2>3. HandsFull'
    BY <1>3 DEF SignProc, ControlOK, HandsFull, Packet, NULL
  <2> QED
    BY <2>1, <2>2, <2>3
<1>4. CASE MainStop
  <2>1. ControlOK'
    <3>1. CASE RaiseStop("main", "ipc", "joinIpc")
      BY <1>4, <3>1 DEF MainStop, RaiseStop, ControlOK, AnyLocation
    <3>2. CASE Join("main", "ipc", "uninitEnc")
      BY <1>4, <3>2 DEF MainStop, Join, ControlOK, AnyLocation
    <3> QED
      BY <1>4, <3>1, <3>2 DEF MainStop
  <2>2. DataOK'
    BY <1>4 DEF MainStop, RaiseStop, Join, DataOK, Packet
  <2>3. HandsFull'
    BY <1>4 DEF MainStop, RaiseStop, Join, ControlOK, HandsFull, Packet, NULL
  <2> QED
    BY <2>1, <2>2, <2>3
<1>5. CASE MainUninit
  <2>1. ControlOK'
    BY <1>5, ZenonT(60) DEF MainUninit, UninitReader, ControlOK, AnyLocation
  <2>2. DataOK'
    BY <1>5 DEF MainUninit, UninitReader, DataOK, Packet
  <2>3. HandsFull'
    BY <1>5 DEF MainUninit, UninitReader, ControlOK, HandsFull, Packet, NULL
  <2> QED
    BY <2>1, <2>2, <2>3
<1>6. CASE IpcRun
  <2>1. ControlOK'
    <3>1. CASE Start("ipc", "rtsp", "loop", "startEnc")
      <4>1. CASE pc["rtsp"] = "off"
        <5>1. pc' = [pc EXCEPT !["rtsp"] = "loop", !["ipc"] = "startEnc"]
          BY <3>1, <4>1 DEF Start
        <5>2. pc' \in [Thread -> AnyLocation] /\ pc'["rtsp"] = "loop" /\ pc'["ipc"] = "startEnc"
              /\ pc'["main"] = pc["main"] /\ pc'["enc"] = pc["enc"]
          BY <5>1 DEF ControlOK, AnyLocation, Thread
        <5>3. stopFlag' \in [Thread -> BOOLEAN]
          BY <3>1, <4>1, ZenonT(60) DEF Start, ControlOK
        <5> QED
          BY <1>6, <3>1, <4>1, <5>2, <5>3 DEF IpcRun, Start, ControlOK
      <4>2. CASE pc["rtsp"] # "off"
        BY <1>6, <3>1, <4>2 DEF IpcRun, Start, ControlOK, AnyLocation
      <4> QED
        BY <4>1, <4>2
    <3>2. CASE Start("ipc", "enc", "first", "loop")
      <4>1. CASE pc["enc"] = "off"
        <5>1. pc' = [pc EXCEPT !["enc"] = "first", !["ipc"] = "loop"]
          BY <3>2, <4>1 DEF Start
        <5>2. pc' \in [Thread -> AnyLocation] /\ pc'["enc"] = "first" /\ pc'["ipc"] = "loop"
              /\ pc'["main"] = pc["main"] /\ pc'["rtsp"] = pc["rtsp"]
          BY <5>1 DEF ControlOK, AnyLocation, Thread
        <5>3. stopFlag' \in [Thread -> BOOLEAN]
          BY <3>2, <4>1, ZenonT(60) DEF Start, ControlOK
        <5> QED
          BY <1>6, <3>2, <4>1, <5>2, <5>3 DEF IpcRun, Start, ControlOK
      <4>2. CASE pc["enc"] # "off"
        BY <1>6, <3>2, <4>2 DEF IpcRun, Start, ControlOK, AnyLocation
      <4> QED
        BY <4>1, <4>2
    <3>3. CASE RaiseStop("ipc", "enc", "join1")
      BY <1>6, <3>3 DEF IpcRun, RaiseStop, ControlOK, AnyLocation
    <3>4. CASE Join("ipc", "enc", "stop2")
      BY <1>6, <3>4 DEF IpcRun, Join, ControlOK, AnyLocation
    <3>5. CASE RaiseStop("ipc", "rtsp", "join2")
      BY <1>6, <3>5 DEF IpcRun, RaiseStop, ControlOK, AnyLocation
    <3>6. CASE Join("ipc", "rtsp", "done")
      BY <1>6, <3>6 DEF IpcRun, Join, ControlOK, AnyLocation
    <3> QED
      BY <1>6, <3>1, <3>2, <3>3, <3>4, <3>5, <3>6 DEF IpcRun, StopOrder
  <2>2. DataOK'
    BY <1>6 DEF IpcRun, Start, StopOrder, RaiseStop, Join, DataOK, Packet
  <2>3. HandsFull'
    BY <1>6 DEF IpcRun, Start, StopOrder, RaiseStop, Join, ControlOK, HandsFull, Packet, NULL
  <2> QED
    BY <2>1, <2>2, <2>3
<1>7. CASE EncFirst
  <2>1. ControlOK'
    BY <1>7 DEF EncFirst, Fresh, ControlOK, AnyLocation
  <2>2. DataOK'
    <3>1. CASE UNCHANGED <<packets, pending>>
      BY <1>7, <3>1 DEF EncFirst, DataOK, Packet
    <3>2. CASE packets' = Append(packets, "hdr") /\ pending' = Fresh(1)
      <4>1. packets' \in Seq(Kind) /\ Len(packets') = Len(packets) + 1
        BY <3>2, AppendFacts DEF DataOK, Kind
      <4>2. pending' \in Seq(Nat) /\ Len(pending') = 1 /\ pending'[1] = Len(packets')
        BY <3>2, <4>1, FreshFacts DEF DataOK
      <4>3. Packet \subseteq Packet' /\ \A i \in 1 .. Len(pending') : pending'[i] \in Packet'
        BY <4>1, <4>2 DEF Packet, DataOK
      <4>4. UNCHANGED <<h264Queue, sent, h264Data, freed>>
        BY <1>7 DEF EncFirst
      <4> QED
        BY <4>1, <4>2, <4>3, <4>4 DEF DataOK
    <3> QED
      BY <1>7, <3>1, <3>2 DEF EncFirst
  <2>3. HandsFull'
    <3>1. pc'["rtsp"] = pc["rtsp"] /\ h264Data' = h264Data
      BY <1>7 DEF EncFirst, ControlOK
    <3>2. Packet \subseteq Packet'
      BY <1>7, AppendFacts DEF EncFirst, DataOK, Packet, Kind
    <3>3. pc'["enc"] \in {"emit", "size", "drop", "put"} <=> pending' # <<>>
      <4>1. CASE UNCHANGED pending
        BY <1>7, <4>1 DEF EncFirst, ControlOK, HandsFull, Fresh
      <4>2. CASE pending' = Fresh(1) /\ pc'["enc"] = "emit"
        BY <4>2, FreshFacts DEF DataOK
      <4> QED
        BY <1>7, <4>1, <4>2 DEF EncFirst, ControlOK
    <3>4. h264Data \in Packet' <=> h264Data \in Packet
      BY <3>2 DEF DataOK, Packet, NULL, GARBAGE
    <3> QED
      BY <3>1, <3>3, <3>4 DEF HandsFull
  <2> QED
    BY <2>1, <2>2, <2>3
<1>8. CASE EncLoop
  <2>1. ControlOK'
    BY <1>8 DEF EncLoop, UninitReader, ControlOK, AnyLocation
  <2>2. DataOK'
    BY <1>8 DEF EncLoop, UninitReader, DataOK, Packet
  <2>3. HandsFull'
    BY <1>8 DEF EncLoop, UninitReader, ControlOK, HandsFull, Packet, NULL
  <2> QED
    BY <2>1, <2>2, <2>3
<1>9. CASE EncNextStage
  <2>1. ControlOK'
    BY <1>9 DEF EncNextStage, ControlOK, AnyLocation
  <2>2. DataOK'
    BY <1>9 DEF EncNextStage, DataOK, Packet
  <2>3. HandsFull'
    BY <1>9 DEF EncNextStage, ControlOK, HandsFull, Packet, NULL
  <2> QED
    BY <2>1, <2>2, <2>3
<1>10. CASE EncRetry
  <2>1. ControlOK'
    BY <1>10 DEF EncRetry, ControlOK, AnyLocation
  <2>2. DataOK'
    BY <1>10 DEF EncRetry, DataOK, Packet
  <2>3. HandsFull'
    BY <1>10 DEF EncRetry, ControlOK, HandsFull, Packet, NULL
  <2> QED
    BY <2>1, <2>2, <2>3
<1>11. CASE EncOut
  <2>1. ControlOK'
    BY <1>11 DEF EncOut, Fresh, ControlOK, AnyLocation
  <2>2. DataOK'
    <3> PICK kinds \in {<<"p">>, <<"idr">>} \cup {<<"hdr", "idr">>} :
             packets' = packets \o kinds /\ pending' = Fresh(Len(kinds))
      BY <1>11 DEF EncOut
    <3>1. kinds \in Seq(Kind) /\ Len(kinds) \in {1, 2}
      BY DEF Kind
    <3>2. packets' \in Seq(Kind) /\ Len(packets') = Len(packets) + Len(kinds)
      BY <3>1 DEF DataOK
    <3>3. pending' \in Seq(Nat) /\ Len(pending') = Len(kinds)
          /\ \A i \in 1 .. Len(kinds) : pending'[i] = Len(packets) + i
      BY <3>1, FreshFacts DEF DataOK
    <3>4. Packet \subseteq Packet' /\ \A i \in 1 .. Len(pending') : pending'[i] \in Packet'
      <4>1. Len(packets) \in Nat /\ Len(kinds) \in Nat /\ Len(packets') \in Nat
        BY <3>1, <3>2 DEF DataOK
      <4>2. Packet \subseteq Packet'
        BY <3>2, <4>1 DEF Packet
      <4>3. ASSUME NEW i \in 1 .. Len(pending') PROVE pending'[i] \in Packet'
        <5>1. i \in 1 .. Len(kinds) /\ pending'[i] = Len(packets) + i
          BY <3>3
        <5> QED
          BY <3>2, <4>1, <5>1 DEF Packet
      <4> QED
        BY <4>2, <4>3
    <3>5. UNCHANGED <<h264Queue, sent, h264Data, freed>>
      BY <1>11 DEF EncOut
    <3> QED
      BY <3>2, <3>3, <3>4, <3>5 DEF DataOK
  <2>3. HandsFull'
    <3> PICK kinds \in {<<"p">>, <<"idr">>} \cup {<<"hdr", "idr">>} :
             packets' = packets \o kinds /\ pending' = Fresh(Len(kinds))
      BY <1>11 DEF EncOut
    <3>1. kinds \in Seq(Kind) /\ Len(kinds) \in {1, 2}
      BY DEF Kind
    <3>2. Packet \subseteq Packet'
      BY <3>1 DEF DataOK, Packet
    <3>3. pending' # <<>>
      BY <3>1, FreshFacts DEF DataOK
    <3>4. pc'["rtsp"] = pc["rtsp"] /\ pc'["enc"] = "emit" /\ h264Data' = h264Data
      BY <1>11 DEF EncOut, ControlOK
    <3> QED
      BY <3>2, <3>3, <3>4 DEF HandsFull, DataOK, Packet, NULL, GARBAGE
  <2> QED
    BY <2>1, <2>2, <2>3
<1>12. CASE EnqueueRefused
  <2>1. ControlOK'
    BY <1>12 DEF EnqueueRefused, Release, Emitted, ControlOK, AnyLocation
  <2>2. DataOK'
    <3>1. pending # <<>>
      BY <1>12 DEF EnqueueRefused, HandsFull
    <3>2. Tail(pending) \in Seq(Nat) /\ Head(pending) \in Packet
          /\ \A i \in 1 .. Len(Tail(pending)) : Tail(pending)[i] \in Packet
      BY <3>1, TailFacts DEF DataOK
    <3> QED
      BY <1>12, <3>2 DEF EnqueueRefused, Emitted, Release, DataOK, Packet
  <2>3. HandsFull'
    <3>1. pending # <<>>
      BY <1>12 DEF EnqueueRefused, HandsFull
    <3>2. Len(pending) = 1 <=> Tail(pending) = <<>>
      BY <3>1, TailFacts DEF DataOK
    <3>3. (pc'["enc"] = "loop" /\ pending' = <<>>) \/ (pc'["enc"] = "emit" /\ pending' # <<>>)
      <4>1. pending' = Tail(pending) /\ pc'["enc"] = IF Len(pending) = 1 THEN "loop" ELSE "emit"
        BY <1>12 DEF EnqueueRefused, Emitted, ControlOK
      <4>2. CASE Len(pending) = 1
        BY <3>2, <4>1, <4>2
      <4>3. CASE Len(pending) # 1
        BY <3>2, <4>1, <4>3
      <4> QED
        BY <4>2, <4>3
    <3>4. pc'["rtsp"] = pc["rtsp"] /\ UNCHANGED <<packets, h264Data>>
      BY <1>12 DEF EnqueueRefused, Emitted, ControlOK
    <3> QED
      BY <3>3, <3>4 DEF HandsFull, Packet
  <2> QED
    BY <2>1, <2>2, <2>3
<1>13. CASE EnqueueAccepted
  <2>1. ControlOK'
    BY <1>13 DEF EnqueueAccepted, ControlOK, AnyLocation
  <2>2. DataOK'
    BY <1>13 DEF EnqueueAccepted, DataOK, Packet
  <2>3. HandsFull'
    BY <1>13 DEF EnqueueAccepted, ControlOK, HandsFull, Packet, NULL
  <2> QED
    BY <2>1, <2>2, <2>3
<1>14. CASE EnqueueSize
  <2>1. ControlOK'
    BY <1>14 DEF EnqueueSize, ControlOK, AnyLocation
  <2>2. DataOK'
    BY <1>14 DEF EnqueueSize, DataOK, Packet
  <2>3. HandsFull'
    BY <1>14 DEF EnqueueSize, ControlOK, HandsFull, Packet, NULL
  <2> QED
    BY <2>1, <2>2, <2>3
<1>15. CASE EnqueueDrop
  <2>1. ControlOK'
    BY <1>15 DEF EnqueueDrop, Release, ControlOK, AnyLocation
  <2>2. DataOK'
    <3>1. CASE h264Queue = <<>>
      BY <1>15, <3>1 DEF EnqueueDrop, DataOK, Packet
    <3>2. CASE h264Queue # <<>>
      <4>1. Tail(h264Queue) \in Seq(Nat) /\ Head(h264Queue) \in Packet
            /\ \A i \in 1 .. Len(Tail(h264Queue)) : Tail(h264Queue)[i] \in Packet
        BY <3>2, TailFacts DEF DataOK
      <4> QED
        BY <1>15, <3>2, <4>1 DEF EnqueueDrop, Release, DataOK, Packet
    <3> QED
      BY <3>1, <3>2
  <2>3. HandsFull'
    BY <1>15 DEF EnqueueDrop, Release, ControlOK, HandsFull, Packet, NULL
  <2> QED
    BY <2>1, <2>2, <2>3
<1>16. CASE EnqueuePut
  <2>1. ControlOK'
    BY <1>16 DEF EnqueuePut, Emitted, ControlOK, AnyLocation
  <2>2. DataOK'
    <3>1. pending # <<>>
      BY <1>16 DEF EnqueuePut, HandsFull
    <3>2. Tail(pending) \in Seq(Nat) /\ Head(pending) \in Packet
          /\ \A i \in 1 .. Len(Tail(pending)) : Tail(pending)[i] \in Packet
      BY <3>1, TailFacts DEF DataOK
    <3>3. Append(h264Queue, Head(pending)) \in Seq(Nat)
          /\ \A i \in 1 .. Len(Append(h264Queue, Head(pending))) :
                Append(h264Queue, Head(pending))[i] \in Packet
      BY <3>2, AppendFacts, SMTT(30) DEF DataOK, Packet
    <3> QED
      BY <1>16, <3>2, <3>3 DEF EnqueuePut, Emitted, DataOK, Packet
  <2>3. HandsFull'
    <3>1. pending # <<>>
      BY <1>16 DEF EnqueuePut, HandsFull
    <3>2. Len(pending) = 1 <=> Tail(pending) = <<>>
      BY <3>1, TailFacts DEF DataOK
    <3>3. (pc'["enc"] = "loop" /\ pending' = <<>>) \/ (pc'["enc"] = "emit" /\ pending' # <<>>)
      <4>1. pending' = Tail(pending) /\ pc'["enc"] = IF Len(pending) = 1 THEN "loop" ELSE "emit"
        BY <1>16 DEF EnqueuePut, Emitted, ControlOK
      <4>2. CASE Len(pending) = 1
        BY <3>2, <4>1, <4>2
      <4>3. CASE Len(pending) # 1
        BY <3>2, <4>1, <4>3
      <4> QED
        BY <4>2, <4>3
    <3>4. pc'["rtsp"] = pc["rtsp"] /\ UNCHANGED <<packets, h264Data>>
      BY <1>16 DEF EnqueuePut, Emitted, ControlOK
    <3> QED
      BY <3>3, <3>4 DEF HandsFull, Packet
  <2> QED
    BY <2>1, <2>2, <2>3
<1>17. CASE RtspLoop
  <2>1. ControlOK'
    BY <1>17 DEF RtspLoop, ControlOK, AnyLocation
  <2>2. DataOK'
    BY <1>17 DEF RtspLoop, DataOK, Packet
  <2>3. HandsFull'
    BY <1>17 DEF RtspLoop, ControlOK, HandsFull, Packet, NULL
  <2> QED
    BY <2>1, <2>2, <2>3
<1>18. CASE RtspSize
  <2>1. ControlOK'
    BY <1>18 DEF RtspSize, ControlOK, AnyLocation
  <2>2. DataOK'
    BY <1>18 DEF RtspSize, DataOK, Packet
  <2>3. HandsFull'
    BY <1>18 DEF RtspSize, ControlOK, HandsFull, Packet, NULL
  <2> QED
    BY <2>1, <2>2, <2>3
<1>19. CASE RtspDequeue
  <2>1. ControlOK'
    BY <1>19 DEF RtspDequeue, ControlOK, AnyLocation
  <2>2. DataOK'
    <3>1. CASE h264Queue = <<>>
      BY <1>19, <3>1 DEF RtspDequeue, DataOK, Packet
    <3>2. CASE h264Queue # <<>>
      <4>1. Tail(h264Queue) \in Seq(Nat) /\ Head(h264Queue) \in Packet
            /\ \A i \in 1 .. Len(Tail(h264Queue)) : Tail(h264Queue)[i] \in Packet
        BY <3>2, TailFacts DEF DataOK
      <4> QED
        BY <1>19, <3>2, <4>1 DEF RtspDequeue, DataOK, Packet
    <3> QED
      BY <3>1, <3>2
  <2>3. HandsFull'
    <3>1. CASE h264Queue = <<>>
      BY <1>19, <3>1 DEF RtspDequeue, HandsFull, Packet
    <3>2. CASE h264Queue # <<>>
      <4>1. Head(h264Queue) \in Packet
        BY <3>2, TailFacts DEF DataOK
      <4> QED
        BY <1>19, <3>2, <4>1 DEF RtspDequeue, ControlOK, HandsFull, Packet
    <3> QED
      BY <3>1, <3>2
  <2> QED
    BY <2>1, <2>2, <2>3
<1>20. CASE RtspSend
  <2>1. ControlOK'
    BY <1>20 DEF RtspSend, Release, ControlOK, AnyLocation
  <2>2. DataOK'
    <3>1. h264Data \in Packet /\ h264Data \in Nat
      BY <1>20 DEF RtspSend, HandsFull, Packet, DataOK
    <3>2. Append(sent, h264Data) \in Seq(Nat)
          /\ \A i \in 1 .. Len(Append(sent, h264Data)) : Append(sent, h264Data)[i] \in Packet
      BY <3>1, AppendFacts DEF DataOK
    <3> QED
      BY <1>20, <3>1, <3>2 DEF RtspSend, Release, DataOK, Packet
  <2>3. HandsFull'
    BY <1>20 DEF RtspSend, Release, ControlOK, HandsFull, Packet, NULL
  <2> QED
    BY <2>1, <2>2, <2>3
<1>21. CASE RtspDrain
  <2>1. ControlOK'
    BY <1>21 DEF RtspDrain, Release, ControlOK, AnyLocation
  <2>2. DataOK'
    <3>1. CASE h264Queue = <<>>
      BY <1>21, <3>1 DEF RtspDrain, DataOK, Packet
    <3>2. CASE h264Queue # <<>>
      <4>1. Tail(h264Queue) \in Seq(Nat) /\ Head(h264Queue) \in Packet
            /\ \A i \in 1 .. Len(Tail(h264Queue)) : Tail(h264Queue)[i] \in Packet
        BY <3>2, TailFacts DEF DataOK
      <4> QED
        BY <1>21, <3>2, <4>1 DEF RtspDrain, Release, DataOK, Packet
    <3> QED
      BY <3>1, <3>2
  <2>3. HandsFull'
    BY <1>21 DEF RtspDrain, Release, ControlOK, HandsFull, Packet, NULL
  <2> QED
    BY <2>1, <2>2, <2>3
<1>22. CASE UNCHANGED vars
  <2>1. ControlOK'
    BY <1>22 DEF vars, ControlOK, AnyLocation
  <2>2. DataOK'
    BY <1>22 DEF vars, DataOK, Packet
  <2>3. HandsFull'
    BY <1>22 DEF vars, ControlOK, HandsFull, Packet, NULL
  <2> QED
    BY <2>1, <2>2, <2>3
<1> QED
  BY <1>1, <1>2, <1>3, <1>4, <1>5, <1>6, <1>7, <1>8, <1>9, <1>10, <1>11, <1>12, <1>13, <1>14, <1>15, <1>16, <1>17, <1>18, <1>19, <1>20, <1>21, <1>22 DEF Next, Main, Enc, Rtsp

(* Every variable keeps its type; in particular no step ever refers to a
   packet that was not allocated. *)
THEOREM TypeCorrect == Spec => []TypeOK
<1>1. TypeInv => TypeOK
  <2> SUFFICES ASSUME TypeInv PROVE TypeOK
    OBVIOUS
  <2>1. pending \in Seq(Packet) /\ h264Queue \in Seq(Packet) /\ sent \in Seq(Packet)
    BY SeqOfElements DEF TypeInv, DataOK
  <2>2. \A t \in Thread : pc[t] \in Location[t]
    BY DEF TypeInv, ControlOK, Location, Thread
  <2>3. pc \in [Thread -> UNION {Location[t] : t \in Thread}]
    BY <2>2 DEF TypeInv, ControlOK
  <2> QED
    BY <2>1, <2>2, <2>3 DEF TypeOK, TypeInv, ControlOK, DataOK
<1> QED
  BY InitTypeInv, StepTypeInv, <1>1, PTL DEF Spec

-----------------------------------------------------------------------------
(* The queue limit. The encoder is the only thread that adds to the queue,
   so once it has seen room there is room until it adds. *)
RoomWhenPut ==
    /\ Len(h264Queue) <= RTSP_H264_QUEUE_MAX
    /\ pc["enc"] = "put" => Len(h264Queue) < RTSP_H264_QUEUE_MAX

(* Between size() and enqueue() the sender can only take packets out, so the
   room the encoder saw is still there when it puts. *)
LEMMA StepRoom == TypeInv /\ RoomWhenPut /\ [Next]_vars => RoomWhenPut'
<1> SUFFICES ASSUME ControlOK, DataOK, HandsFull, RoomWhenPut, [Next]_vars
             PROVE  RoomWhenPut'
  BY DEF TypeInv
<1> USE DEF Goto, encVars, packetVars
<1>1. CASE UNCHANGED h264Queue /\ (pc'["enc"] = "put" => pc["enc"] = "put")
  BY <1>1 DEF RoomWhenPut
<1>2. CASE EnqueueSize
  BY <1>2, QueueMaxAssumption DEF EnqueueSize, QueueFull, RoomWhenPut, ControlOK, DataOK, Thread
<1>3. CASE EnqueueDrop
  <2>1. CASE h264Queue = <<>>
    BY <1>3, <2>1, QueueMaxAssumption DEF EnqueueDrop, RoomWhenPut
  <2>2. CASE h264Queue # <<>>
    <3>1. Len(Tail(h264Queue)) = Len(h264Queue) - 1 /\ Len(h264Queue) \in Nat
      BY <2>2, TailFacts DEF DataOK
    <3>2. pc'["enc"] = "size" /\ h264Queue' = Tail(h264Queue)
      BY <1>3, <2>2 DEF EnqueueDrop, ControlOK, Thread
    <3> QED
      BY <3>1, <3>2, QueueMaxAssumption DEF RoomWhenPut
  <2> QED
    BY <2>1, <2>2
<1>4. CASE EnqueuePut
  <2>1. Head(pending) \in Nat
    BY <1>4, TailFacts DEF EnqueuePut, HandsFull, DataOK
  <2>2. Len(h264Queue') = Len(h264Queue) + 1
    BY <1>4, <2>1, AppendFacts DEF EnqueuePut, DataOK
  <2>3. pc'["enc"] # "put"
    BY <1>4 DEF EnqueuePut, Emitted, ControlOK, Thread
  <2> QED
    BY <1>4, <2>2, <2>3, QueueMaxAssumption DEF EnqueuePut, RoomWhenPut, DataOK
<1>5. CASE RtspDequeue \/ RtspDrain
  <2>1. UNCHANGED h264Queue \/ (h264Queue # <<>> /\ h264Queue' = Tail(h264Queue))
    BY <1>5 DEF RtspDequeue, RtspDrain
  <2>2. Len(h264Queue') <= Len(h264Queue) /\ Len(h264Queue') \in Nat /\ Len(h264Queue) \in Nat
    BY <2>1, TailFacts DEF DataOK
  <2>3. pc'["enc"] = pc["enc"]
    BY <1>5 DEF RtspDequeue, RtspDrain, ControlOK, Thread
  <2> QED
    BY <2>2, <2>3, QueueMaxAssumption DEF RoomWhenPut
<1>6. CASE Main \/ SignProc \/ IpcRun
  BY <1>6, <1>1 DEF Main, MainInit, MainStart, MainStop, MainUninit, SignProc, IpcRun,
                    Start, RaiseStop, Join, StopOrder, ControlOK, Thread
<1>7. CASE EncFirst \/ EncLoop \/ EncNextStage \/ EncRetry \/ EncOut \/ EnqueueRefused \/ EnqueueAccepted
  BY <1>7, <1>1 DEF EncFirst, EncLoop, EncNextStage, EncRetry, EncOut, EnqueueRefused,
                    EnqueueAccepted, Emitted, ControlOK, Thread
<1>8. CASE RtspLoop \/ RtspSize \/ RtspSend
  BY <1>8, <1>1 DEF RtspLoop, RtspSize, RtspSend, ControlOK, Thread
<1>9. CASE UNCHANGED vars
  BY <1>9, <1>1 DEF vars
<1> QED
  BY <1>2, <1>3, <1>4, <1>5, <1>6, <1>7, <1>8, <1>9 DEF Next, Enc, Rtsp

(* The queue keeps its limit, whatever the limit is, although its size is
   tested and it is extended in two critical sections. *)
THEOREM QueueKeepsLimit == Spec => []QueueBounded
<1>1. Init => RoomWhenPut
  BY QueueMaxAssumption DEF Init, RoomWhenPut, Thread
<1>2. RoomWhenPut => QueueBounded
  BY DEF RoomWhenPut, QueueBounded
<1> QED
  BY <1>1, <1>2, InitTypeInv, StepTypeInv, StepRoom, PTL DEF Spec

-----------------------------------------------------------------------------
(* The unset pointer. As long as the sender has dequeued nothing, only the
   encoder shortens the queue, one packet after each look at its size. *)
SetBeforeUse ==
    /\ h264Data = GARBAGE /\ pc["enc"] = "drop" => Len(h264Queue) >= RTSP_H264_QUEUE_MAX
    /\ h264Data = GARBAGE /\ pc["rtsp"] \in {"dequeue", "drain"} => h264Queue # <<>>
    /\ crash # "wildDeref"

(* A dequeue is only attempted on a queue that was seen non-empty, or with
   h264Data set by an earlier one: no step breaks this. *)
LEMMA StepSet ==
    ASSUME RTSP_H264_QUEUE_MAX >= 2
    PROVE  TypeInv /\ SetBeforeUse /\ [Next]_vars => SetBeforeUse'
<1> SUFFICES ASSUME ControlOK, DataOK, HandsFull, SetBeforeUse, [Next]_vars
             PROVE  SetBeforeUse'
  BY DEF TypeInv
<1> USE DEF Goto, encVars, packetVars, NoCrash
<1>1. CASE /\ UNCHANGED <<h264Queue, h264Data>>
           /\ crash' # "wildDeref"
           /\ pc'["enc"] = "drop" => pc["enc"] = "drop"
           /\ pc'["rtsp"] \in {"dequeue", "drain"} => pc["rtsp"] \in {"dequeue", "drain"}
  BY <1>1 DEF SetBeforeUse
<1>2. CASE EnqueueSize
  BY <1>2 DEF EnqueueSize, QueueFull, SetBeforeUse, ControlOK, Thread
<1>3. CASE EnqueueDrop
  <2>1. pc'["enc"] # "drop" /\ pc'["rtsp"] = pc["rtsp"] /\ UNCHANGED <<h264Data, crash>>
    BY <1>3 DEF EnqueueDrop, ControlOK, Thread
  <2>2. h264Data = GARBAGE => Len(h264Queue) >= 2
    BY <1>3, QueueMaxAssumption DEF EnqueueDrop, SetBeforeUse, DataOK
  <2>3. h264Data = GARBAGE => h264Queue # <<>> /\ h264Queue' = Tail(h264Queue)
    BY <1>3, <2>2 DEF EnqueueDrop
  <2>4. h264Data = GARBAGE => Len(Tail(h264Queue)) >= 1
    BY <2>2, <2>3, TailFacts DEF DataOK
  <2>5. h264Data = GARBAGE => h264Queue' # <<>>
    BY <2>3, <2>4
  <2> QED
    BY <2>1, <2>5 DEF SetBeforeUse
<1>4. CASE EnqueuePut
  <2>1. Head(pending) \in Nat
    BY <1>4, TailFacts DEF EnqueuePut, HandsFull, DataOK
  <2>2. h264Queue' # <<>>
    BY <1>4, <2>1, AppendFacts DEF EnqueuePut, DataOK
  <2>3. pc'["enc"] # "drop" /\ UNCHANGED <<h264Data, crash>>
    BY <1>4 DEF EnqueuePut, Emitted, ControlOK, Thread
  <2> QED
    BY <2>2, <2>3 DEF SetBeforeUse
<1>5. CASE RtspSize
  <2>1. pc'["rtsp"] \in {"dequeue", "drain"} => h264Queue # <<>>
    BY <1>5 DEF RtspSize, PacketWaiting, ControlOK, Thread
  <2> QED
    BY <1>5, <2>1 DEF RtspSize, SetBeforeUse, ControlOK, Thread
<1>6. CASE RtspDequeue \/ RtspDrain
  <2>1. CASE h264Data = GARBAGE
    <3>1. h264Queue # <<>>
      BY <1>6, <2>1 DEF RtspDequeue, RtspDrain, SetBeforeUse
    <3>2. h264Data' # GARBAGE /\ UNCHANGED crash
      BY <1>6, <3>1, TailFacts DEF RtspDequeue, RtspDrain, DataOK, GARBAGE, NULL
    <3> QED
      BY <3>2 DEF SetBeforeUse
  <2>2. CASE h264Data # GARBAGE
    <3>1. h264Data = NULL
      BY <1>6, <2>2 DEF RtspDequeue, RtspDrain, HandsFull, DataOK
    <3>2. h264Data' # GARBAGE /\ crash' # "wildDeref"
      BY <1>6, <2>2, <3>1, TailFacts DEF RtspDequeue, RtspDrain, DataOK, SetBeforeUse, GARBAGE, NULL
    <3> QED
      BY <3>2 DEF SetBeforeUse
  <2> QED
    BY <2>1, <2>2
<1>7. CASE RtspSend
  BY <1>7 DEF RtspSend, SetBeforeUse, NULL, GARBAGE
<1>8. CASE Main \/ SignProc \/ IpcRun
  <2>1. crash' # "wildDeref"
    BY <1>8 DEF Main, MainInit, MainStart, MainStop, MainUninit, SignProc, IpcRun,
                UninitReader, SetBeforeUse
  <2> QED
    BY <1>8, <1>1, <2>1 DEF Main, MainInit, MainStart, MainStop, MainUninit, SignProc, IpcRun,
                    Start, RaiseStop, Join, StopOrder, ControlOK, Thread
<1>9. CASE EncFirst \/ EncLoop \/ EncNextStage \/ EncRetry \/ EncOut \/ EnqueueRefused \/ EnqueueAccepted
  <2>1. crash' # "wildDeref"
    BY <1>9 DEF EncFirst, EncLoop, EncNextStage, EncRetry, EncOut, EnqueueRefused,
                EnqueueAccepted, UninitReader, SetBeforeUse
  <2> QED
    BY <1>9, <1>1, <2>1 DEF EncFirst, EncLoop, EncNextStage, EncRetry, EncOut, EnqueueRefused,
                    EnqueueAccepted, Emitted, ControlOK, Thread
<1>10. CASE RtspLoop
  BY <1>10, <1>1 DEF RtspLoop, SetBeforeUse, ControlOK, Thread
<1>11. CASE UNCHANGED vars
  BY <1>11, <1>1 DEF vars, SetBeforeUse
<1> QED
  BY <1>2, <1>3, <1>4, <1>5, <1>6, <1>7, <1>8, <1>9, <1>10, <1>11 DEF Next, Enc, Rtsp

(* With a limit of at least two (the code has three), the pointer declared
   without a value in RtspServer::run is never read before it is set: a
   failed dequeue can only follow a successful one, which leaves nullptr. *)
THEOREM UnsetPointerNeverRead ==
    ASSUME RTSP_H264_QUEUE_MAX >= 2
    PROVE  Spec => []NoWildDereference
<1>1. Init => SetBeforeUse
  BY DEF Init, SetBeforeUse, Thread, NoCrash
<1>2. SetBeforeUse => NoWildDereference
  BY DEF SetBeforeUse, NoWildDereference
<1>3. TypeInv /\ SetBeforeUse /\ [Next]_vars => SetBeforeUse'
  BY StepSet
<1> QED
  BY <1>1, <1>2, <1>3, InitTypeInv, StepTypeInv, PTL DEF Spec

-----------------------------------------------------------------------------
(* Ownership and order. Sent packets, the one in the sender's hand, those in
   the queue and those pending in the encoder follow each other in the order
   of emission, and whatever is in none of these places has been freed. *)
Elems(s) == {s[i] : i \in 1 .. Len(s)}
Before(s, t) == \A i \in 1 .. Len(s), j \in 1 .. Len(t) : s[i] < t[j]
Below(n, s) == \A i \in 1 .. Len(s) : n < s[i]
Above(n, s) == \A i \in 1 .. Len(s) : s[i] < n

InOrder ==
    /\ Ordered(sent) /\ Ordered(h264Queue) /\ Ordered(pending)
    /\ Before(sent, h264Queue) /\ Before(sent, pending) /\ Before(h264Queue, pending)
    /\ Below(h264Data, h264Queue) /\ Below(h264Data, pending)
    /\ h264Data \in Packet => Above(h264Data, sent)

Accounted ==
    /\ freed = Packet \ (Elems(h264Queue) \cup Elems(pending) \cup {h264Data})
    /\ Elems(sent) \subseteq freed

Ownership == InOrder /\ Accounted

(* Taking the head off an ordered sequence leaves an ordered one, all of it
   above the head. *)
LEMMA TailOrder ==
    ASSUME NEW s \in Seq(Nat), s # <<>>, Ordered(s)
    PROVE  /\ Ordered(Tail(s))
           /\ Below(Head(s), Tail(s))
           /\ Elems(s) = Elems(Tail(s)) \cup {Head(s)}
           /\ Head(s) \notin Elems(Tail(s))
           /\ \A n \in Int : Below(n, s) => Below(n, Tail(s)) /\ n < Head(s)
           /\ \A t \in Seq(Nat) : Before(s, t) => Before(Tail(s), t) /\ Below(Head(s), t)
           /\ \A t \in Seq(Nat) : Before(t, s) => Before(t, Tail(s)) /\ Above(Head(s), t)
<1>1. /\ Tail(s) \in Seq(Nat) /\ Len(Tail(s)) = Len(s) - 1 /\ Len(s) \in Nat \ {0}
      /\ \A i \in 1 .. Len(s) - 1 : Tail(s)[i] = s[i + 1]
      /\ Head(s) = s[1]
      /\ \A i \in 1 .. Len(s) : s[i] \in Nat
  BY TailFacts
<1>2. \A i, j \in 1 .. Len(s) : i < j => s[i] < s[j]
  BY DEF Ordered
<1>3. Ordered(Tail(s))
  BY <1>1, <1>2, SMTT(30) DEF Ordered
<1>4. Below(Head(s), Tail(s))
  BY <1>1, <1>2 DEF Below
<1>5. Elems(s) = Elems(Tail(s)) \cup {Head(s)}
  <2>1. \A i \in 2 .. Len(s) : s[i] = Tail(s)[i - 1] /\ i - 1 \in 1 .. Len(Tail(s))
    BY <1>1
  <2>2. Elems(s) \subseteq Elems(Tail(s)) \cup {Head(s)}
    <3> SUFFICES ASSUME NEW i \in 1 .. Len(s)
                 PROVE  s[i] \in Elems(Tail(s)) \cup {Head(s)}
      BY DEF Elems
    <3>1. CASE i = 1
      BY <1>1, <3>1
    <3>2. CASE i \in 2 .. Len(s)
      BY <2>1, <3>2 DEF Elems
    <3> QED
      BY <1>1, <3>1, <3>2
  <2>3. \A i \in 1 .. Len(Tail(s)) : i + 1 \in 1 .. Len(s) /\ Tail(s)[i] = s[i + 1]
    BY <1>1
  <2>4. Elems(Tail(s)) \cup {Head(s)} \subseteq Elems(s)
    BY <1>1, <2>3 DEF Elems
  <2> QED
    BY <2>2, <2>4
<1>6. Head(s) \notin Elems(Tail(s))
  BY <1>1, <1>4 DEF Below, Elems
<1>7. \A n \in Int : Below(n, s) => Below(n, Tail(s)) /\ n < Head(s)
  BY <1>1 DEF Below
<1>8. \A t \in Seq(Nat) : Before(s, t) => Before(Tail(s), t) /\ Below(Head(s), t)
  BY <1>1 DEF Before, Below
<1>9. \A t \in Seq(Nat) : Before(t, s) => Before(t, Tail(s)) /\ Above(Head(s), t)
  BY <1>1 DEF Before, Above
<1> QED
  BY <1>3, <1>4, <1>5, <1>6, <1>7, <1>8, <1>9

(* Appending a packet above every element keeps a sequence ordered. *)
LEMMA AppendOrder ==
    ASSUME NEW s \in Seq(Nat), NEW e \in Nat
    PROVE  /\ Ordered(s) /\ Above(e, s) => Ordered(Append(s, e))
           /\ Elems(Append(s, e)) = Elems(s) \cup {e}
           /\ \A n \in Int : Below(n, s) /\ n < e => Below(n, Append(s, e))
           /\ \A t \in Seq(Nat) : Before(s, t) /\ Below(e, t) => Before(Append(s, e), t)
           /\ \A t \in Seq(Nat) : Before(t, s) /\ Above(e, t) => Before(t, Append(s, e))
<1>1. /\ Append(s, e) \in Seq(Nat) /\ Len(Append(s, e)) = Len(s) + 1 /\ Len(s) \in Nat
      /\ \A i \in 1 .. Len(s) : Append(s, e)[i] = s[i]
      /\ Append(s, e)[Len(s) + 1] = e
      /\ \A i \in 1 .. Len(s) : s[i] \in Nat
  BY AppendFacts
<1>2. Ordered(s) /\ Above(e, s) => Ordered(Append(s, e))
  BY <1>1 DEF Ordered, Above
<1>3. Elems(Append(s, e)) = Elems(s) \cup {e}
  BY <1>1 DEF Elems
<1>4. \A n \in Int : Below(n, s) /\ n < e => Below(n, Append(s, e))
  BY <1>1 DEF Below
<1>5. \A t \in Seq(Nat) : Before(s, t) /\ Below(e, t) => Before(Append(s, e), t)
  BY <1>1 DEF Before, Below
<1>6. \A t \in Seq(Nat) : Before(t, s) /\ Above(e, t) => Before(t, Append(s, e))
  BY <1>1, SMTT(30) DEF Before, Above
<1> QED
  BY <1>2, <1>3, <1>4, <1>5, <1>6

(* Every step moves a packet from one owner to the next and keeps the owners
   in emission order. *)
LEMMA StepOwnership == TypeInv /\ Ownership /\ [Next]_vars => Ownership'
<1> SUFFICES ASSUME ControlOK, DataOK, HandsFull, InOrder, Accounted, [Next]_vars
             PROVE  InOrder' /\ Accounted'
  BY DEF TypeInv, Ownership
<1> USE DEF encVars, packetVars
<1>0. Len(packets) \in Nat /\ h264Data \in Int /\ freed \subseteq Nat
  BY DEF DataOK, Packet, NULL, GARBAGE
<1>1. CASE UNCHANGED <<packetVars, h264Data>>
  BY <1>1 DEF InOrder, Accounted, Packet, Ordered, Before, Below, Above, Elems
<1>2. ASSUME NEW k \in {1, 2}, Len(packets') = Len(packets) + k,
             pending = <<>>, pending' = Fresh(k),
             UNCHANGED <<h264Queue, h264Data, freed, sent>>
      PROVE  InOrder' /\ Accounted'
  <2>1. /\ pending' \in Seq(Nat) /\ Len(pending') = k
        /\ \A i \in 1 .. k : pending'[i] = Len(packets) + i
    BY <1>2, FreshFacts DEF DataOK
  <2>2. Ordered(pending')
    BY <2>1, <1>0 DEF Ordered
  <2>3. Before(sent, pending') /\ Before(h264Queue, pending') /\ Below(h264Data, pending')
    <3>1. \A i \in 1 .. Len(pending') : Len(packets) < pending'[i]
      BY <2>1, <1>0
    <3>2. \A x \in Packet \cup {NULL, GARBAGE} : x <= Len(packets)
      BY <1>0 DEF Packet, NULL, GARBAGE
    <3>3. \A i \in 1 .. Len(pending'), x \in Packet \cup {NULL, GARBAGE} : x < pending'[i]
      BY <3>1, <3>2, <2>1, <1>0 DEF Packet, NULL, GARBAGE
    <3> QED
      BY <3>3 DEF Before, Below, DataOK
  <2>4. h264Data \in Packet' => h264Data \in Packet
    BY <1>2, <1>0 DEF DataOK, Packet, NULL, GARBAGE
  <2>5. InOrder'
    BY <1>2, <2>2, <2>3, <2>4 DEF InOrder
  <2>6. Packet' = Packet \cup Elems(pending')
    <3>1. Elems(pending') = {Len(packets) + i : i \in 1 .. k}
      BY <2>1 DEF Elems
    <3>2. Packet' \subseteq Packet \cup Elems(pending')
      <4> SUFFICES ASSUME NEW p \in 1 .. Len(packets) + k, p \notin 1 .. Len(packets)
                   PROVE  p \in {Len(packets) + i : i \in 1 .. k}
        BY <1>2, <3>1 DEF Packet
      <4>1. p - Len(packets) \in 1 .. k /\ p = Len(packets) + (p - Len(packets))
        BY <1>0
      <4> QED
        BY <4>1
    <3>3. Packet \cup Elems(pending') \subseteq Packet'
      BY <1>0, <1>2, <3>1 DEF Packet
    <3> QED
      BY <3>2, <3>3
  <2>7. Packet \cap Elems(pending') = {}
    BY <2>1, <1>0 DEF Elems, Packet
  <2>8. Elems(pending) = {}
    BY <1>2 DEF Elems
  <2>9. h264Data \notin Elems(pending')
    BY <2>1, <1>0, <2>7 DEF Elems, DataOK, NULL, GARBAGE
  <2>10. Elems(h264Queue) \cap Elems(pending') = {}
    BY <2>7 DEF Elems, DataOK
  <2>11. Accounted'
    BY <1>2, <2>6, <2>7, <2>8, <2>9, <2>10 DEF Accounted
  <2> QED
    BY <2>5, <2>11
<1>3. CASE EncFirst
  <2>1. CASE UNCHANGED <<packets, pending>>
    BY <1>1, <1>3, <2>1 DEF EncFirst
  <2>2. CASE packets' = Append(packets, "hdr") /\ pending' = Fresh(1)
    <3>1. Len(packets') = Len(packets) + 1
      BY <2>2, AppendFacts DEF DataOK, Kind
    <3>2. pending = <<>>
      BY <1>3 DEF EncFirst, HandsFull
    <3> QED
      BY <1>2, <1>3, <2>2, <3>1, <3>2 DEF EncFirst
  <2> QED
    BY <1>3, <2>1, <2>2 DEF EncFirst
<1>4. CASE EncOut
  <2> PICK kinds \in {<<"p">>, <<"idr">>} \cup {<<"hdr", "idr">>} :
           packets' = packets \o kinds /\ pending' = Fresh(Len(kinds))
    BY <1>4 DEF EncOut
  <2>1. kinds \in Seq(Kind) /\ Len(kinds) \in {1, 2}
    BY DEF Kind
  <2>2. Len(packets') = Len(packets) + Len(kinds)
    BY <2>1 DEF DataOK
  <2>3. pending = <<>>
    BY <1>4 DEF EncOut, HandsFull
  <2> QED
    BY <1>2, <1>4, <2>1, <2>2, <2>3 DEF EncOut
<1>5. CASE EnqueueRefused
  <2>1. pending # <<>> /\ pending' = Tail(pending) /\ freed' = freed \cup {Head(pending)}
        /\ UNCHANGED <<packets, h264Queue, h264Data, sent>>
    BY <1>5 DEF EnqueueRefused, Release, Emitted, HandsFull
  <2>2. Head(pending) \in Packet
    BY <2>1, TailFacts DEF DataOK
  <2>3. InOrder'
    BY <2>1, <1>0, TailOrder DEF InOrder, DataOK, Packet
  <2>4. Head(pending) \notin Elems(h264Queue) /\ Head(pending) # h264Data
    BY <2>1, <1>0, TailOrder, SMTT(30) DEF InOrder, Elems, Above, DataOK
  <2>5. Accounted'
    BY <2>1, <2>2, <2>4, TailOrder DEF InOrder, Accounted, DataOK, Packet
  <2> QED
    BY <2>3, <2>5
<1>6. CASE EnqueuePut
  <2>1. pending # <<>> /\ pending' = Tail(pending) /\ h264Queue' = Append(h264Queue, Head(pending))
        /\ UNCHANGED <<packets, freed, h264Data, sent>>
    BY <1>6 DEF EnqueuePut, Emitted, HandsFull
  <2>2. Head(pending) \in Nat /\ Tail(pending) \in Seq(Nat)
    BY <2>1, TailFacts DEF DataOK
  <2>3. /\ Ordered(Tail(pending)) /\ Below(Head(pending), Tail(pending))
        /\ Before(sent, Tail(pending)) /\ Above(Head(pending), sent)
        /\ Before(h264Queue, Tail(pending)) /\ Above(Head(pending), h264Queue)
        /\ Below(h264Data, Tail(pending)) /\ h264Data < Head(pending)
    BY <2>1, <1>0, TailOrder DEF InOrder, DataOK
  <2>4. InOrder'
    BY <2>1, <2>2, <2>3, <1>0, AppendOrder DEF InOrder, DataOK, Packet
  <2>5. Elems(h264Queue') \cup Elems(pending') = Elems(h264Queue) \cup Elems(pending)
    BY <2>1, <2>2, TailOrder, AppendOrder DEF InOrder, DataOK
  <2>6. Accounted'
    BY <2>1, <2>5 DEF Accounted, Packet
  <2> QED
    BY <2>4, <2>6
<1>7. ASSUME h264Queue # <<>>, h264Queue' = Tail(h264Queue),
             freed' = freed \cup {Head(h264Queue)}, UNCHANGED <<packets, pending, sent>>,
             h264Data' = h264Data \/ (h264Data' = NULL /\ h264Data \notin Packet)
      PROVE  InOrder' /\ Accounted'
  <2>1. Head(h264Queue) \in Packet /\ h264Data' \in Int /\ Tail(h264Queue) \in Seq(Nat)
        /\ (h264Data' \in Packet => h264Data' = h264Data)
    BY <1>7, <1>0, TailFacts DEF DataOK, NULL, Packet
  <2>2. InOrder'
    <3>1. Ordered(Tail(h264Queue)) /\ Before(sent, Tail(h264Queue)) /\ Before(Tail(h264Queue), pending)
          /\ Below(h264Data, Tail(h264Queue))
      BY <1>7, <1>0, TailOrder DEF InOrder, DataOK
    <3>2. Below(NULL, Tail(h264Queue)) /\ Below(NULL, pending)
      <4>1. Below(NULL, h264Queue) /\ Below(NULL, pending)
        BY DEF Below, NULL, DataOK, Packet
      <4> QED
        BY <4>1, <1>7, TailOrder DEF InOrder, DataOK, NULL
    <3> QED
      BY <1>7, <2>1, <3>1, <3>2 DEF InOrder, Packet, NULL
  <2>3. Head(h264Queue) \notin Elems(pending) /\ Head(h264Queue) # h264Data
    BY <1>7, <1>0, TailOrder, SMTT(30) DEF InOrder, Elems, Below, DataOK
  <2>4. Accounted'
    BY <1>7, <2>1, <2>3, TailOrder DEF InOrder, Accounted, DataOK, Packet, NULL
  <2> QED
    BY <2>2, <2>4
<1>8. CASE EnqueueDrop
  BY <1>1, <1>7, <1>8 DEF EnqueueDrop, Release
<1>9. CASE RtspDrain
  <2>1. h264Data \notin Packet
    BY <1>9 DEF RtspDrain, HandsFull
  <2>2. CASE h264Queue # <<>>
    BY <1>7, <1>9, <2>1, <2>2 DEF RtspDrain, Release
  <2>3. CASE h264Queue = <<>>
    <3>1. h264Data' = NULL /\ UNCHANGED packetVars
      BY <1>9, <2>3 DEF RtspDrain
    <3>2. Below(NULL, pending) /\ Below(NULL, h264Queue) /\ NULL \notin Packet
      BY DEF Below, NULL, DataOK, Packet
    <3> QED
      BY <3>1, <3>2, <2>1 DEF InOrder, Accounted, Packet
  <2> QED
    BY <2>2, <2>3
<1>10. CASE RtspDequeue
  <2>1. CASE h264Queue = <<>>
    BY <1>1, <1>10, <2>1 DEF RtspDequeue
  <2>2. CASE h264Queue # <<>>
    <3>1. h264Queue' = Tail(h264Queue) /\ h264Data' = Head(h264Queue) /\ h264Data \notin Packet
          /\ UNCHANGED <<packets, freed, pending, sent>>
      BY <1>10, <2>2 DEF RtspDequeue, HandsFull
    <3>2. Head(h264Queue) \in Packet /\ Tail(h264Queue) \in Seq(Nat)
      BY <2>2, TailFacts DEF DataOK
    <3>3. /\ Ordered(Tail(h264Queue)) /\ Before(sent, Tail(h264Queue))
          /\ Before(Tail(h264Queue), pending) /\ Below(Head(h264Queue), Tail(h264Queue))
          /\ Below(Head(h264Queue), pending) /\ Above(Head(h264Queue), sent)
          /\ Elems(h264Queue) = Elems(Tail(h264Queue)) \cup {Head(h264Queue)}
      BY <2>2, TailOrder DEF InOrder, DataOK
    <3>4. InOrder'
      BY <3>1, <3>3 DEF InOrder
    <3>5. Accounted'
      BY <3>1, <3>3 DEF Accounted, Packet
    <3> QED
      BY <3>4, <3>5
  <2> QED
    BY <2>1, <2>2
<1>11. CASE RtspSend
  <2>1. h264Data \in Packet /\ h264Data \in Nat
    BY <1>11 DEF RtspSend, HandsFull, Packet, DataOK
  <2>2. /\ h264Data' = NULL /\ freed' = freed \cup {h264Data}
        /\ sent' = Append(sent, h264Data) \/ sent' = sent
        /\ UNCHANGED <<packets, pending, h264Queue>>
    BY <1>11 DEF RtspSend, Release
  <2>3. Below(NULL, pending) /\ Below(NULL, h264Queue) /\ NULL \notin Packet
    BY DEF Below, NULL, DataOK, Packet
  <2>4. Ordered(sent') /\ Before(sent', h264Queue) /\ Before(sent', pending)
        /\ Elems(sent') \subseteq Elems(sent) \cup {h264Data}
    BY <2>1, <2>2, AppendOrder DEF InOrder, DataOK
  <2>5. h264Data \notin Elems(h264Queue) /\ h264Data \notin Elems(pending)
    BY <1>0 DEF InOrder, Below, Elems
  <2>6. InOrder'
    BY <2>2, <2>3, <2>4 DEF InOrder, Packet
  <2>7. Accounted'
    BY <2>1, <2>2, <2>3, <2>4, <2>5 DEF Accounted, Packet
  <2> QED
    BY <2>6, <2>7
<1>12. CASE Main \/ SignProc \/ IpcRun
  BY <1>1, <1>12 DEF Main, MainInit, MainStart, MainStop, MainUninit, SignProc, IpcRun
<1>13. CASE EncLoop \/ EncNextStage \/ EncRetry \/ EnqueueAccepted \/ EnqueueSize
  BY <1>1, <1>13 DEF EncLoop, EncNextStage, EncRetry, EnqueueAccepted, EnqueueSize
<1>14. CASE RtspLoop \/ RtspSize
  BY <1>1, <1>14 DEF RtspLoop, RtspSize
<1>15. CASE UNCHANGED vars
  BY <1>1, <1>15 DEF vars
<1> QED
  BY <1>3, <1>4, <1>5, <1>6, <1>8, <1>9, <1>10, <1>11, <1>12, <1>13, <1>14, <1>15
     DEF Next, Enc, Rtsp

(* There is no packet at the start, hence none with two owners. *)
LEMMA InitOwnership == Init => Ownership
  BY DEF Init, Ownership, InOrder, Accounted, Ordered, Before, Below, Above, Elems, Packet, GARBAGE

(* The inductive invariant says what the model-checked properties say. *)
LEMMA OwnershipMeaning == TypeInv /\ Ownership => OneOwner /\ SentInOrder
<1> SUFFICES ASSUME DataOK, InOrder, Accounted PROVE OneOwner /\ SentInOrder
  BY DEF TypeInv, Ownership
<1>1. /\ DOMAIN pending = 1 .. Len(pending) /\ DOMAIN h264Queue = 1 .. Len(h264Queue)
      /\ DOMAIN sent = 1 .. Len(sent)
  BY DEF DataOK
<1>2. Packet \ InFlight = freed
  BY <1>1 DEF Accounted, Elems, InFlight
<1> QED
  BY <1>1, <1>2 DEF OneOwner, SentInOrder, InOrder, Accounted, Before, Below, Elems

(* Every packet has exactly one owner until it is freed, is freed at most
   once and never used afterwards, and packets are sent in the order in which
   the encoder emitted them. *)
THEOREM PacketsOwnedAndOrdered == Spec => [](OneOwner /\ SentInOrder)
  BY InitTypeInv, StepTypeInv, InitOwnership, StepOwnership, OwnershipMeaning, PTL DEF Spec

-----------------------------------------------------------------------------
(* Life of the threads: which of them can exist at each point of main and
   ipc, and that a stopped sender means a joined encoder. *)
Lifecycle ==
    /\ pc["main"] \in {"init", "start", "uninitEnc", "uninitRtsp", "exit"} => pc["ipc"] = "off"
    /\ pc["ipc"] \in {"off", "startRtsp", "done"} => pc["enc"] = "off" /\ pc["rtsp"] = "off"
    /\ pc["ipc"] \in {"startEnc", "stop2", "join2"} => pc["enc"] = "off"
    /\ pc["ipc"] \in {"startEnc", "loop", "join1"} => pc["rtsp"] # "off"
    /\ pc["ipc"] \in {"startEnc", "loop", "join1", "stop2"} => ~stopFlag["rtsp"]
    /\ pc["rtsp"] \in {"drainSize", "drain", "done"} => stopFlag["rtsp"]
    /\ stopFlag["rtsp"] => pc["enc"] = "off"
    /\ pc["rtsp"] \in {"off", "done"} => h264Queue = <<>> /\ pc["enc"] = "off"

(* Starting and stopping keep the nesting main > ipc > encoder and sender,
   the sender outliving the encoder. *)
LEMMA StepLifecycle == TypeInv /\ Lifecycle /\ [Next]_vars => Lifecycle'
<1> SUFFICES ASSUME ControlOK, DataOK, HandsFull, Lifecycle, [Next]_vars
             PROVE  Lifecycle'
  BY DEF TypeInv
<1> USE DEF encVars, packetVars, Goto
<1>1. CASE MainInit
  BY <1>1 DEF MainInit, Lifecycle, ControlOK, Thread
<1>2. CASE MainStart
  BY <1>2 DEF MainStart, Start, Lifecycle, ControlOK, Thread
<1>3. CASE SignProc
  BY <1>3 DEF SignProc, Lifecycle, ControlOK, Thread
<1>4. CASE MainStop
  BY <1>4 DEF MainStop, RaiseStop, Join, Lifecycle, ControlOK, Thread
<1>5. CASE MainUninit
  BY <1>5 DEF MainUninit, Lifecycle, ControlOK, Thread
<1>6. CASE IpcRun
  <2>1. CASE pc["ipc"] = "startRtsp" /\ Start("ipc", "rtsp", "loop", "startEnc")
    BY <1>6, <2>1 DEF IpcRun, Start, Lifecycle, ControlOK, Thread
  <2>2. CASE pc["ipc"] = "startEnc" /\ Start("ipc", "enc", "first", "loop")
    BY <1>6, <2>2 DEF IpcRun, Start, Lifecycle, ControlOK, Thread
  <2>3. CASE pc["ipc"] = "loop" /\ RaiseStop("ipc", "enc", "join1")
    BY <1>6, <2>3 DEF IpcRun, RaiseStop, Lifecycle, ControlOK, Thread
  <2>4. CASE pc["ipc"] = "join1" /\ Join("ipc", "enc", "stop2")
    BY <1>6, <2>4 DEF IpcRun, Join, Lifecycle, ControlOK, Thread
  <2>5. CASE pc["ipc"] = "stop2" /\ RaiseStop("ipc", "rtsp", "join2")
    BY <1>6, <2>5 DEF IpcRun, RaiseStop, Lifecycle, ControlOK, Thread
  <2>6. CASE pc["ipc"] = "join2" /\ Join("ipc", "rtsp", "done")
    BY <1>6, <2>6 DEF IpcRun, Join, Lifecycle, ControlOK, Thread
  <2> QED
    BY <1>6, <2>1, <2>2, <2>3, <2>4, <2>5, <2>6 DEF IpcRun, StopOrder
<1>7. CASE Enc
  <2>1. /\ pc["enc"] # "off" /\ pc["rtsp"] \notin {"off", "done"} /\ ~stopFlag["rtsp"]
        /\ pc["ipc"] \in {"loop", "join1"}
    BY <1>7 DEF Enc, EncFirst, EncLoop, EncNextStage, EncRetry, EncOut, EnqueueRefused,
                EnqueueAccepted, EnqueueSize, EnqueueDrop, EnqueuePut, Lifecycle, ControlOK
  <2>2. /\ pc'["main"] = pc["main"] /\ pc'["ipc"] = pc["ipc"] /\ pc'["rtsp"] = pc["rtsp"]
        /\ UNCHANGED stopFlag
    BY <1>7 DEF Enc, EncFirst, EncLoop, EncNextStage, EncRetry, EncOut, EnqueueRefused, Emitted,
                EnqueueAccepted, EnqueueSize, EnqueueDrop, EnqueuePut, ControlOK, Thread
  <2> QED
    BY <2>1, <2>2 DEF Lifecycle
<1>8. CASE RtspLoop
  BY <1>8 DEF RtspLoop, Lifecycle, ControlOK, Thread
<1>9. CASE RtspSize
  <2>1. PacketWaiting \/ h264Queue = <<>>
    BY EmptySeq DEF PacketWaiting, DataOK
  <2> QED
    BY <1>9, <2>1 DEF RtspSize, Lifecycle, ControlOK, Thread
<1>10. CASE RtspDequeue
  BY <1>10 DEF RtspDequeue, Lifecycle, ControlOK, Thread
<1>11. CASE RtspSend
  BY <1>11 DEF RtspSend, Lifecycle, ControlOK, Thread
<1>12. CASE RtspDrain
  BY <1>12 DEF RtspDrain, Lifecycle, ControlOK, Thread
<1>13. CASE UNCHANGED vars
  BY <1>13 DEF vars, Lifecycle
<1> QED
  BY <1>1, <1>2, <1>3, <1>4, <1>5, <1>6, <1>7, <1>8, <1>9, <1>10, <1>11, <1>12, <1>13
     DEF Next, Main, Rtsp

(* main uninitialises the encoder, the reader and the RTSP session only when
   all threads that use them are gone, and when it returns, every packet has
   been freed. *)
THEOREM OrderlyShutdown == Spec => []OrderlyExit
<1>1. Init => Lifecycle
  BY DEF Init, Lifecycle, Thread
<1>2. TypeInv /\ Ownership /\ Lifecycle => OrderlyExit
  <2> SUFFICES ASSUME DataOK, HandsFull, Accounted, Lifecycle
               PROVE  OrderlyExit
    BY DEF TypeInv, Ownership
  <2>1. pc["main"] \in {"uninitEnc", "uninitRtsp", "exit"} =>
           \A t \in Thread \ {"main"} : pc[t] = "off"
    BY DEF Lifecycle, Thread
  <2>2. ASSUME pc["main"] = "exit" PROVE freed = Packet /\ h264Queue = <<>>
    <3>1. pending = <<>> /\ h264Queue = <<>> /\ h264Data \notin Packet
      BY <2>2 DEF Lifecycle, HandsFull
    <3> QED
      BY <3>1 DEF Accounted, Elems
  <2> QED
    BY <2>1, <2>2 DEF OrderlyExit
<1> QED
  BY <1>1, <1>2, InitTypeInv, StepTypeInv, InitOwnership, StepOwnership, StepLifecycle,
     PTL DEF Spec

-----------------------------------------------------------------------------
(* A sequence has no more elements than places. *)
LEMMA ElemsFinite ==
    ASSUME NEW s \in Seq(Nat)
    PROVE  IsFiniteSet(Elems(s)) /\ Cardinality(Elems(s)) <= Len(s) /\ Cardinality(Elems(s)) \in Nat
<1>1. Len(s) \in Nat /\ s \in [1 .. Len(s) -> Elems(s)]
  BY DEF Elems
<1>2. s \in Surjection(1 .. Len(s), Elems(s))
  BY <1>1 DEF Surjection, Elems
<1>3. IsFiniteSet(1 .. Len(s)) /\ Cardinality(1 .. Len(s)) = Len(s)
  BY <1>1, FS_Interval
<1> HIDE DEF Elems
<1>4. IsFiniteSet(Elems(s)) /\ Cardinality(Elems(s)) <= Len(s)
  BY <1>2, <1>3, FS_Surjection
<1> QED
  BY <1>4, FS_CardinalityType

(* While the encoder thread has nothing to emit, no more packets are in
   flight than the queue holds and the sender has in hand. *)
LEMMA FewInFlight ==
    ASSUME TypeInv, Ownership, RoomWhenPut, pending = <<>>
    PROVE  Cardinality(Packet \ freed) + 2 <= RTSP_H264_QUEUE_MAX + 3
<1>1. /\ h264Queue \in Seq(Nat) /\ Len(h264Queue) <= RTSP_H264_QUEUE_MAX
      /\ Len(h264Queue) \in Nat /\ RTSP_H264_QUEUE_MAX \in Nat
  BY QueueMaxAssumption DEF TypeInv, DataOK, RoomWhenPut
<1> DEFINE Q == Elems(h264Queue)
           W == Q \cup {h264Data}
<1>2. Packet \ freed \in SUBSET W
  BY DEF Ownership, Accounted, Elems
<1>3. IsFiniteSet(Q) /\ Cardinality(Q) <= Len(h264Queue) /\ Cardinality(Q) \in Nat
  BY <1>1, ElemsFinite
<1> HIDE DEF Q
<1>4. IsFiniteSet(W) /\ Cardinality(W) <= Cardinality(Q) + 1
  <2>1. /\ IsFiniteSet(W)
        /\ Cardinality(W) = IF h264Data \in Q THEN Cardinality(Q) ELSE Cardinality(Q) + 1
    BY <1>3, FS_AddElement
  <2> QED
    BY <1>3, <2>1
<1> HIDE DEF W
<1>5. Cardinality(W) \in Nat /\ IsFiniteSet(Packet \ freed) /\ Cardinality(Packet \ freed) <= Cardinality(W)
  BY <1>2, <1>4, FS_Subset, FS_CardinalityType
<1>6. Cardinality(Packet \ freed) \in Nat
  BY <1>5, FS_CardinalityType
<1> QED
  BY <1>1, <1>3, <1>4, <1>5, <1>6

(* What is still to come of main and ipc: before the sender has been started
   no packet exists and nothing has closed the service. *)
NotYetOpen ==
    pc["main"] \in {"init", "start"} \/ pc["ipc"] = "startRtsp" =>
        packets = <<>> /\ ~stopFlag["rtsp"]

LEMMA StepNotYetOpen == TypeInv /\ Lifecycle /\ NotYetOpen /\ [Next]_vars => NotYetOpen'
<1> SUFFICES ASSUME ControlOK, Lifecycle, NotYetOpen, [Next]_vars
             PROVE  NotYetOpen'
  BY DEF TypeInv
<1> USE DEF Goto, encVars, packetVars
<1>1. CASE MainInit
  BY <1>1 DEF MainInit, NotYetOpen, Lifecycle, ControlOK, Thread
<1>2. CASE MainStart
  BY <1>2 DEF MainStart, Start, NotYetOpen, ControlOK, Thread, Lifecycle
<1>3. CASE SignProc
  BY <1>3 DEF SignProc, NotYetOpen, ControlOK, Thread
<1>4. CASE MainStop
  BY <1>4 DEF MainStop, RaiseStop, Join, NotYetOpen, ControlOK, Thread
<1>5. CASE MainUninit
  BY <1>5 DEF MainUninit, NotYetOpen, Lifecycle, ControlOK, Thread
<1>6. CASE IpcRun
  BY <1>6 DEF IpcRun, Start, RaiseStop, Join, StopOrder, NotYetOpen, Lifecycle, ControlOK, Thread
<1>7. CASE Enc
  <2>1. /\ pc["enc"] # "off"
        /\ pc'["main"] = pc["main"] /\ pc'["ipc"] = pc["ipc"]
    BY <1>7 DEF Enc, EncFirst, EncLoop, EncNextStage, EncRetry, EncOut, EnqueueRefused, Emitted,
                EnqueueAccepted, EnqueueSize, EnqueueDrop, EnqueuePut, ControlOK, Thread
  <2> QED
    BY <2>1 DEF NotYetOpen, Lifecycle
<1>8. CASE Rtsp
  <2>1. /\ pc'["main"] = pc["main"] /\ pc'["ipc"] = pc["ipc"] /\ UNCHANGED <<stopFlag, packets>>
    BY <1>8 DEF Rtsp, RtspLoop, RtspSize, RtspDequeue, RtspSend, RtspDrain, ControlOK, Thread
  <2> QED
    BY <2>1 DEF NotYetOpen
<1>9. CASE UNCHANGED vars
  BY <1>9 DEF vars, NotYetOpen
<1> QED
  BY <1>1, <1>2, <1>3, <1>4, <1>5, <1>6, <1>7, <1>8, <1>9 DEF Next, Main

-----------------------------------------------------------------------------
PipelineInv == TypeInv /\ RoomWhenPut /\ Ownership /\ Lifecycle /\ NotYetOpen

LEMMA InitPipelineInv == Init => PipelineInv
<1>1. Init => RoomWhenPut /\ Lifecycle /\ NotYetOpen
  BY QueueMaxAssumption DEF Init, RoomWhenPut, Lifecycle, NotYetOpen, Thread
<1> QED
  BY <1>1, InitTypeInv, InitOwnership DEF PipelineInv

LEMMA StepPipelineInv == PipelineInv /\ [Next]_vars => PipelineInv'
  BY StepTypeInv, StepRoom, StepOwnership, StepLifecycle, StepNotYetOpen DEF PipelineInv

(* Letting a packet go, from whichever hand or queue it is in. *)
LEMMA ReleaseIsLose ==
    ASSUME NEW p \in Packet \ freed, freed' = freed \cup {p},
           UNCHANGED <<packets, sent, initFlag, stopFlag>>,
           initFlag /\ ~stopFlag["rtsp"] => \E q \in Packet \ freed : p < q
    PROVE  Delivery!DeliveryNext
<1>1. p \in Delivery!Unsettled
  BY DEF Delivery!Unsettled, Packet
<1>2. Delivery!Lose(p)
  BY DEF Delivery!Lose, Delivery!Unsettled, Packet
<1> QED
  BY <1>1, <1>2 DEF Delivery!DeliveryNext

(* Where packets in flight are: the head of the queue and of what is pending,
   and the packet in the sender's hand, are not settled. *)
LEMMA HoldersUnsettled ==
    ASSUME TypeInv, Ownership
    PROVE  /\ pending # <<>> => Head(pending) \in Packet \ freed
           /\ h264Queue # <<>> => Head(h264Queue) \in Packet \ freed
           /\ h264Data \in Packet => h264Data \in Packet \ freed
           /\ h264Queue # <<>> /\ pending # <<>> => Head(h264Queue) < Head(pending)
<1>1. pending # <<>> => Head(pending) \in Elems(pending) /\ Head(pending) = pending[1] /\ 1 \in 1 .. Len(pending)
  BY TailFacts DEF Elems, TypeInv, DataOK
<1>2. h264Queue # <<>> => Head(h264Queue) \in Elems(h264Queue) /\ Head(h264Queue) = h264Queue[1] /\ 1 \in 1 .. Len(h264Queue)
  BY TailFacts DEF Elems, TypeInv, DataOK
<1>3. Elems(pending) \subseteq Packet /\ Elems(h264Queue) \subseteq Packet
  BY DEF TypeInv, DataOK, Elems
<1> QED
  BY <1>1, <1>2, <1>3 DEF Ownership, Accounted, InOrder, Before

LEMMA InitDelivery == Init => Delivery!DeliveryInit
  BY DEF Init, Delivery!DeliveryInit, Thread

(* Each step of a thread emits, delivers, loses, opens or closes as
   PacketDelivery allows, or changes nothing it speaks of. *)
LEMMA StepDelivery == PipelineInv /\ [Next]_vars => [Delivery!DeliveryNext]_(Delivery!deliveryVars)
<1> SUFFICES ASSUME TypeInv, RoomWhenPut, Ownership, Lifecycle, NotYetOpen, [Next]_vars
             PROVE  Delivery!DeliveryNext \/ UNCHANGED Delivery!deliveryVars
  BY DEF PipelineInv
<1> USE DEF Goto, encVars, packetVars
<1>0. ControlOK /\ DataOK /\ HandsFull
  BY DEF TypeInv
<1>1. CASE UNCHANGED <<initFlag, stopFlag, packets, freed, sent>>
  BY <1>1 DEF Delivery!deliveryVars
<1>2. CASE MainInit
  <2>1. packets = <<>> /\ UNCHANGED <<packets, freed, sent, stopFlag>> /\ ~stopFlag["rtsp"]
        /\ (initFlag' = TRUE \/ initFlag' = initFlag)
    BY <1>2 DEF MainInit, NotYetOpen
  <2>2. CASE initFlag' = TRUE
    BY <2>1, <2>2 DEF Delivery!DeliveryNext, Delivery!Open
  <2> QED
    BY <1>1, <2>1, <2>2
<1>3. CASE MainStart \/ SignProc \/ MainStop
  <2>1. UNCHANGED <<initFlag, packets, freed, sent>> /\ stopFlag'["rtsp"] = stopFlag["rtsp"]
    BY <1>0, <1>3 DEF MainStart, SignProc, MainStop, Start, RaiseStop, Join, ControlOK, Thread
  <2> QED
    BY <2>1 DEF Delivery!deliveryVars
<1>4. CASE MainUninit
  <2>1. UNCHANGED <<packets, freed, sent, stopFlag>> /\ (initFlag' = FALSE \/ initFlag' = initFlag)
    BY <1>4 DEF MainUninit
  <2>2. CASE initFlag' = FALSE
    BY <2>1, <2>2 DEF Delivery!DeliveryNext, Delivery!Close
  <2> QED
    BY <1>1, <2>1, <2>2
<1>5. CASE IpcRun
  <2>1. UNCHANGED <<initFlag, packets, freed, sent>>
    BY <1>5 DEF IpcRun
  <2>2. stopFlag'["rtsp"] = stopFlag["rtsp"] \/ stopFlag'["rtsp"] = TRUE \/ stopFlag'["rtsp"] = FALSE
    BY <1>0, <1>5 DEF IpcRun, Start, RaiseStop, Join, ControlOK, Thread
  <2>3. stopFlag["rtsp"] \in BOOLEAN
    BY <1>0 DEF ControlOK, Thread
  <2>4. stopFlag'["rtsp"] # stopFlag["rtsp"] => stopFlag'["rtsp"] = TRUE
    BY <1>0, <1>5 DEF IpcRun, Start, RaiseStop, Join, StopOrder, ControlOK, Thread, NotYetOpen, Lifecycle
  <2>5. CASE stopFlag'["rtsp"] = stopFlag["rtsp"]
    BY <2>1, <2>5 DEF Delivery!deliveryVars
  <2>6. CASE stopFlag'["rtsp"] = TRUE
    BY <2>1, <2>6 DEF Delivery!DeliveryNext, Delivery!Close
  <2> QED
    BY <2>4, <2>5, <2>6
<1>6. ASSUME NEW k \in {1, 2}, Len(packets') = Len(packets) + k, pending = <<>>,
             UNCHANGED <<initFlag, stopFlag, freed, sent>>
      PROVE  Delivery!DeliveryNext
  <2>1. Cardinality(Packet \ freed) + 2 <= RTSP_H264_QUEUE_MAX + 3
    BY <1>6, FewInFlight
  <2>2. IsFiniteSet(Packet \ freed)
    <3>1. Len(packets) \in Int /\ 1 \in Int
      BY <1>0 DEF DataOK
    <3>2. IsFiniteSet(Packet)
      BY <3>1, FS_Interval DEF Packet
    <3> QED
      BY <3>2, FS_Difference
  <2>3. Cardinality(Packet \ freed) \in Nat /\ RTSP_H264_QUEUE_MAX \in Nat
    BY <2>2, FS_CardinalityType, QueueMaxAssumption
  <2>4. Cardinality(Packet \ freed) + k <= RTSP_H264_QUEUE_MAX + 3
    BY <2>1, <2>3
  <2>5. Delivery!Emit(k)
    <3>1. Delivery!Unsettled = Packet \ freed
      BY DEF Delivery!Unsettled, Packet
    <3>2. Delivery!Cardinality(Packet \ freed) = Cardinality(Packet \ freed)
      BY DEF Delivery!Cardinality, Cardinality
    <3>3. Delivery!Cardinality(Delivery!Unsettled) + k <= RTSP_H264_QUEUE_MAX + 3
      BY <2>4, <3>1, <3>2
    <3> QED
      BY <1>6, <3>3 DEF Delivery!Emit
  <2> QED
    BY <2>5 DEF Delivery!DeliveryNext
<1>7. CASE EncFirst
  <2>1. pending = <<>> /\ packets \in Seq(Kind)
    BY <1>0, <1>7 DEF EncFirst, HandsFull, DataOK
  <2>2. UNCHANGED <<initFlag, stopFlag, freed, sent>>
        /\ (packets' = packets \/ packets' = Append(packets, "hdr"))
    BY <1>7 DEF EncFirst
  <2>3. "hdr" \in Kind
    BY DEF Kind
  <2>4. CASE packets' = Append(packets, "hdr")
    <3>1. Len(packets') = Len(packets) + 1
      BY <2>1, <2>3, <2>4
    <3> QED
      BY <1>6, <2>1, <2>2, <3>1
  <2> QED
    BY <1>1, <2>2, <2>4
<1>8. CASE EncOut
  <2>1. pending = <<>> /\ packets \in Seq(Kind)
    BY <1>0, <1>8 DEF EncOut, HandsFull, DataOK
  <2>2. PICK kinds \in {<<"p">>, <<"idr">>, <<"hdr", "idr">>} : packets' = packets \o kinds
    BY <1>8 DEF EncOut
  <2>3. kinds \in Seq(Kind) /\ Len(kinds) \in {1, 2}
    <3>1. "p" \in Kind /\ "idr" \in Kind /\ "hdr" \in Kind
      BY DEF Kind
    <3>2. CASE kinds = <<"p">>
      BY <3>1, <3>2
    <3>3. CASE kinds = <<"idr">>
      BY <3>1, <3>3
    <3>4. CASE kinds = <<"hdr", "idr">>
      BY <3>1, <3>4
    <3> QED
      BY <3>2, <3>3, <3>4
  <2>4. Len(packets') = Len(packets) + Len(kinds)
    BY <2>1, <2>2, <2>3
  <2>5. UNCHANGED <<initFlag, stopFlag, freed, sent>>
    BY <1>8 DEF EncOut
  <2> QED
    BY <1>6, <2>1, <2>3, <2>4, <2>5
<1>9. CASE EncLoop \/ EncNextStage \/ EncRetry \/ EnqueueAccepted \/ EnqueueSize \/ EnqueuePut
           \/ RtspLoop \/ RtspSize \/ RtspDequeue
  BY <1>1, <1>9 DEF EncLoop, EncNextStage, EncRetry, EnqueueAccepted, EnqueueSize, EnqueuePut, Emitted,
                    RtspLoop, RtspSize, RtspDequeue
<1>10. CASE EnqueueRefused
  <2>1. /\ freed' = freed \cup {Head(pending)} /\ pending # <<>>
        /\ ~(initFlag /\ ~stopFlag["rtsp"])
        /\ UNCHANGED <<packets, sent, initFlag, stopFlag>>
    BY <1>0, <1>10 DEF EnqueueRefused, Release, HandsFull
  <2> QED
    BY <2>1, HoldersUnsettled, ReleaseIsLose
<1>11. CASE EnqueueDrop
  <2>1. pending # <<>> /\ UNCHANGED <<packets, sent, initFlag, stopFlag>>
    BY <1>0, <1>11 DEF EnqueueDrop, HandsFull
  <2>2. CASE h264Queue = <<>>
    BY <1>1, <1>11, <2>2 DEF EnqueueDrop
  <2>3. CASE h264Queue # <<>>
    <3>1. freed' = freed \cup {Head(h264Queue)}
      BY <1>11, <2>3 DEF EnqueueDrop, Release
    <3> QED
      BY <2>1, <2>3, <3>1, HoldersUnsettled, ReleaseIsLose
  <2> QED
    BY <2>2, <2>3
<1>12. CASE RtspSend
  <2>1. h264Data \in Packet \ freed
    BY <1>0, <1>12, HoldersUnsettled DEF RtspSend, HandsFull
  <2>2. freed' = freed \cup {h264Data} /\ UNCHANGED <<packets, initFlag, stopFlag>>
    BY <1>12 DEF RtspSend, Release
  <2>3. CASE ~initFlag
    BY <1>12, <2>1, <2>2, <2>3, ReleaseIsLose DEF RtspSend
  <2>4. CASE initFlag
    <3>1. \A i \in DOMAIN sent : sent[i] < h264Data
      BY <1>0, <2>1 DEF Ownership, InOrder, Above, DataOK
    <3>2. sent' = Append(sent, h264Data)
      BY <1>12, <2>4 DEF RtspSend
    <3>3. Delivery!Deliver(h264Data)
      BY <2>2, <3>1, <3>2 DEF Delivery!Deliver
    <3>4. h264Data \in Delivery!Unsettled
      BY <2>1 DEF Delivery!Unsettled, Packet
    <3> QED
      BY <3>3, <3>4 DEF Delivery!DeliveryNext
  <2> QED
    BY <2>3, <2>4
<1>13. CASE RtspDrain
  <2>1. stopFlag["rtsp"] /\ UNCHANGED <<packets, sent, initFlag, stopFlag>>
    BY <1>13 DEF RtspDrain, Lifecycle
  <2>2. CASE h264Queue = <<>>
    BY <1>1, <1>13, <2>2 DEF RtspDrain
  <2>3. CASE h264Queue # <<>>
    <3>1. freed' = freed \cup {Head(h264Queue)}
      BY <1>13, <2>3 DEF RtspDrain, Release
    <3> QED
      BY <2>1, <2>3, <3>1, HoldersUnsettled, ReleaseIsLose
  <2> QED
    BY <2>2, <2>3
<1>14. CASE UNCHANGED vars
  BY <1>1, <1>14 DEF vars
<1> QED
  BY <1>2, <1>3, <1>4, <1>5, <1>7, <1>8, <1>9, <1>10, <1>11, <1>12, <1>13, <1>14
     DEF Next, Main, Enc, Rtsp

(* The four threads together implement PacketDelivery: a bounded number of
   packets in flight, each settled once, deliveries in order of emission, and
   losses only in favour of a newer packet or when the server stops
   (rtspServer.cpp:93-168). *)
THEOREM PipelineDelivers == Spec => DeliverySpec
  BY InitPipelineInv, StepPipelineInv, InitDelivery, StepDelivery, PTL
     DEF Spec, DeliverySpec, Delivery!DeliverySpec

-----------------------------------------------------------------------------
LEMMA InitContract == Init => Contracted!Init
  BY DEF Init, Contracted!Init, Thread, NoCrash

(* Each use of the camera reader is one its contract allows. *)
LEMMA StepContract ==
    PipelineInv /\ [Next]_vars =>
        [\/ Contracted!Open \/ Contracted!TakeFrame \/ Contracted!FinishFrame
         \/ Contracted!Release \/ Contracted!GiveUp]_(Contracted!vars)
<1> SUFFICES ASSUME ControlOK, DataOK, Lifecycle, [Next]_vars
             PROVE  \/ Contracted!Open \/ Contracted!TakeFrame \/ Contracted!FinishFrame
                    \/ Contracted!Release \/ Contracted!GiveUp \/ UNCHANGED Contracted!vars
  BY DEF PipelineInv, TypeInv
<1> USE DEF Goto, encVars, packetVars
<1>1. CASE /\ (pc'["main"] = "init") <=> (pc["main"] = "init")
           /\ UNCHANGED <<reader, staFlag>>
           /\ crash' = "doubleFree" <=> crash = "doubleFree"
  BY <1>1 DEF Contracted!vars, NoCrash
<1>2. CASE MainInit /\ crash = NoCrash
  <2>1. PICK r \in {"none", "open", "freed"} :
           \/ reader' = r /\ crash' = crash
           \/ UninitReader(r)
    BY <1>2 DEF MainInit
  <2>2. pc["main"] = "init" /\ pc'["main"] # "init" /\ staFlag' = staFlag
    BY <1>2 DEF MainInit, ControlOK, Thread
  <2>3. CASE reader' = r /\ crash' = crash
    BY <2>1, <2>2, <2>3 DEF Contracted!Open
  <2>4. CASE UninitReader(r)
    BY <1>2, <2>1, <2>2, <2>4 DEF UninitReader, Contracted!GiveUp, Contracted!Released, NoCrash
  <2> QED
    BY <2>1, <2>3, <2>4
<1>3. CASE MainStart \/ SignProc \/ MainStop \/ IpcRun
  BY <1>1, <1>3 DEF MainStart, SignProc, MainStop, IpcRun, Start, RaiseStop, Join, ControlOK, Thread
<1>4. ASSUME pc["main"] # "init", pc'["main"] # "init", staFlag' = staFlag,
             UninitReader(reader), crash = NoCrash
      PROVE  Contracted!Release
  BY <1>4 DEF UninitReader, Contracted!Release, Contracted!Released, NoCrash
<1>5. CASE MainUninit /\ crash = NoCrash
  <2>1. /\ pc["main"] # "init" /\ pc'["main"] # "init" /\ staFlag' = staFlag
        /\ UninitReader(reader) \/ UNCHANGED <<reader, crash>>
    BY <1>5 DEF MainUninit, ControlOK, Thread
  <2> QED
    BY <1>1, <1>4, <1>5, <2>1
<1>6. CASE Enc /\ crash = NoCrash
  <2>1. pc["main"] # "init" /\ pc'["main"] = pc["main"]
    BY <1>6 DEF Enc, EncFirst, EncLoop, EncNextStage, EncRetry, EncOut, EnqueueRefused, Emitted,
                EnqueueAccepted, EnqueueSize, EnqueueDrop, EnqueuePut, ControlOK, Thread, Lifecycle
  <2>2. CASE EncLoop
    BY <1>1, <1>4, <1>6, <2>1, <2>2 DEF EncLoop
  <2>3. CASE EncNextStage
    <3>1. CASE staFlag = 0
      BY <2>1, <2>3, <3>1 DEF EncNextStage, Contracted!TakeFrame
    <3>2. CASE staFlag = 1
      BY <2>1, <2>3, <3>2 DEF EncNextStage, Contracted!vars
    <3> QED
      BY <2>3, <3>1, <3>2 DEF EncNextStage, ControlOK
  <2>4. CASE EnqueueRefused \/ EnqueuePut
    <3>1. UNCHANGED <<reader, crash>> /\ staFlag' \in {0, staFlag}
      BY <2>4 DEF EnqueueRefused, EnqueuePut, Emitted
    <3>2. CASE staFlag' = 0 /\ staFlag >= 1
      BY <2>1, <3>1, <3>2 DEF Contracted!FinishFrame
    <3>3. CASE staFlag' = staFlag
      BY <1>1, <2>1, <3>1, <3>3
    <3> QED
      BY <3>1, <3>2, <3>3 DEF ControlOK
  <2>5. CASE EncFirst \/ EncRetry \/ EncOut \/ EnqueueAccepted \/ EnqueueSize \/ EnqueueDrop
    BY <1>1, <2>1, <2>5 DEF EncFirst, EncRetry, EncOut, EnqueueAccepted, EnqueueSize, EnqueueDrop
  <2> QED
    BY <1>6, <2>2, <2>3, <2>4, <2>5 DEF Enc
<1>7. CASE Rtsp /\ crash = NoCrash
  <2>1. pc'["main"] = pc["main"] /\ UNCHANGED <<reader, staFlag>> /\ crash' # "doubleFree"
    BY <1>7 DEF Rtsp, RtspLoop, RtspSize, RtspDequeue, RtspSend, RtspDrain, ControlOK, Thread, NoCrash
  <2> QED
    BY <1>1, <1>7, <2>1 DEF NoCrash
<1>8. CASE UNCHANGED vars
  BY <1>1, <1>8 DEF vars
<1> QED
  BY <1>2, <1>3, <1>5, <1>6, <1>7, <1>8 DEF Next, Main

(* The threads take frames only from a reader that is open, one at a time, and
   uninitialise it only after its Init (yuvToH264Encoder.cpp:147-197). *)
THEOREM PipelineKeepsContract == Spec => CameraSpec
  BY InitPipelineInv, StepPipelineInv, InitContract, StepContract, PTL
     DEF Spec, CameraSpec, Contracted!Contract
=============================================================================
