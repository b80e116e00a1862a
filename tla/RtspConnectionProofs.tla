------------------------ MODULE RtspConnectionProofs ------------------------
(***************************************************************************)
(* A connection, for any sizes of its buffers, of messages and of packets. *)
(* First, who may end the process: SIGPIPE needs a client which closed     *)
(* without saying TEARDOWN first. Then what the server takes: exactly the  *)
(* messages the client sent, wherever the network cut them. Then what the  *)
(* client reads: frames whole and in frame, and one response for each of   *)
(* its requests, as long as no send() has stopped within a frame.          *)
(***************************************************************************)
EXTENDS RtspConnection, SequenceTheorems, FiniteSetTheorems, WellFoundedInduction, TLAPS

-----------------------------------------------------------------------------
(* A set of natural numbers that is not empty has a least element: what is
   shown by induction elsewhere is shown here for the least counterexample. *)
LEMMA LeastElement ==
    ASSUME NEW T \in SUBSET Nat, T # {}
    PROVE  \E x \in T : \A y \in T : x <= y
<1>1. PICK x \in T : \A y \in T : ~ (<<y, x>> \in OpToRel(<, Nat))
  BY NatLessThanWellFounded, WFMin
<1>2. ASSUME NEW y \in T PROVE x <= y
  <2>1. <<y, x>> \notin OpToRel(<, Nat) /\ <<y, x>> \in Nat \X Nat
    BY <1>1
  <2>2. ~(y < x) /\ x \in Nat /\ y \in Nat
    BY <2>1 DEF OpToRel
  <2> QED
    BY <2>2
<1> QED
  BY <1>2

(* It is what Min chooses. *)
LEMMA LeastIsMin ==
    ASSUME NEW T \in SUBSET Nat, T # {}
    PROVE  Min(T) \in T /\ \A y \in T : Min(T) <= y
  BY LeastElement DEF Min

-----------------------------------------------------------------------------
(* Nothing can be sent any more to a client that was granted a TEARDOWN and
   left. *)
Silent == ~playing /\ ~owed /\ net = <<>> /\ sockbuf = <<>> /\ reqbuf = <<>>

LeaveInv ==
    /\ peer # "open" => closed
    /\ closed /\ ~hungUp => Silent
    /\ tornDown => ~playing
    /\ KilledForCause

(* A send() moves the other end from open no further than open, and kills only
   when the reset is known (rtsp_demo.c:1340-1377). *)
LEMMA SendMovesPeer ==
    ASSUME NEW data, NEW n, Send(data, n)
    PROVE  /\ peer = "open" => peer' = "open"
           /\ peer' = "killed" => peer # "open"
  BY DEF Send

(* What the server sends leaves the invariant alone, if it sends at all only
   while it is playing or owes an answer. *)
LEMMA SendKeepsLeaveInv ==
    ASSUME LeaveInv,
           playing \/ owed,
           NEW data, NEW n, Send(data, n),
           UNCHANGED <<receiveVars, hungUp>>,
           playing' => playing, owed' => owed,
           tornDown' => ~playing'
    PROVE  LeaveInv'
  <1>1. ~(closed /\ ~hungUp)
    BY DEF LeaveInv, Silent
  <1>2. peer' # "open" => closed'
    BY SendMovesPeer DEF LeaveInv, receiveVars
  <1>3. ~(closed' /\ ~hungUp')
    BY <1>1 DEF receiveVars
  <1>4. KilledForCause'
    BY <1>1, SendMovesPeer DEF LeaveInv, KilledForCause
  <1> QED
    BY <1>2, <1>3, <1>4 DEF LeaveInv

LEMMA InitLeaveInv == Init => LeaveInv
  BY DEF Init, NothingReceived, NothingSent, LeaveInv, KilledForCause

LEMMA NextLeaveInv == LeaveInv /\ [Next]_vars => LeaveInv'
  <1> SUFFICES ASSUME LeaveInv, [Next]_vars
               PROVE  LeaveInv'
    OBVIOUS
  <1>1. CASE Talk
    BY <1>1 DEF Talk, ClientSend, sendVars, LeaveInv, KilledForCause
  <1>2. CASE Close
    <2>1. closed' /\ peer' = "closed" /\ UNCHANGED <<net, sockbuf, reqbuf, playing, owed, tornDown>>
      BY <1>2 DEF Close, ClientClose
    <2>2. ~hungUp' => tornDown /\ ~owed /\ net = <<>> /\ sockbuf = <<>> /\ reqbuf = <<>>
      BY <1>2 DEF Close
    <2>3. ~hungUp' => Silent'
      BY <2>1, <2>2 DEF LeaveInv, Silent
    <2> QED
      BY <2>1, <2>3 DEF LeaveInv, KilledForCause
  <1>3. CASE Deliver
    <2>1. ~(closed /\ ~hungUp)
      BY <1>3 DEF Deliver, Arrive, LeaveInv, Silent
    <2> QED
      BY <1>3, <2>1 DEF Deliver, Arrive, sendVars, LeaveInv, KilledForCause
  <1>4. CASE Listen
    <2>1. peer = "open" /\ UNCHANGED <<receiveVars, peer, playing, owed, tornDown, hungUp>>
      BY <1>4 DEF Listen, Drain
    <2> QED
      BY <2>1 DEF receiveVars, LeaveInv, Silent, KilledForCause
  <1>5. CASE Enter
    BY <1>5 DEF Enter, Event, sendVars, LeaveInv, Silent, KilledForCause
  <1>6. CASE Hangup
    BY <1>6 DEF Hangup, PeerClosed, sendVars, LeaveInv, Silent, KilledForCause
  <1>7. CASE Take
    <2>1. UNCHANGED <<net, closed, peer, playing, tornDown, hungUp>>
      BY <1>7 DEF Take, RecvMsg, sendVars
    <2>2. ~(Room > 0 /\ sockbuf = <<>> /\ closed /\ net = <<>>)
      BY <1>7 DEF Take, RecvMsg
    <2>3. reqbuf = <<>> => Room > 0
      BY LimitsAssumption DEF Room
    <2>4. ~(closed /\ ~hungUp)
      BY <2>2, <2>3 DEF LeaveInv, Silent
    <2> QED
      BY <2>1, <2>4 DEF LeaveInv, KilledForCause
  <1>8. CASE Answer
    <2>1. PICK n : Send(Response, n)
      BY <1>8 DEF Answer, SendMsg
    <2>2. /\ owed /\ ~owed'
          /\ playing' => playing
          /\ UNCHANGED <<receiveVars, hungUp>>
      BY <1>8 DEF Answer, PlaysAfter
    <2>3. tornDown' => ~playing'
      BY <1>8 DEF Answer, PlaysAfter, Ends, LeaveInv
    <2> QED
      BY <2>1, <2>2, <2>3, SendKeepsLeaveInv
  <1>9. ASSUME NEW data, NEW n, Send(data, n), playing,
               UNCHANGED <<receiveVars, playing, owed, tornDown, hungUp>>
        PROVE  LeaveInv'
    BY <1>9, SendKeepsLeaveInv DEF LeaveInv
  <1>10. CASE TransmitHeader
    BY <1>10, <1>9 DEF TransmitHeader, Transmit, SendHeader
  <1>11. CASE TransmitBody
    BY <1>11, <1>9 DEF TransmitBody, Transmit, SendBody
  <1>12. CASE TransmitReport
    BY <1>12, <1>9 DEF TransmitReport, Transmit, SendReport
  <1>13. CASE UNCHANGED vars
    BY <1>13 DEF vars, receiveVars, sendVars, LeaveInv, Silent, KilledForCause
  <1> QED
    BY <1>1, <1>2, <1>3, <1>4, <1>5, <1>6, <1>7, <1>8, <1>10, <1>11, <1>12, <1>13 DEF Next

(* Only a client that closes while it plays, because it said no TEARDOWN or its
   TEARDOWN did not end the session, or with a message or an answer on its way,
   can end the process (rtp_tx_data and rtsp_send_msg send without MSG_NOSIGNAL,
   rtsp_demo.c:1340-1377, 1251-1280; 1106-1129, 1150-1163 for TEARDOWN). *)
THEOREM LeavingQuietlyIsSafe == Spec => []KilledForCause
  <1>1. LeaveInv => KilledForCause
    BY DEF LeaveInv
  <1> QED
    BY InitLeaveInv, NextLeaveInv, <1>1, PTL DEF Spec

-----------------------------------------------------------------------------
(* The messages that ask for something: two line ends at e and e + 1 and
   nowhere before close the header, which asks for c bytes of body at one
   place, or nowhere if c is 0. *)
Bytes == Seq(Int)

Asks(m, e, c) ==
    /\ m \in Bytes /\ e \in Nat /\ c \in Nat
    /\ e >= 2 /\ Len(m) = e + 1 + c
    /\ m[1] # DOLLAR /\ m[1] # BAD /\ m[1] # EOL
    /\ m[2] = EOL /\ m[e] = EOL /\ m[e + 1] = EOL
    /\ \A i \in 1 .. e - 1 : ~(m[i] = EOL /\ m[i + 1] = EOL)
    /\ IF c = 0 THEN \A i \in 1 .. e : m[i] <= 0
       ELSE \E i \in 1 .. e : m[i] = c /\ \A j \in 1 .. e : m[j] > 0 => j = i

LEMMA TextIs ==
    ASSUME NEW n \in Nat
    PROVE  Text(n) \in Bytes /\ Len(Text(n)) = n /\ \A i \in 1 .. n : Text(n)[i] = 0
  BY DEF Text, Bytes

LEMMA JoinedBytes ==
    ASSUME NEW s \in Bytes, NEW t \in Bytes
    PROVE  /\ s \o t \in Bytes /\ Len(s \o t) = Len(s) + Len(t)
           /\ \A i \in 1 .. Len(s) : (s \o t)[i] = s[i]
           /\ \A i \in 1 .. Len(t) : (s \o t)[Len(s) + i] = t[i]
  BY DEF Bytes

LEMMA RequestAsks ==
    ASSUME NEW h \in HeaderLengths, NEW n \in BodyLengths
    PROVE  \E e : Asks(Request(h, n), e, n)
<1>1. h \in Nat /\ n \in Nat
  BY LengthsAssumption
<1> DEFINE line == IF h > 0 THEN Text(h) \o <<EOL>> ELSE <<>>
           field == IF n > 0 THEN <<n, EOL>> ELSE <<>>
           l == IF h > 0 THEN h + 1 ELSE 0
           f == IF n > 0 THEN 2 ELSE 0
           m == Request(h, n)
           e == 2 + l + f
<1>2. /\ line \in Bytes /\ Len(line) = l
      /\ \A i \in 1 .. l : line[i] = IF i = l THEN EOL ELSE 0
  <2>1. CASE h = 0
    BY <2>1 DEF Bytes
  <2>2. CASE h > 0
    <3>1. Text(h) \in Bytes /\ Len(Text(h)) = h /\ \A i \in 1 .. h : Text(h)[i] = 0
      BY <1>1, TextIs
    <3>2. line = Append(Text(h), EOL) /\ l = h + 1
      BY <2>2, <3>1 DEF Bytes
    <3>3. EOL \in Int
      BY DEF EOL
    <3> QED
      BY <1>1, <3>1, <3>2, <3>3 DEF Bytes
  <2> QED
    BY <1>1, <2>1, <2>2
<1>3. /\ field \in Bytes /\ Len(field) = f
      /\ f = 2 => field[1] = n /\ field[2] = EOL
  BY <1>1 DEF Bytes, EOL
<1>4. Text(n) \in Bytes /\ Len(Text(n)) = n /\ \A i \in 1 .. n : Text(n)[i] = 0
  BY <1>1, TextIs
<1>5. m = <<0, EOL>> \o line \o field \o <<EOL>> \o Text(n)
  BY DEF Request
<1>6. l \in Nat /\ f \in {0, 2} /\ l # 1 /\ (f = 2 <=> n > 0)
  BY <1>1
<1> HIDE DEF line, field, l, f, m
<1>7. /\ m \in Bytes /\ Len(m) = 3 + l + f + n
      /\ m[1] = 0 /\ m[2] = EOL
      /\ \A i \in 1 .. l : m[2 + i] = line[i]
      /\ \A i \in 1 .. f : m[2 + l + i] = field[i]
      /\ m[3 + l + f] = EOL
  <2> DEFINE a == <<0, EOL>> \o line
             b == a \o field
             c == b \o <<EOL>>
  <2>1. /\ a \in Bytes /\ Len(a) = 2 + l /\ a[1] = 0 /\ a[2] = EOL
        /\ \A i \in 1 .. l : a[2 + i] = line[i]
    BY <1>2, <1>6 DEF Bytes, EOL
  <2> HIDE DEF a
  <2>2. /\ b \in Bytes /\ Len(b) = 2 + l + f
        /\ \A i \in 1 .. 2 + l : b[i] = a[i]
        /\ \A i \in 1 .. f : b[2 + l + i] = field[i]
    <3>1. /\ b \in Bytes /\ Len(b) = Len(a) + Len(field)
          /\ \A i \in 1 .. Len(a) : b[i] = a[i]
          /\ \A i \in 1 .. Len(field) : b[Len(a) + i] = field[i]
      BY <2>1, <1>3, JoinedBytes
    <3> HIDE DEF b
    <3> QED
      BY <3>1, <2>1, <1>3
  <2> HIDE DEF b
  <2>3. /\ c \in Bytes /\ Len(c) = 3 + l + f /\ c[3 + l + f] = EOL
        /\ \A i \in 1 .. 2 + l + f : c[i] = b[i]
    BY <2>2, <1>6 DEF Bytes, EOL
  <2> HIDE DEF c
  <2>4. /\ c \o Text(n) \in Bytes /\ Len(c \o Text(n)) = 3 + l + f + n
        /\ \A i \in 1 .. 3 + l + f : (c \o Text(n))[i] = c[i]
    BY <2>3, <1>1, <1>4, <1>6 DEF Bytes
  <2>5. m = c \o Text(n)
    BY <1>5 DEF a, b, c
  <2> QED
    BY <2>1, <2>2, <2>3, <2>4, <2>5, <1>6
<1>8. e \in Nat /\ e >= 2 /\ Len(m) = e + 1 + n
  BY <1>1, <1>6, <1>7
<1>9. \A i \in 1 .. e + 1 :
        m[i] = IF i \in {2, 2 + l, e, e + 1} THEN EOL
               ELSE IF n > 0 /\ i = e - 1 THEN n ELSE 0
  <2> SUFFICES ASSUME NEW i \in 1 .. e + 1
               PROVE  m[i] = IF i \in {2, 2 + l, e, e + 1} THEN EOL
                             ELSE IF n > 0 /\ i = e - 1 THEN n ELSE 0
    OBVIOUS
  <2>1. CASE i <= 2
    BY <2>1, <1>1, <1>6, <1>7
  <2>2. CASE i > 2 /\ i <= 2 + l
    <3>1. i - 2 \in 1 .. l /\ m[2 + (i - 2)] = line[i - 2]
      BY <2>2, <1>6, <1>7
    <3> QED
      BY <3>1, <2>2, <1>2, <1>6
  <2>3. CASE i > 2 + l /\ i <= 2 + l + f
    <3>1. i - 2 - l \in 1 .. f /\ m[2 + l + (i - 2 - l)] = field[i - 2 - l] /\ f = 2
      BY <2>3, <1>6, <1>7
    <3>2. i = 3 + l \/ i = 4 + l
      BY <3>1, <1>6
    <3> QED
      BY <3>1, <3>2, <1>3, <1>6
  <2>4. CASE i = 3 + l + f
    BY <2>4, <1>6, <1>7
  <2> QED
    BY <2>1, <2>2, <2>3, <2>4, <1>6
<1> HIDE DEF e
<1>10. Asks(m, e, n)
  <2>1. m[1] # DOLLAR /\ m[1] # BAD /\ m[1] # EOL
    BY <1>7 DEF DOLLAR, BAD, EOL
  <2>2. m[2] = EOL /\ m[e] = EOL /\ m[e + 1] = EOL
    BY <1>8, <1>9
  <2>3. \A i \in 1 .. e - 1 : ~(m[i] = EOL /\ m[i + 1] = EOL)
    BY <1>1, <1>6, <1>8, <1>9 DEF EOL, e
  <2>4. CASE n = 0
    <3>1. \A i \in 1 .. e : m[i] <= 0
      BY <2>4, <1>8, <1>9 DEF EOL
    <3> QED
      BY <2>1, <2>2, <2>3, <2>4, <3>1, <1>1, <1>7, <1>8 DEF Asks
  <2>5. CASE n > 0
    <3>1. e - 1 \in 1 .. e /\ m[e - 1] = n
      BY <2>5, <1>6, <1>8, <1>9 DEF e
    <3>2. \A j \in 1 .. e : m[j] > 0 => j = e - 1
      BY <2>5, <1>8, <1>9 DEF EOL
    <3> QED
      BY <2>1, <2>2, <2>3, <2>5, <3>1, <3>2, <1>1, <1>7, <1>8 DEF Asks
  <2> QED
    BY <1>1, <2>4, <2>5
<1> QED
  BY <1>10 DEF m

LEMMA LeastIs ==
    ASSUME NEW S, NEW x \in S, x \in Nat, \A y \in S : y \in Nat /\ x <= y
    PROVE  Min(S) = x
<1>1. S \in SUBSET Nat /\ S # {}
  OBVIOUS
<1> DEFINE z == Min(S)
<1>2. z \in S /\ \A y \in S : z <= y
  BY <1>1, LeastIsMin
<1> HIDE DEF z
<1>3. z \in Nat /\ x <= z /\ z <= x
  BY <1>2
<1>4. z = x
  BY <1>3
<1> QED
  BY <1>4 DEF z

(* What the first message in reqbuf is makes rtsp_msg_parse_from_array do,
   whatever comes behind it (rtsp_msg.c:799-863). A part of it may be
   there, or all. *)
Begins(b, m) == \A j \in 1 .. Len(m) : j <= Len(b) => b[j] = m[j]

LEMMA ParseRequest ==
    ASSUME NEW m, NEW e, NEW c, Asks(m, e, c),
           NEW b \in Bytes, b # <<>>, Begins(b, m),
           LINE_MAX >= 1, Len(b) <= HDR_MAX
    PROVE  Parse(b) = IF Len(b) < Len(m) THEN 0 ELSE Len(m)
<1>1. Len(b) \in Nat /\ Len(b) >= 1 /\ \A i \in 1 .. Len(b) : b[i] \in Int
  BY DEF Bytes
<1>2. m \in Bytes /\ e \in Nat /\ c \in Nat /\ e >= 2 /\ Len(m) = e + 1 + c
  BY DEF Asks
<1>3. \A j \in 1 .. e + 1 : j <= Len(b) => b[j] = m[j]
  BY <1>2 DEF Begins
<1>4. b[1] = m[1] /\ b[1] # DOLLAR /\ b[1] # BAD
  BY <1>1, <1>2, <1>3 DEF Asks
<1>5. Parse(b) = FrameSize(b)
  BY <1>4 DEF Parse
<1>6. LINE_MAX \in Nat /\ HDR_MAX \in Nat
  BY LimitsAssumption
<1>7. CASE Len(b) <= e
  <2>1. HeaderEnds(b) = {}
    <3> SUFFICES ASSUME NEW i \in 1 .. Len(b), i < Len(b), b[i] = EOL, b[i + 1] = EOL
                 PROVE  FALSE
      BY DEF HeaderEnds, Lines
    <3>1. i \in 1 .. e - 1 /\ i + 1 \in 1 .. e + 1
      BY <1>1, <1>2, <1>7
    <3>2. m[i] = EOL /\ m[i + 1] = EOL
      BY <1>1, <1>2, <1>3, <1>7, <3>1
    <3> QED
      BY <3>1, <3>2 DEF Asks
  <2>2. Lines(b) = {} => Len(b) <= 1
    <3> SUFFICES ASSUME Len(b) >= 2 PROVE 2 \in Lines(b)
      BY <1>1
    <3>1. b[2] = EOL
      BY <1>2, <1>3 DEF Asks
    <3> QED
      BY <1>1, <3>1 DEF Lines
  <2> QED
    BY <1>1, <1>2, <1>5, <1>6, <1>7, <2>1, <2>2 DEF FrameSize
<1>8. CASE Len(b) > e
  <2>1. e \in HeaderEnds(b)
    BY <1>1, <1>2, <1>3, <1>8 DEF Asks, HeaderEnds, Lines
  <2>2. \A i \in HeaderEnds(b) : i \in Nat /\ e <= i
    <3> SUFFICES ASSUME NEW i \in 1 .. Len(b), i < e, b[i] = EOL, b[i + 1] = EOL
                 PROVE  FALSE
      BY <1>1, <1>2 DEF HeaderEnds, Lines
    <3>1. i \in 1 .. e - 1 /\ i + 1 \in 1 .. e + 1
      BY <1>1, <1>2
    <3>2. m[i] = EOL /\ m[i + 1] = EOL
      BY <1>1, <1>2, <1>3, <1>8, <3>1
    <3> QED
      BY <3>1, <3>2 DEF Asks
  <2>3. Min(HeaderEnds(b)) = e
    BY <1>2, <2>1, <2>2, LeastIs
  <2>4. \A i \in 1 .. e : b[i] = m[i]
    BY <1>1, <1>2, <1>3, <1>8
  <2>5. ContentLength(b) = c
    <3>1. CASE c = 0
      <4>1. \A i \in 1 .. e : ~(b[i] > 0)
        BY <1>1, <1>2, <1>8, <2>4, <3>1 DEF Asks
      <4> QED
        BY <2>3, <3>1, <4>1 DEF ContentLength
    <3>2. CASE c # 0
      <4>1. PICK i \in 1 .. e : m[i] = c /\ \A j \in 1 .. e : m[j] > 0 => j = i
        BY <3>2 DEF Asks
      <4>2. {j \in 1 .. e : b[j] > 0} = {i}
        BY <1>2, <2>4, <3>2, <4>1
      <4>3. Max({i}) = i
        BY DEF Max
      <4> QED
        BY <2>3, <2>4, <4>1, <4>2, <4>3 DEF ContentLength
    <3> QED
      BY <3>1, <3>2
  <2>6. CompleteSize(b) = Len(m)
    BY <1>2, <2>3, <2>5 DEF CompleteSize
  <2>7. Lines(b) # {} /\ HeaderEnds(b) # {}
    BY <2>1 DEF HeaderEnds
  <2> QED
    BY <1>5, <2>6, <2>7 DEF FrameSize
<1> QED
  BY <1>1, <1>2, <1>7, <1>8

(* A message with a start line that is none, or is too long, is refused, when
   it is complete or before; so is all that begins like it. *)
BadMessage == <<BAD>> \o Text(LINE_MAX) \o <<EOL, EOL>>

LEMMA BadIs ==
    /\ BadMessage \in Bytes /\ Len(BadMessage) = LINE_MAX + 3
    /\ BadMessage[1] = BAD
    /\ \A i \in 2 .. LINE_MAX + 1 : BadMessage[i] = 0
    /\ BadMessage[LINE_MAX + 2] = EOL /\ BadMessage[LINE_MAX + 3] = EOL
<1>1. LINE_MAX \in Nat
  BY LimitsAssumption
<1>2. Text(LINE_MAX) \in Bytes /\ Len(Text(LINE_MAX)) = LINE_MAX
      /\ \A i \in 1 .. LINE_MAX : Text(LINE_MAX)[i] = 0
  BY <1>1, TextIs
<1> DEFINE a == <<BAD>> \o Text(LINE_MAX)
<1>3. /\ a \in Bytes /\ Len(a) = LINE_MAX + 1 /\ a[1] = BAD
      /\ \A i \in 1 .. LINE_MAX : a[1 + i] = Text(LINE_MAX)[i]
  BY <1>1, <1>2 DEF Bytes, BAD
<1>4. <<EOL, EOL>> \in Bytes
  BY DEF Bytes, EOL
<1> HIDE DEF a
<1>5. /\ a \o <<EOL, EOL>> \in Bytes /\ Len(a \o <<EOL, EOL>>) = LINE_MAX + 3
      /\ \A i \in 1 .. LINE_MAX + 1 : (a \o <<EOL, EOL>>)[i] = a[i]
      /\ \A i \in 1 .. 2 : (a \o <<EOL, EOL>>)[LINE_MAX + 1 + i] = EOL
  BY <1>1, <1>3, <1>4 DEF Bytes
<1>6. BadMessage = a \o <<EOL, EOL>>
  BY DEF BadMessage, a
<1>7. \A i \in 2 .. LINE_MAX + 1 : a[i] = 0
  <2> TAKE i \in 2 .. LINE_MAX + 1
  <2>1. i - 1 \in 1 .. LINE_MAX /\ a[1 + (i - 1)] = Text(LINE_MAX)[i - 1]
    BY <1>1, <1>3
  <2> QED
    BY <1>1, <1>2, <2>1
<1> QED
  BY <1>1, <1>3, <1>5, <1>6, <1>7

LEMMA BadRefused ==
    /\ Refused(BadMessage)
    /\ \A b \in Bytes : b[1] = BAD => ~(Parse(b) > 0)
<1>1. ASSUME NEW b \in Bytes, b[1] = BAD
      PROVE  Parse(b) = IF FrameSize(b) > 0 THEN -1 ELSE FrameSize(b)
  BY <1>1 DEF Parse, DOLLAR, BAD
<1> DEFINE m == BadMessage
           e == LINE_MAX + 2
<1>2. LINE_MAX \in Nat
  BY LimitsAssumption
<1>3. e \in HeaderEnds(m) /\ \A i \in HeaderEnds(m) : i \in Nat /\ e <= i
  <2>1. e \in HeaderEnds(m)
    BY <1>2, BadIs DEF HeaderEnds, Lines
  <2>2. \A i \in HeaderEnds(m) : i \in Nat /\ e <= i
    <3> SUFFICES ASSUME NEW i \in 1 .. LINE_MAX + 1 PROVE m[i] # EOL
      BY <1>2, BadIs DEF HeaderEnds, Lines
    <3> QED
      BY <1>2, BadIs DEF EOL, BAD
  <2> QED
    BY <2>1, <2>2
<1>4. Min(HeaderEnds(m)) = e
  BY <1>2, <1>3, LeastIs
<1>5. ContentLength(m) = 0
  <2>1. \A i \in 1 .. e : ~(m[i] > 0)
    BY <1>2, BadIs DEF EOL, BAD
  <2> QED
    BY <1>4, <2>1 DEF ContentLength
<1>6. FrameSize(m) = LINE_MAX + 3
  <2>1. CompleteSize(m) = LINE_MAX + 3
    BY <1>2, <1>4, <1>5 DEF CompleteSize
  <2>2. Lines(m) # {} /\ HeaderEnds(m) # {}
    BY <1>3 DEF HeaderEnds
  <2> QED
    BY <1>2, <2>1, <2>2, BadIs DEF FrameSize
<1>7. Refused(m)
  BY <1>1, <1>2, <1>6, BadIs DEF Refused
<1>8. ASSUME NEW b \in Bytes, b[1] = BAD PROVE ~(Parse(b) > 0)
  <2>1. CASE FrameSize(b) > 0
    BY <1>1, <1>8, <2>1
  <2>2. CASE ~(FrameSize(b) > 0)
    BY <1>1, <1>8, <2>2
  <2> QED
    BY <2>1, <2>2
<1> QED
  BY <1>7, <1>8

LEMMA ParseInterleaved ==
    ASSUME NEW n \in BodyLengths, n # 0,
           NEW b \in Bytes, b # <<>>, Begins(b, Interleaved(n))
    PROVE  /\ Interleaved(n) \in Bytes /\ Len(Interleaved(n)) = n + 2
           /\ Interleaved(n)[1] = DOLLAR
           /\ Parse(b) = IF Len(b) < n + 2 THEN 0 ELSE n + 2
<1>1. n \in Nat
  BY LengthsAssumption
<1>2. Text(n) \in Bytes /\ Len(Text(n)) = n
  BY <1>1, TextIs
<1>3. /\ Interleaved(n) \in Bytes /\ Len(Interleaved(n)) = n + 2
      /\ Interleaved(n)[1] = DOLLAR /\ Interleaved(n)[2] = n
  BY <1>1, <1>2 DEF Interleaved, Bytes, DOLLAR
<1>4. Len(b) \in Nat /\ Len(b) >= 1
  BY DEF Bytes
<1>5. b[1] = DOLLAR /\ (Len(b) >= 2 => b[2] = n)
  BY <1>1, <1>3, <1>4 DEF Begins
<1>6. CASE Len(b) < 2
  BY <1>1, <1>3, <1>4, <1>5, <1>6 DEF Parse
<1>7. CASE Len(b) >= 2
  BY <1>1, <1>3, <1>4, <1>5, <1>7 DEF Parse
<1> QED
  BY <1>4, <1>6, <1>7

(* So each message of the client is taken whole, waited for, or refused for
   its own sake. No part of a good one is refused, since a line may be longer
   than the part of it without an end, and reqbuf holds no header that is too
   long. *)
LEMMA ParseMessage ==
    ASSUME NEW m \in Message, NEW b \in Bytes, b # <<>>, Begins(b, m),
           LINE_MAX >= 1, Len(b) <= HDR_MAX
    PROVE  /\ m \in Bytes /\ Len(m) > 0
           /\ Parse(b) > 0 => Parse(b) = Len(m) /\ Len(m) <= Len(b)
           /\ Parse(b) < 0 => Refused(m)
<1>1. ASSUME NEW e, NEW c, Asks(m, e, c)
      PROVE  /\ m \in Bytes /\ Len(m) > 0
             /\ Parse(b) > 0 => Parse(b) = Len(m) /\ Len(m) <= Len(b)
             /\ Parse(b) < 0 => Refused(m)
  <2>1. m \in Bytes /\ Len(m) \in Nat /\ Len(m) > 0
    BY <1>1 DEF Asks
  <2>2. Parse(b) = IF Len(b) < Len(m) THEN 0 ELSE Len(m)
    BY <1>1, ParseRequest
  <2> QED
    BY <2>1, <2>2 DEF Bytes
<1>2. CASE \E h \in HeaderLengths, n \in BodyLengths : m = Request(h, n)
  BY <1>1, <1>2, RequestAsks
<1>3. CASE m = <<TEARDOWN, EOL, EOL>>
  <2>1. m \in Bytes /\ Len(m) = 3 /\ m[1] = -5 /\ m[2] = -1 /\ m[3] = -1
    BY <1>3 DEF Bytes, TEARDOWN, EOL
  <2>2. \A i \in 1 .. 1 : ~(m[i] = EOL /\ m[i + 1] = EOL)
    BY <2>1 DEF EOL
  <2>3. \A i \in 1 .. 2 : m[i] <= 0
    BY <2>1
  <2>4. Asks(m, 2, 0)
    BY <2>1, <2>2, <2>3 DEF Asks, EOL, DOLLAR, BAD
  <2> QED
    BY <1>1, <2>4
<1>4. CASE m = BadMessage
  <2>1. LINE_MAX \in Nat
    BY LimitsAssumption
  <2>2. m \in Bytes /\ Len(m) = LINE_MAX + 3 /\ m[1] = BAD
    BY <1>4, BadIs
  <2>3. b[1] = BAD
    <3>1. Len(b) \in Nat /\ Len(b) >= 1
      BY DEF Bytes
    <3> QED
      BY <2>1, <2>2, <3>1 DEF Begins
  <2> QED
    BY <1>4, <2>1, <2>2, <2>3, BadRefused
<1>5. CASE \E n \in BodyLengths \ {0} : m = Interleaved(n)
  <2>1. PICK n \in BodyLengths \ {0} : m = Interleaved(n)
    BY <1>5
  <2>2. n \in Nat /\ Len(b) \in Nat
    BY LengthsAssumption DEF Bytes
  <2>3. /\ m \in Bytes /\ Len(m) = n + 2
        /\ Parse(b) = IF Len(b) < n + 2 THEN 0 ELSE n + 2
    BY <2>1, ParseInterleaved
  <2> QED
    BY <2>2, <2>3
<1> QED
  BY <1>2, <1>3, <1>4, <1>5 DEF Message, BadMessage

-----------------------------------------------------------------------------
(* What has been sent and not been handled is what reqbuf, the socket and the
   network hold: the unread bytes u are the messages of ms behind the first n,
   cut after at[i] bytes in front of the i-th. *)
Cuts(at, n, ms, u) ==
    /\ at \in [n + 1 .. Len(ms) + 1 -> Nat]
    /\ \A i, j \in n + 1 .. Len(ms) + 1 : i <= j => at[i] <= at[j]
    /\ at[n + 1] = 0 /\ at[Len(ms) + 1] = Len(u)
    /\ \A i \in n + 1 .. Len(ms) :
          /\ at[i + 1] = at[i] + Len(ms[i])
          /\ \A j \in 1 .. Len(ms[i]) : u[at[i] + j] = ms[i][j]

Unread == reqbuf \o (sockbuf \o net)

Buffers ==
    /\ sent \in Seq(Message) /\ handled \in Seq(Bytes)
    /\ net \in Bytes /\ sockbuf \in Bytes /\ reqbuf \in Bytes
    /\ Len(reqbuf) < REQBUF
    /\ closed \in BOOLEAN /\ serving \in {"idle", "serve", "deleted"}

InStep ==
    /\ Len(handled) <= Len(sent)
    /\ \A i \in 1 .. Len(handled) : handled[i] = sent[i]
    /\ \E at : Cuts(at, Len(handled), sent, Unread)

DeletedForCause ==
    serving = "deleted" =>
        closed \/ (Len(handled) < Len(sent) /\ Refused(sent[Len(handled) + 1]))

ReceiveInv == Buffers /\ InStep /\ DeletedForCause

(* The sequences of the buffers, apart and together. *)
LEMMA JoinedTwice ==
    ASSUME NEW r \in Bytes, NEW s \in Bytes, NEW t \in Bytes
    PROVE  (r \o s) \o t = r \o (s \o t)
  BY DEF Bytes

LEMMA SplitBytes ==
    ASSUME NEW s \in Bytes, NEW k \in 0 .. Len(s)
    PROVE  /\ SubSeq(s, 1, k) \in Bytes /\ Len(SubSeq(s, 1, k)) = k
           /\ \A i \in 1 .. k : SubSeq(s, 1, k)[i] = s[i]
           /\ SubSeq(s, k + 1, Len(s)) \in Bytes /\ Len(SubSeq(s, k + 1, Len(s))) = Len(s) - k
           /\ \A i \in 1 .. Len(s) - k : SubSeq(s, k + 1, Len(s))[i] = s[k + i]
           /\ SubSeq(s, 1, k) \o SubSeq(s, k + 1, Len(s)) = s
<1>1. Len(s) \in Nat /\ \A i \in 1 .. Len(s) : s[i] \in Int
  BY DEF Bytes
<1> DEFINE a == SubSeq(s, 1, k)
           b == SubSeq(s, k + 1, Len(s))
<1>2. a \in Bytes /\ Len(a) = k /\ \A i \in 1 .. k : a[i] = s[i]
  BY <1>1 DEF Bytes
<1>3. b \in Bytes /\ Len(b) = Len(s) - k /\ \A i \in 1 .. Len(s) - k : b[i] = s[k + i]
  BY <1>1 DEF Bytes
<1> HIDE DEF a, b
<1>4. /\ a \o b \in Bytes /\ Len(a \o b) = Len(s)
      /\ \A i \in 1 .. k : (a \o b)[i] = s[i]
      /\ \A i \in 1 .. Len(s) - k : (a \o b)[k + i] = s[k + i]
  BY <1>1, <1>2, <1>3, JoinedBytes
<1> DEFINE c == a \o b
<1>5. c \in Seq(Int) /\ s \in Seq(Int) /\ Len(c) = Len(s) /\ k \in Nat /\ k <= Len(s)
  BY <1>1, <1>4 DEF Bytes
<1>6. /\ \A i \in 1 .. k : c[i] = s[i]
      /\ \A i \in 1 .. Len(s) - k : c[k + i] = s[k + i]
  BY <1>4
<1> HIDE DEF c
<1>7. ASSUME NEW i \in 1 .. Len(c) PROVE c[i] = s[i]
  <2>1. CASE i <= k
    BY <1>5, <1>6, <2>1
  <2>2. CASE i > k
    <3>1. i - k \in 1 .. Len(s) - k /\ k + (i - k) = i
      BY <1>1, <1>5, <2>2
    <3> QED
      BY <1>6, <3>1
  <2> QED
    BY <1>5, <2>1, <2>2
<1>8. c = s
  BY <1>5, <1>7, SeqEqual
<1> QED
  BY <1>2, <1>3, <1>8 DEF a, b, c

(* One message more at the end, and one fewer in front. *)
LEMMA CutsAppend ==
    ASSUME NEW n \in Nat, NEW ms \in Seq(Bytes), NEW u \in Bytes, n <= Len(ms),
           \E at : Cuts(at, n, ms, u), NEW m \in Bytes
    PROVE  \E at : Cuts(at, n, Append(ms, m), u \o m)
<1>1. PICK at : Cuts(at, n, ms, u)
  OBVIOUS
<1> DEFINE k == Len(ms)
           v == u \o m
           app == Append(ms, m)
           new == [i \in n + 1 .. k + 2 |-> IF i = k + 2 THEN Len(u) + Len(m) ELSE at[i]]
<1>2. /\ k \in Nat /\ Len(u) \in Nat /\ Len(m) \in Nat
      /\ \A i \in 1 .. k : Len(ms[i]) \in Nat
  BY DEF Bytes
<1>3. Len(app) = k + 1 /\ app[k + 1] = m /\ \A i \in 1 .. k : app[i] = ms[i]
  OBVIOUS
<1>4. /\ Len(v) = Len(u) + Len(m)
      /\ \A i \in 1 .. Len(u) : v[i] = u[i]
      /\ \A i \in 1 .. Len(m) : v[Len(u) + i] = m[i]
  BY JoinedBytes
<1>5. /\ at \in [n + 1 .. k + 1 -> Nat]
      /\ \A i, j \in n + 1 .. k + 1 : i <= j => at[i] <= at[j]
      /\ at[n + 1] = 0 /\ at[k + 1] = Len(u)
      /\ \A i \in n + 1 .. k :
            /\ at[i + 1] = at[i] + Len(ms[i])
            /\ \A j \in 1 .. Len(ms[i]) : u[at[i] + j] = ms[i][j]
  BY <1>1 DEF Cuts
<1>6. n <= k
  OBVIOUS
<1> HIDE DEF v, k, app
<1>7. /\ new \in [n + 1 .. k + 2 -> Nat]
      /\ new[k + 2] = Len(u) + Len(m)
      /\ \A i \in n + 1 .. k + 1 : new[i] = at[i]
  BY <1>2, <1>5, <1>6, SMTT(30)
<1> HIDE DEF new
<1>8. \A i, j \in n + 1 .. k + 2 : i <= j => new[i] <= new[j]
  <2> SUFFICES ASSUME NEW i \in n + 1 .. k + 2, NEW j \in n + 1 .. k + 2, i <= j
               PROVE  new[i] <= new[j]
    OBVIOUS
  <2>1. CASE j <= k + 1
    BY <1>2, <1>5, <1>7, <2>1
  <2>2. CASE j = k + 2 /\ i <= k + 1
    <3>1. at[i] <= at[k + 1]
      BY <1>2, <1>5, <1>6, <2>2
    <3> QED
      BY <1>2, <1>5, <1>7, <2>2, <3>1
  <2>3. CASE j = k + 2 /\ i = k + 2
    BY <1>2, <1>7, <2>3
  <2> QED
    BY <1>2, <2>1, <2>2, <2>3
<1>9. new[n + 1] = 0 /\ new[(k + 1) + 1] = Len(v)
  BY <1>2, <1>4, <1>5, <1>6, <1>7
<1>10. ASSUME NEW i \in n + 1 .. k
       PROVE  /\ new[i + 1] = new[i] + Len(app[i])
              /\ \A j \in 1 .. Len(app[i]) : v[new[i] + j] = app[i][j]
  <2>1. app[i] = ms[i] /\ new[i] = at[i] /\ new[i + 1] = at[i + 1] /\ Len(ms[i]) \in Nat
    BY <1>2, <1>3, <1>7
  <2>2. at[i] \in Nat /\ at[i + 1] = at[i] + Len(ms[i]) /\ at[i + 1] <= Len(u)
    BY <1>2, <1>5, <1>6
  <2>3. ASSUME NEW j \in 1 .. Len(ms[i]) PROVE v[at[i] + j] = ms[i][j]
    <3>1. at[i] + j \in 1 .. Len(u)
      BY <1>2, <2>1, <2>2, SMTT(30)
    <3> QED
      BY <1>4, <1>5, <3>1
  <2> QED
    BY <2>1, <2>2, <2>3
<1>11. /\ new[k + 2] = new[k + 1] + Len(app[k + 1])
       /\ \A j \in 1 .. Len(app[k + 1]) : v[new[k + 1] + j] = app[k + 1][j]
  <2>1. k + 1 \in n + 1 .. k + 1
    BY <1>2, <1>6
  <2>2. new[k + 1] = Len(u)
    BY <1>5, <1>7, <2>1
  <2> QED
    BY <1>2, <1>3, <1>4, <1>7, <2>2
<1>12. ASSUME NEW i \in n + 1 .. k + 1
       PROVE  /\ new[i + 1] = new[i] + Len(app[i])
              /\ \A j \in 1 .. Len(app[i]) : v[new[i] + j] = app[i][j]
  <2>1. CASE i = k + 1
    BY <1>2, <1>11, <2>1
  <2>2. CASE i # k + 1
    <3>1. i \in n + 1 .. k
      BY <1>2, <2>2
    <3> QED
      BY <1>10, <3>1
  <2> QED
    BY <2>1, <2>2
<1>13. Cuts(new, n, app, v)
  BY <1>2, <1>3, <1>7, <1>8, <1>9, <1>12 DEF Cuts
<1> QED
  BY <1>13 DEF app, v

LEMMA CutsTake ==
    ASSUME NEW n \in Nat, NEW ms \in Seq(Bytes), NEW u \in Bytes, n < Len(ms),
           NEW at, Cuts(at, n, ms, u), NEW v \in Bytes,
           NEW l \in Nat, l = Len(ms[n + 1]), Len(v) = Len(u) - l,
           \A i \in 1 .. Len(v) : v[i] = u[l + i]
    PROVE  \E new : Cuts(new, n + 1, ms, v)
<1> DEFINE k == Len(ms)
           new == [i \in n + 2 .. k + 1 |-> at[i] - l]
<1>1. /\ k \in Nat /\ Len(u) \in Nat /\ Len(v) \in Nat
      /\ \A i \in 1 .. k : Len(ms[i]) \in Nat
  BY DEF Bytes
<1>2. n < k
  BY <1>1
<1>3. /\ at \in [n + 1 .. k + 1 -> Nat]
      /\ \A i, j \in n + 1 .. k + 1 : i <= j => at[i] <= at[j]
      /\ at[n + 1] = 0 /\ at[k + 1] = Len(u)
      /\ \A i \in n + 1 .. k :
            /\ at[i + 1] = at[i] + Len(ms[i])
            /\ \A j \in 1 .. Len(ms[i]) : u[at[i] + j] = ms[i][j]
  BY DEF Cuts
<1> HIDE DEF k
<1>4. at[n + 2] = l
  BY <1>1, <1>2, <1>3
<1>5. \A i \in n + 2 .. k + 1 : at[i] \in Nat /\ l <= at[i] /\ at[i] <= Len(u)
  BY <1>1, <1>2, <1>3, <1>4
<1>6. new \in [n + 2 .. k + 1 -> Nat] /\ \A i \in n + 2 .. k + 1 : new[i] = at[i] - l
  BY <1>2, <1>5
<1> HIDE DEF new
<1>7. \A i, j \in n + 2 .. k + 1 : i <= j => new[i] <= new[j]
  <2> SUFFICES ASSUME NEW i \in n + 2 .. k + 1, NEW j \in n + 2 .. k + 1, i <= j
               PROVE  new[i] <= new[j]
    OBVIOUS
  <2>1. at[i] <= at[j]
    BY <1>1, <1>3
  <2>2. new[i] = at[i] - l /\ new[j] = at[j] - l /\ at[i] \in Nat /\ at[j] \in Nat
    BY <1>5, <1>6
  <2> QED
    BY <2>1, <2>2
<1>8. new[n + 2] = 0 /\ new[k + 1] = Len(v)
  <2>1. n + 2 \in n + 2 .. k + 1 /\ k + 1 \in n + 2 .. k + 1
    BY <1>1, <1>2
  <2>2. new[n + 2] = at[n + 2] - l /\ new[k + 1] = at[k + 1] - l
    BY <1>6, <2>1
  <2>3. at[k + 1] = Len(u) /\ at[n + 2] = l
    BY <1>3, <1>4
  <2> QED
    BY <1>1, <2>2, <2>3
<1>9. ASSUME NEW i \in n + 2 .. k
      PROVE  /\ new[i + 1] = new[i] + Len(ms[i])
             /\ \A j \in 1 .. Len(ms[i]) : v[new[i] + j] = ms[i][j]
  <2>1. /\ new[i] = at[i] - l /\ new[i + 1] = at[i + 1] - l /\ Len(ms[i]) \in Nat
        /\ at[i] \in Nat /\ l <= at[i] /\ at[i + 1] <= Len(u)
        /\ at[i + 1] = at[i] + Len(ms[i])
    <3>1. /\ i \in n + 2 .. k + 1 /\ i + 1 \in n + 2 .. k + 1
          /\ i \in n + 1 .. k /\ i \in 1 .. k
      BY <1>1, <1>2
    <3> QED
      BY <1>1, <1>3, <1>5, <1>6, <3>1
  <2>2. ASSUME NEW j \in 1 .. Len(ms[i]) PROVE v[new[i] + j] = ms[i][j]
    <3>1. new[i] + j \in 1 .. Len(v) /\ l + (new[i] + j) = at[i] + j
      <4>1. j \in Nat /\ j >= 1 /\ j <= Len(ms[i])
        BY <2>1
      <4>2. ASSUME NEW x \in Nat, NEW y \in Nat, NEW w \in Nat, l <= x, x + y <= w, j <= y
            PROVE  (x - l) + j \in 1 .. w - l /\ l + ((x - l) + j) = x + j
        BY <4>1, <4>2
      <4>3. /\ at[i] \in Nat /\ Len(ms[i]) \in Nat /\ Len(u) \in Nat
            /\ l <= at[i] /\ at[i] + Len(ms[i]) <= Len(u)
        BY <1>1, <2>1
      <4>4. (at[i] - l) + j \in 1 .. Len(u) - l /\ l + ((at[i] - l) + j) = at[i] + j
        BY <4>1, <4>2, <4>3
      <4>5. new[i] = at[i] - l /\ Len(v) = Len(u) - l
        BY <2>1
      <4> QED
        BY <4>4, <4>5
    <3>2. v[new[i] + j] = u[l + (new[i] + j)]
      BY <3>1
    <3>3. i \in n + 1 .. k
      BY <1>1
    <3> QED
      BY <1>3, <3>1, <3>2, <3>3
  <2>3. at[i + 1] - l = (at[i] - l) + Len(ms[i])
    BY <1>2, <2>1
  <2> QED
    BY <2>1, <2>2, <2>3
<1>10. Cuts(new, n + 1, ms, v)
  BY <1>1, <1>2, <1>6, <1>7, <1>8, <1>9 DEF Cuts, k
<1> QED
  BY <1>10

LEMMA MessagesAreBytes == \A m \in Message : m \in Bytes /\ Len(m) > 0
<1> SUFFICES ASSUME NEW m \in Message PROVE m \in Bytes /\ Len(m) > 0
  OBVIOUS
<1>1. CASE \E h \in HeaderLengths, n \in BodyLengths : m = Request(h, n)
  <2>1. PICK h \in HeaderLengths, n \in BodyLengths : m = Request(h, n)
    BY <1>1
  <2>2. PICK e : Asks(m, e, n)
    BY <2>1, RequestAsks
  <2> QED
    BY <2>2 DEF Asks
<1>2. CASE m = <<TEARDOWN, EOL, EOL>>
  BY <1>2 DEF Bytes, TEARDOWN, EOL
<1>3. CASE m = BadMessage
  BY <1>3, BadIs, LimitsAssumption
<1>4. CASE \E n \in BodyLengths \ {0} : m = Interleaved(n)
  <2>1. PICK n \in BodyLengths \ {0} : m = Interleaved(n)
    BY <1>4
  <2>2. n \in Nat
    BY LengthsAssumption
  <2>3. Text(n) \in Bytes /\ Len(Text(n)) = n
    BY <2>2, TextIs
  <2> QED
    BY <2>1, <2>2, <2>3 DEF Interleaved, Bytes, DOLLAR
<1> QED
  BY <1>1, <1>2, <1>3, <1>4 DEF Message, BadMessage

-----------------------------------------------------------------------------
(* Steps that leave messages and the bytes on their way alone. *)
LEMMA ReceiveUnchanged ==
    ASSUME ReceiveInv, UNCHANGED <<sent, handled>>, Buffers', Unread' = Unread,
           serving' = "deleted" => serving = "deleted" \/ closed', closed => closed'
    PROVE  ReceiveInv'
<1>1. InStep'
  BY DEF ReceiveInv, InStep
<1>2. DeletedForCause'
  BY DEF ReceiveInv, DeletedForCause
<1> QED
  BY <1>1, <1>2 DEF ReceiveInv

LEMMA TalkKeepsReceiveInv ==
    ASSUME ReceiveInv, ClientSend, serving # "deleted"
    PROVE  ReceiveInv'
<1>1. PICK m \in Message : sent' = Append(sent, m) /\ net' = net \o m
  BY DEF ClientSend
<1>2. UNCHANGED <<sockbuf, closed, reqbuf, handled, serving>>
  BY DEF ClientSend
<1>3. m \in Bytes
  BY MessagesAreBytes
<1>4. /\ sent \in Seq(Message) /\ handled \in Seq(Bytes)
      /\ net \in Bytes /\ sockbuf \in Bytes /\ reqbuf \in Bytes
      /\ Len(handled) <= Len(sent)
  BY DEF ReceiveInv, Buffers, InStep
<1>5. sent \in Seq(Bytes) /\ Len(handled) \in Nat /\ Len(sent) \in Nat
  BY <1>4, MessagesAreBytes
<1>6. Buffers'
  <2>1. sent' \in Seq(Message)
    BY <1>1, <1>4
  <2>2. net' \in Bytes
    BY <1>1, <1>3, <1>4, JoinedBytes
  <2> QED
    BY <1>2, <2>1, <2>2 DEF ReceiveInv, Buffers
<1>7. InStep'
  <2>1. Unread \in Bytes /\ Unread' = Unread \o m
    <3>1. sockbuf \o net \in Bytes
      BY <1>4, JoinedBytes
    <3>2. sockbuf \o (net \o m) = (sockbuf \o net) \o m
      BY <1>3, <1>4, JoinedTwice, SMTT(30)
    <3>3. reqbuf \o ((sockbuf \o net) \o m) = (reqbuf \o (sockbuf \o net)) \o m
      BY <1>3, <1>4, <3>1, JoinedTwice, ZenonT(60)
    <3>4. reqbuf \o (sockbuf \o net) \in Bytes
      BY <1>4, <3>1, JoinedBytes
    <3> QED
      BY <1>1, <1>2, <3>2, <3>3, <3>4 DEF Unread
  <2>2. \E at : Cuts(at, Len(handled), sent, Unread)
    BY DEF ReceiveInv, InStep
  <2>3. \E at : Cuts(at, Len(handled), Append(sent, m), Unread \o m)
    BY <1>3, <1>4, <1>5, <2>1, <2>2, CutsAppend
  <2>4. \E at : Cuts(at, Len(handled), sent, Unread)'
    BY <1>1, <1>2, <2>1, <2>3
  <2>5. /\ Len(handled') <= Len(sent')
        /\ \A i \in 1 .. Len(handled') : handled'[i] = sent'[i]
    BY <1>1, <1>2, <1>4, <1>5 DEF ReceiveInv, InStep
  <2> QED
    BY <2>4, <2>5 DEF InStep
<1>8. DeletedForCause'
  BY <1>2 DEF DeletedForCause
<1> QED
  BY <1>6, <1>7, <1>8 DEF ReceiveInv

LEMMA ArriveKeepsReceiveInv ==
    ASSUME ReceiveInv, Arrive
    PROVE  ReceiveInv'
<1>1. PICK k \in 1 .. Len(net) : /\ sockbuf' = sockbuf \o SubSeq(net, 1, k)
                                 /\ net' = SubSeq(net, k + 1, Len(net))
  BY DEF Arrive
<1>2. UNCHANGED <<sent, closed, reqbuf, handled, serving>>
  BY DEF Arrive
<1>3. net \in Bytes /\ sockbuf \in Bytes /\ k \in 0 .. Len(net)
  BY DEF ReceiveInv, Buffers, Bytes
<1> DEFINE a == SubSeq(net, 1, k)
           b == SubSeq(net, k + 1, Len(net))
<1>4. a \in Bytes /\ b \in Bytes /\ a \o b = net
  BY <1>3, SplitBytes
<1> HIDE DEF a, b
<1>5. sockbuf' = sockbuf \o a /\ net' = b
  BY <1>1 DEF a, b
<1>6. sockbuf' \in Bytes /\ sockbuf' \o net' = sockbuf \o net
  BY <1>3, <1>4, <1>5, JoinedBytes, JoinedTwice
<1>7. Buffers'
  BY <1>2, <1>4, <1>5, <1>6 DEF ReceiveInv, Buffers
<1>8. Unread' = Unread
  BY <1>2, <1>6 DEF Unread
<1> QED
  BY <1>2, <1>7, <1>8, ReceiveUnchanged

(* rtsp_recv_msg: what is taken off reqbuf is the next message, whole. *)
LEMMA RecvKeepsReceiveInv ==
    ASSUME ReceiveInv, RecvMsg, LINE_MAX >= 1, REQBUF <= HDR_MAX + 1
    PROVE  ReceiveInv'
<1> DEFINE k == IF Len(sockbuf) < Room THEN Len(sockbuf) ELSE Room
           a == SubSeq(sockbuf, 1, k)
           r == SubSeq(sockbuf, k + 1, Len(sockbuf))
           b == reqbuf \o a
           ret == IF b = <<>> THEN 0 ELSE Parse(b)
           n == Len(handled)
           u == Unread
<1>1. /\ sockbuf' = r
      /\ reqbuf' = IF ret > 0 THEN SubSeq(b, ret + 1, Len(b)) ELSE b
      /\ handled' = IF ret > 0 THEN Append(handled, SubSeq(b, 1, ret)) ELSE handled
      /\ serving' = NextServing(ret)
      /\ serving = "serve" /\ UNCHANGED <<sent, net, closed>>
  BY DEF RecvMsg
<1>2. /\ sent \in Seq(Message) /\ handled \in Seq(Bytes)
      /\ net \in Bytes /\ sockbuf \in Bytes /\ reqbuf \in Bytes
      /\ n <= Len(sent) /\ Len(reqbuf) < REQBUF /\ closed \in BOOLEAN
  BY DEF ReceiveInv, Buffers, InStep
<1>3. /\ sent \in Seq(Bytes) /\ n \in Nat /\ Len(sent) \in Nat
      /\ Len(reqbuf) \in Nat /\ Len(sockbuf) \in Nat /\ REQBUF \in Nat /\ HDR_MAX \in Nat
  BY <1>2, MessagesAreBytes, LimitsAssumption DEF Bytes
<1>4. k \in 0 .. Len(sockbuf) /\ Len(reqbuf) + k < REQBUF
  BY <1>2, <1>3 DEF Room
<1> HIDE DEF k
<1>5. a \in Bytes /\ Len(a) = k /\ r \in Bytes /\ a \o r = sockbuf
  BY <1>2, <1>4, SplitBytes
<1> HIDE DEF a, r
<1>6. b \in Bytes /\ Len(b) \in Nat /\ Len(b) < REQBUF /\ Len(b) <= HDR_MAX
  <2>1. b \in Bytes /\ Len(b) = Len(reqbuf) + k
    BY <1>2, <1>5, JoinedBytes
  <2> QED
    BY <1>3, <1>4, <2>1
<1>7. r \o net \in Bytes /\ u \in Bytes /\ u = b \o (r \o net)
  <2>1. r \o net \in Bytes /\ sockbuf \o net \in Bytes
    BY <1>2, <1>5, JoinedBytes
  <2>2. sockbuf \o net = a \o (r \o net)
    <3>1. a \in Bytes /\ r \in Bytes /\ a \o r = sockbuf
      BY <1>5
    <3>2. a \in Bytes /\ r \in Bytes /\ net \in Bytes
      BY <1>2, <3>1
    <3>3. (a \o r) \o net = a \o (r \o net)
      BY <3>2, JoinedTwice, Zenon
    <3> QED
      BY <3>1, <3>3
  <2>3. reqbuf \o (a \o (r \o net)) = b \o (r \o net)
    <3>1. reqbuf \in Bytes /\ a \in Bytes /\ r \o net \in Bytes
      BY <1>2, <1>5, <2>1
    <3>2. (reqbuf \o a) \o (r \o net) = reqbuf \o (a \o (r \o net))
      BY <3>1, JoinedTwice, Zenon
    <3> QED
      BY <3>2 DEF b
  <2>4. u \in Bytes
    BY <1>2, <2>1, JoinedBytes DEF Unread
  <2> QED
    BY <2>1, <2>2, <2>3, <2>4 DEF Unread
<1> HIDE DEF b
<1>8. PICK at : Cuts(at, n, sent, u)
  BY DEF ReceiveInv, InStep
<1>9. /\ Len(u) = Len(b) + Len(r \o net) /\ Len(r \o net) \in Nat
      /\ \A i \in 1 .. Len(b) : u[i] = b[i]
      /\ \A i \in 1 .. Len(r \o net) : u[Len(b) + i] = (r \o net)[i]
  BY <1>6, <1>7, JoinedBytes DEF Bytes
<1> HIDE DEF u
<1>10. ASSUME b # <<>>
       PROVE  /\ n < Len(sent) /\ sent[n + 1] \in Message /\ sent[n + 1] \in Bytes
              /\ Len(sent[n + 1]) \in Nat /\ Len(sent[n + 1]) > 0
              /\ ret > 0 => ret = Len(sent[n + 1]) /\ ret <= Len(b)
              /\ ret < 0 => Refused(sent[n + 1])
              /\ \A j \in 1 .. Len(sent[n + 1]) : u[j] = sent[n + 1][j]
  <2>1. Len(u) > 0
    <3>1. Len(b) > 0
      BY <1>6, <1>10 DEF Bytes
    <3> QED
      BY <1>6, <1>9, <3>1
  <2>2. n < Len(sent)
    BY <1>2, <1>3, <1>8, <2>1 DEF Cuts
  <2> DEFINE m == sent[n + 1]
  <2>3. m \in Message /\ m \in Bytes /\ Len(m) \in Nat /\ Len(m) > 0
    <3>1. n + 1 \in 1 .. Len(sent)
      BY <1>3, <2>2
    <3>2. m \in Message
      BY <1>2, <3>1
    <3> QED
      BY <3>2, MessagesAreBytes DEF Bytes
  <2>4. \A j \in 1 .. Len(m) : u[j] = m[j]
    <3>1. n + 1 \in n + 1 .. Len(sent) /\ at[n + 1] = 0
      BY <1>3, <1>8, <2>2 DEF Cuts
    <3>2. \A j \in 1 .. Len(m) : u[at[n + 1] + j] = m[j]
      BY <1>8, <3>1 DEF Cuts
    <3>3. \A j \in 1 .. Len(m) : at[n + 1] + j = j
      BY <2>3, <3>1
    <3> QED
      BY <3>2, <3>3
  <2> HIDE DEF m
  <2>5. Begins(b, m)
    BY <1>6, <1>9, <2>3, <2>4 DEF Begins
  <2>6. ret = Parse(b)
    BY <1>10
  <2>7. /\ Parse(b) > 0 => Parse(b) = Len(m) /\ Len(m) <= Len(b)
        /\ Parse(b) < 0 => Refused(m)
    BY <1>6, <1>10, <2>3, <2>5, ParseMessage
  <2> QED
    BY <2>2, <2>3, <2>4, <2>6, <2>7 DEF m
<1>11. CASE ~(ret > 0)
  <2>1. reqbuf' = b /\ handled' = handled /\ sockbuf' = r
    BY <1>1, <1>11
  <2>2. Buffers'
    BY <1>1, <1>2, <1>5, <1>6, <2>1 DEF Buffers, NextServing
  <2>3. Unread' = u
    BY <1>1, <1>7, <2>1 DEF Unread
  <2>4. InStep'
    BY <1>1, <2>1, <2>3 DEF ReceiveInv, InStep, u
  <2>5. DeletedForCause'
    <3> SUFFICES ASSUME serving' = "deleted"
                 PROVE  Len(handled) < Len(sent) /\ Refused(sent[Len(handled) + 1])
      BY <1>1, <2>1 DEF DeletedForCause
    <3>1. ret < 0
      BY <1>1 DEF NextServing
    <3>2. b # <<>>
      BY <3>1
    <3> QED
      BY <1>10, <3>1, <3>2
  <2> QED
    BY <2>2, <2>4, <2>5 DEF ReceiveInv
<1>12. CASE ret > 0
  <2>1. b # <<>>
    BY <1>12
  <2> DEFINE m == sent[n + 1]
             l == Len(m)
  <2>2. /\ n < Len(sent) /\ m \in Message /\ m \in Bytes /\ l \in Nat /\ l > 0
        /\ ret = l /\ l <= Len(b)
        /\ \A j \in 1 .. l : u[j] = m[j]
    BY <1>10, <1>12, <2>1
  <2> HIDE DEF ret, m, l
  <2>3. /\ reqbuf' = SubSeq(b, l + 1, Len(b)) /\ handled' = Append(handled, SubSeq(b, 1, l))
        /\ sockbuf' = r /\ serving' = "serve"
    <3>1. reqbuf' = SubSeq(b, ret + 1, Len(b)) /\ handled' = Append(handled, SubSeq(b, 1, ret))
      BY <1>1, <1>12
    <3>2. serving' = "serve"
      BY <1>1, <2>2 DEF NextServing
    <3> QED
      BY <1>1, <2>2, <3>1, <3>2
  <2>4. l \in 0 .. Len(b)
    BY <1>6, <2>2
  <2> DEFINE c == SubSeq(b, 1, l)
             d == SubSeq(b, l + 1, Len(b))
  <2>5. /\ c \in Bytes /\ Len(c) = l /\ \A i \in 1 .. l : c[i] = b[i]
        /\ d \in Bytes /\ Len(d) = Len(b) - l
        /\ \A i \in 1 .. Len(b) - l : d[i] = b[l + i]
    BY <1>6, <2>4, SplitBytes
  <2> HIDE DEF c, d
  <2>6. c = m
    <3>1. c \in Seq(Int) /\ m \in Seq(Int) /\ Len(c) = Len(m)
      BY <2>2, <2>5 DEF Bytes, l
    <3>2. \A i \in 1 .. Len(c) : c[i] = m[i]
      BY <1>6, <1>9, <2>2, <2>5
    <3> QED
      BY <3>1, <3>2, SeqEqual
  <2>7. handled' = Append(handled, m) /\ reqbuf' = d
    BY <2>3, <2>6 DEF c, d
  <2>8. Buffers'
    <3>1. Len(d) < REQBUF
      BY <1>3, <1>6, <2>2, <2>5
    <3>2. handled' \in Seq(Bytes)
      BY <1>2, <2>2, <2>7
    <3> QED
      BY <1>1, <1>2, <1>5, <2>3, <2>5, <2>7, <3>1, <3>2 DEF Buffers
  <2> DEFINE v == d \o (r \o net)
  <2>9. Unread' = v
    BY <1>1, <2>3, <2>7 DEF Unread
  <2>10. /\ v \in Bytes /\ Len(v) = Len(u) - l
         /\ \A i \in 1 .. Len(v) : v[i] = u[l + i]
    <3>1. /\ v \in Bytes /\ Len(v) = Len(d) + Len(r \o net)
          /\ \A i \in 1 .. Len(d) : v[i] = d[i]
          /\ \A i \in 1 .. Len(r \o net) : v[Len(d) + i] = (r \o net)[i]
      BY <1>7, <2>5, JoinedBytes
    <3> HIDE DEF v
    <3> DEFINE w == r \o net
               lw == Len(w)
    <3>2. lw \in Nat /\ Len(v) = Len(b) - l + lw /\ Len(u) = Len(b) + lw
      BY <1>9, <2>5, <3>1
    <3>3. /\ \A i \in 1 .. lw : v[Len(d) + i] = w[i] /\ u[Len(b) + i] = w[i]
          /\ \A i \in 1 .. Len(b) : u[i] = b[i]
      BY <1>9, <3>1
    <3> HIDE DEF w, lw
    <3>4. ASSUME NEW i \in 1 .. Len(v) PROVE v[i] = u[l + i]
      <4>1. CASE i <= Len(b) - l
        <5>1. i \in 1 .. Len(d) /\ l + i \in 1 .. Len(b) /\ i \in 1 .. Len(b) - l
          BY <1>6, <2>2, <2>5, <4>1
        <5> QED
          BY <2>5, <3>1, <3>3, <5>1
      <4>2. CASE i > Len(b) - l
        <5>1. i - (Len(b) - l) \in 1 .. lw
          BY <1>6, <2>2, <3>2, <4>2
        <5>2. /\ Len(d) + (i - (Len(b) - l)) = i
              /\ Len(b) + (i - (Len(b) - l)) = l + i
          BY <1>6, <2>2, <2>5, <3>2
        <5> QED
          BY <3>3, <5>1, <5>2
      <4> QED
        BY <1>6, <2>2, <3>2, <4>1, <4>2
    <3>5. Len(v) = Len(u) - l
      BY <1>6, <2>2, <3>2
    <3> QED
      BY <3>1, <3>4, <3>5
  <2> HIDE DEF v
  <2>11. \E new : Cuts(new, n + 1, sent, v)
    BY <1>3, <1>7, <1>8, <2>2, <2>10, CutsTake DEF l, m
  <2>12. Len(handled') = n + 1
    BY <1>2, <2>7
  <2>13. \A i \in 1 .. n + 1 : handled'[i] = sent[i]
    <3>1. handled'[n + 1] = m /\ \A i \in 1 .. n : handled'[i] = handled[i]
      BY <1>2, <2>7
    <3>2. \A i \in 1 .. n : handled[i] = sent[i]
      BY DEF ReceiveInv, InStep
    <3> QED
      BY <1>3, <3>1, <3>2 DEF m
  <2>14. InStep'
    <3>1. n + 1 <= Len(sent)
      BY <1>3, <2>2
    <3>2. sent' = sent
      BY <1>1
    <3> QED
      BY <2>9, <2>11, <2>12, <2>13, <3>1, <3>2 DEF InStep
  <2>15. DeletedForCause'
    BY <2>3 DEF DeletedForCause
  <2> QED
    BY <2>8, <2>14, <2>15 DEF ReceiveInv
<1> QED
  BY <1>11, <1>12

LEMMA NextReceiveInv ==
    ASSUME LINE_MAX >= 1, REQBUF <= HDR_MAX + 1
    PROVE  ReceiveInv /\ [Next]_vars => ReceiveInv'
<1> SUFFICES ASSUME ReceiveInv, [Next]_vars
             PROVE  ReceiveInv'
  OBVIOUS
<1>1. ASSUME UNCHANGED <<sent, net, sockbuf, reqbuf, handled>>, closed' \in BOOLEAN,
             closed => closed', serving' \in {"idle", "serve", "deleted"},
             serving' = "deleted" => serving = "deleted" \/ closed'
      PROVE  ReceiveInv'
  <2>1. Buffers'
    BY <1>1 DEF ReceiveInv, Buffers
  <2>2. Unread' = Unread
    BY <1>1 DEF Unread
  <2> QED
    BY <1>1, <2>1, <2>2, ReceiveUnchanged
<1>2. ASSUME UNCHANGED receiveVars PROVE ReceiveInv'
  BY <1>1, <1>2 DEF receiveVars, ReceiveInv, Buffers
<1>3. CASE Talk
  BY <1>3, TalkKeepsReceiveInv DEF Talk, Up
<1>4. CASE Close
  BY <1>1, <1>4 DEF Close, ClientClose, ReceiveInv, Buffers
<1>5. CASE Deliver
  BY <1>5, ArriveKeepsReceiveInv DEF Deliver
<1>6. CASE Enter
  BY <1>1, <1>6 DEF Enter, Event, ReceiveInv, Buffers
<1>7. CASE Hangup
  BY <1>1, <1>7 DEF Hangup, PeerClosed, ReceiveInv, Buffers
<1>8. CASE Take
  BY <1>8, RecvKeepsReceiveInv DEF Take
<1>9. CASE Listen \/ Answer \/ TransmitHeader \/ TransmitBody \/ TransmitReport
  BY <1>2, <1>9 DEF Listen, Answer, TransmitHeader, TransmitBody, TransmitReport, Transmit
<1>10. CASE UNCHANGED vars
  BY <1>2, <1>10 DEF vars
<1> QED
  BY <1>3, <1>4, <1>5, <1>6, <1>7, <1>8, <1>9, <1>10 DEF Next

LEMMA InitReceiveInv == Init => ReceiveInv
<1> SUFFICES ASSUME Init PROVE ReceiveInv
  OBVIOUS
<1>1. /\ sent = <<>> /\ net = <<>> /\ sockbuf = <<>> /\ reqbuf = <<>> /\ handled = <<>>
      /\ closed = FALSE /\ serving = "idle"
  BY DEF Init, NothingReceived
<1>2. Buffers
  <2>1. \A S : <<>> \in Seq(S)
    OBVIOUS
  <2>2. Len(<<>>) < REQBUF
    BY LimitsAssumption
  <2> QED
    BY <1>1, <2>1, <2>2 DEF Buffers, Bytes
<1>3. Cuts([i \in {1} |-> 0], 0, <<>>, <<>>)
  BY DEF Cuts
<1>4. InStep
  <2>1. Unread = <<>>
    BY <1>1 DEF Unread
  <2> QED
    BY <1>1, <1>3, <2>1 DEF InStep
<1> QED
  BY <1>1, <1>2, <1>4 DEF ReceiveInv, DeletedForCause

(* For any sizes, wherever the network cuts the stream and however messages
   share reqbuf: the server handles the messages that were sent, in their
   order, and deletes a connection only for what the client did. What the
   code's limits must satisfy is that a line is longer than a byte, and that
   reqbuf holds no header that rtsp_msg_frame_size would refuse
   (rtsp_demo.c:1209-1249, rtsp_msg.c:799-863). *)
THEOREM MessagesHandledAsSent ==
    ASSUME LINE_MAX >= 1, REQBUF <= HDR_MAX + 1
    PROVE  Spec => []HandledAsSent
<1>1. ReceiveInv => HandledAsSent
  <2> SUFFICES ASSUME ReceiveInv
               PROVE  HandledAsSent
    OBVIOUS
  <2>1. /\ sent \in Seq(Bytes) /\ handled \in Seq(Bytes) /\ Len(handled) <= Len(sent)
        /\ \A i \in 1 .. Len(handled) : handled[i] = sent[i]
    BY MessagesAreBytes DEF ReceiveInv, Buffers, InStep
  <2> DEFINE n == Len(handled)
  <2>2. n \in Nat /\ Len(sent) \in Nat
    BY <2>1
  <2>3. SubSeq(handled, 1, n) = handled
    BY <2>1
  <2>4. SubSeq(sent, 1, n) \in Seq(Bytes) /\ Len(SubSeq(sent, 1, n)) = n
        /\ \A i \in 1 .. n : SubSeq(sent, 1, n)[i] = sent[i]
    BY <2>1, <2>2
  <2>5. SubSeq(sent, 1, n) = handled
    BY <2>1, <2>4, SeqEqual
  <2>6. IsPrefix(handled, sent)
    BY <2>1, <2>3, <2>5 DEF IsPrefix
  <2> QED
    BY <2>6 DEF ReceiveInv, DeletedForCause, HandledAsSent
<1> QED
  BY <1>1, InitReceiveInv, NextReceiveInv, PTL DEF Spec

-----------------------------------------------------------------------------
(* What a client expects that has read o bytes of frame, which is a packet
   with its header, or a response. *)
Framed == Header \o Body
Rest(frame, o) ==
    IF o = 0 \/ o = Len(frame) THEN <<>> ELSE SubSeq(frame, o + 1, Len(frame))

OnWire(frame) ==
    /\ frame \in Bytes /\ Len(frame) >= 2
    /\ \/ frame[1] = MAGIC /\ SubSeq(frame, 2, Len(frame)) = <<Size>> \o Body
       \/ frame[1] = TEXT /\ SubSeq(frame, 2, Len(frame)) = Tail(Response)
    /\ \A i \in 1 .. Len(frame) : frame[i] # TEXT + MAGIC

LEMMA BodyIs == Body \in Bytes /\ Len(Body) = Size /\ \A i \in 1 .. Size : Body[i] = 0
<1>1. Size \in Nat
  BY SizesAssumption
<1> QED
  BY <1>1 DEF Body, Bytes

LEMMA FramedIs ==
    /\ OnWire(Framed) /\ Len(Framed) = Size + 2
    /\ Framed[1] = MAGIC /\ Framed[2] = Size /\ \A i \in 1 .. Size : Framed[2 + i] = 0
    /\ Rest(Framed, 2) = Body
<1>1. Size \in Nat /\ Size > 0
  BY SizesAssumption
<1>2. Header \in Bytes /\ Len(Header) = 2 /\ Header[1] = MAGIC /\ Header[2] = Size
  BY <1>1 DEF Header, Bytes, MAGIC
<1>3. /\ Framed \in Bytes /\ Len(Framed) = Size + 2
      /\ Framed[1] = MAGIC /\ Framed[2] = Size
      /\ \A i \in 1 .. Size : Framed[2 + i] = 0
  <2>1. /\ Framed \in Bytes /\ Len(Framed) = Len(Header) + Len(Body)
        /\ \A i \in 1 .. Len(Header) : Framed[i] = Header[i]
        /\ \A i \in 1 .. Len(Body) : Framed[Len(Header) + i] = Body[i]
    BY <1>2, BodyIs, JoinedBytes DEF Framed
  <2>2. Len(Framed) = Size + 2
    BY <1>1, <1>2, <2>1, BodyIs
  <2>3. Framed[1] = MAGIC /\ Framed[2] = Size
    BY <1>2, <2>1
  <2>4. \A i \in 1 .. Size : Framed[2 + i] = Body[i]
    BY <1>2, <2>1, BodyIs
  <2>5. \A i \in 1 .. Size : Framed[2 + i] = 0
    BY <2>4, BodyIs
  <2> QED
    BY <2>1, <2>2, <2>3, <2>5
<1>4. SubSeq(Framed, 2, Len(Framed)) = <<Size>> \o Body
  <2> DEFINE a == SubSeq(Framed, 2, Len(Framed))
             b == <<Size>> \o Body
  <2>1. a \in Seq(Int) /\ Len(a) = Size + 1 /\ \A i \in 1 .. Size + 1 : a[i] = Framed[i + 1]
    BY <1>1, <1>3 DEF Bytes
  <2>2. b \in Seq(Int) /\ Len(b) = Size + 1 /\ b[1] = Size /\ \A i \in 1 .. Size : b[1 + i] = 0
    BY <1>1, BodyIs DEF Bytes
  <2> HIDE DEF a, b
  <2>3. ASSUME NEW i \in 1 .. Len(a) PROVE a[i] = b[i]
    <3>1. CASE i = 1
      BY <1>1, <1>3, <2>1, <2>2, <3>1
    <3>2. CASE i > 1
      <4>1. i - 1 \in 1 .. Size /\ i = 1 + (i - 1) /\ i + 1 = 2 + (i - 1)
        BY <1>1, <2>1, <3>2
      <4>2. b[i] = 0 /\ Framed[i + 1] = 0
        BY <1>3, <2>2, <4>1
      <4> QED
        BY <2>1, <4>2
    <3> QED
      BY <1>1, <2>1, <3>1, <3>2
  <2>4. a = b
    BY <2>1, <2>2, <2>3, SeqEqual
  <2> QED
    BY <2>4 DEF a, b
<1>5. \A i \in 1 .. Len(Framed) : Framed[i] # TEXT + MAGIC
  <2> SUFFICES ASSUME NEW i \in 1 .. Size + 2 PROVE Framed[i] \in Nat \/ Framed[i] = MAGIC
    BY <1>3 DEF TEXT, MAGIC
  <2>1. CASE i <= 2
    BY <1>1, <1>3, <2>1
  <2>2. CASE i > 2
    <3>1. i - 2 \in 1 .. Size /\ i = 2 + (i - 2)
      BY <1>1, <2>2
    <3> QED
      BY <1>3, <3>1
  <2> QED
    BY <1>1, <2>1, <2>2
<1>6. Rest(Framed, 2) = Body
  <2>1. Rest(Framed, 2) = SubSeq(Framed, 3, Size + 2)
    BY <1>1, <1>3 DEF Rest
  <2> DEFINE a == SubSeq(Framed, 3, Size + 2)
  <2>2. a \in Seq(Int) /\ Len(a) = Size /\ \A i \in 1 .. Size : a[i] = Framed[2 + i]
    BY <1>1, <1>3 DEF Bytes
  <2> HIDE DEF a
  <2>3. \A i \in 1 .. Len(a) : a[i] = Body[i]
    BY <1>1, <1>3, <2>2, BodyIs
  <2>4. a = Body
    BY <2>2, <2>3, BodyIs, SeqEqual DEF Bytes
  <2> QED
    BY <2>1, <2>4 DEF a
<1>7. OnWire(Framed)
  BY <1>1, <1>3, <1>4, <1>5 DEF OnWire
<1> QED
  BY <1>3, <1>6, <1>7

LEMMA ResponseIs ==
    OnWire(Response) /\ Len(Response) = 2 /\ Response[1] = TEXT /\ Response[2] = TEXT
<1>1. /\ Response \in Bytes /\ Len(Response) = 2
      /\ Response[1] = TEXT /\ Response[2] = TEXT
  BY DEF Response, Bytes, TEXT
<1>2. SubSeq(Response, 2, Len(Response)) = Tail(Response)
  <2>1. Response \in Seq(Int) /\ Response # <<>>
    BY DEF Response, TEXT
  <2> QED
    BY <2>1, TailIsSubSeq
<1> QED
  BY <1>1, <1>2 DEF OnWire, TEXT, MAGIC

LEMMA EmptyIs == \A s \in Seq(Int) : s = <<>> <=> Len(s) = 0
  OBVIOUS

(* One byte. *)
LEMMA ReadByte ==
    ASSUME NEW frame, OnWire(frame), NEW o \in 0 .. Len(frame) - 1, NEW h \in Nat
    PROVE  Read([rest |-> Rest(frame, o), heard |-> h], frame[o + 1]) =
             [rest |-> Rest(frame, o + 1),
              heard |-> h + IF o + 1 = Len(frame) /\ frame[o + 1] = TEXT THEN 1 ELSE 0]
<1> DEFINE r == [rest |-> Rest(frame, o), heard |-> h]
           l == Len(frame)
           b == frame[o + 1]
<1>1. l \in Nat /\ l >= 2 /\ o \in Nat /\ o < l /\ frame \in Seq(Int)
  BY DEF OnWire, Bytes
<1>2. r.rest = Rest(frame, o) /\ r.heard = h
  OBVIOUS
<1>3. CASE o = 0
  <2>0. Rest(frame, 0) = <<>>
    BY DEF Rest
  <2>1. r.rest = <<>> /\ b = frame[1] /\ o + 1 = 1 /\ 1 # l /\ 1 + 1 = 2
    <3>1. o + 1 = 1 /\ 1 # l /\ 1 + 1 = 2
      <4>1. o + 1 = 1 /\ 1 + 1 = 2
        BY <1>3
      <4>2. 1 # l
        <5> HIDE DEF l
        <5> QED
          BY <1>1
      <4> QED
        BY <4>1, <4>2
    <3>2. r.rest = <<>>
      BY <1>2, <1>3, <2>0
    <3>3. b = frame[1]
      BY <3>1
    <3> QED
      BY <3>1, <3>2, <3>3
  <2>2. Rest(frame, 1) = SubSeq(frame, 2, l)
    BY <2>1 DEF Rest
  <2>3. (IF b = MAGIC THEN <<Size>> \o Body ELSE IF b = TEXT THEN Tail(Response) ELSE Lost)
           = Rest(frame, 1)
    <3> DEFINE rest == Rest(frame, 1)
    <3>1. \/ b = MAGIC /\ rest = <<Size>> \o Body
          \/ b = TEXT /\ rest = Tail(Response)
      BY <2>1, <2>2 DEF OnWire
    <3> HIDE DEF rest, b
    <3>2. TEXT # MAGIC
      BY DEF TEXT, MAGIC
    <3>3. (IF b = MAGIC THEN <<Size>> \o Body ELSE IF b = TEXT THEN Tail(Response) ELSE Lost) = rest
      BY <3>1, <3>2
    <3> QED
      BY <3>3 DEF rest, b
  <2>4. Read(r, b) = [r EXCEPT !.rest = Rest(frame, 1)]
    BY <2>1, <2>3 DEF Read
  <2>5. [r EXCEPT !.rest = Rest(frame, 1)] = [rest |-> Rest(frame, 1), heard |-> h]
    OBVIOUS
  <2>6. h + 0 = h
    OBVIOUS
  <2>7. h = h + IF o + 1 = l /\ b = TEXT THEN 1 ELSE 0
    BY <2>1, <2>6
  <2>8. Read(r, b) = [rest |-> Rest(frame, o + 1), heard |-> h]
    BY <2>1, <2>4, <2>5
  <2> QED
    BY <2>7, <2>8
<1>4. CASE o > 0
  <2> DEFINE s == SubSeq(frame, o + 1, l)
  <2>1. /\ s \in Seq(Int) /\ Len(s) = l - o /\ \A i \in 1 .. l - o : s[i] = frame[o + i]
    BY <1>1
  <2>2. Rest(frame, o) = s
    BY <1>1, <1>4 DEF Rest
  <2>3. s # <<>> /\ s[1] = b /\ Head(s) = b
    <3>1. 1 \in 1 .. l - o
      BY <1>1
    <3> HIDE DEF s
    <3> QED
      BY <1>1, <2>1, <3>1
  <2>4. Tail(s) = Rest(frame, o + 1)
    <3>1. CASE o + 1 = l
      <4>1. Rest(frame, o + 1) = <<>>
        BY <3>1 DEF Rest
      <4>2. Len(s) = 1 /\ s \in Seq(Int)
        <5>1. l - o = 1
          BY <1>1, <3>1
        <5> QED
          BY <2>1, <5>1
      <4> HIDE DEF s
      <4>3. Tail(s) = <<>>
        <5>1. Tail(s) \in Seq(Int) /\ Len(Tail(s)) = 0
          BY <2>3, <4>2
        <5> QED
          BY <5>1, EmptyIs
      <4> QED
        BY <4>1, <4>3
    <3>2. CASE o + 1 # l
      <4>1. Rest(frame, o + 1) = SubSeq(frame, o + 2, l)
        <5>1. (o + 1) + 1 = o + 2 /\ o + 1 # 0
          BY <1>1
        <5> QED
          BY <3>2, <5>1 DEF Rest
      <4> DEFINE t == SubSeq(frame, o + 2, l)
                 q == l - o - 1
      <4>2. t \in Seq(Int) /\ Len(t) = q /\ \A i \in 1 .. q : t[i] = frame[(o + 1) + i]
        BY <1>1, <3>2
      <4>3. Len(s) = q + 1 /\ q \in Nat /\ \A i \in 1 .. q + 1 : s[i] = frame[o + i]
        <5>1. l - o = q + 1 /\ q \in Nat
          BY <1>1
        <5> QED
          BY <2>1, <5>1
      <4> HIDE DEF s, t, q
      <4>4. Tail(s) \in Seq(Int) /\ Len(Tail(s)) = q
            /\ \A i \in 1 .. q : Tail(s)[i] = s[i + 1]
        BY <2>1, <2>3, <4>3
      <4>5. ASSUME NEW i \in 1 .. q PROVE Tail(s)[i] = t[i]
        <5>1. i + 1 \in 1 .. q + 1 /\ o + (i + 1) = (o + 1) + i
          BY <1>1, <4>3
        <5>2. s[i + 1] = frame[o + (i + 1)]
          BY <4>3, <5>1
        <5> QED
          BY <4>2, <4>4, <5>1, <5>2
      <4>6. Tail(s) = t
        BY <4>2, <4>4, <4>5, SeqEqual
      <4> QED
        BY <4>1, <4>6 DEF t
    <3> QED
      BY <3>1, <3>2
  <2>5. Tail(s) = <<>> <=> o + 1 = l
    <3> HIDE DEF s
    <3>1. Tail(s) \in Seq(Int) /\ Len(Tail(s)) = Len(s) - 1
      BY <2>1, <2>3
    <3>2. Len(s) = l - o
      BY <2>1
    <3>3. Tail(s) = <<>> <=> Len(Tail(s)) = 0
      BY <3>1, EmptyIs
    <3>4. Len(Tail(s)) = (l - o) - 1
      BY <3>1, <3>2
    <3> HIDE DEF l
    <3>5. (l - o) - 1 = 0 <=> o + 1 = l
      BY <1>1
    <3> QED
      BY <3>3, <3>4, <3>5
  <2>6. s # Lost
    <3>1. b # TEXT + MAGIC
      BY <1>1 DEF OnWire
    <3>2. Lost[1] = TEXT + MAGIC
      BY DEF Lost
    <3> QED
      BY <2>3, <3>1, <3>2
  <2> HIDE DEF s
  <2>7. Read(r, b) = [rest |-> Tail(s),
                      heard |-> IF b = TEXT /\ Tail(s) = <<>> THEN h + 1 ELSE h]
    BY <1>2, <2>2, <2>3, <2>6 DEF Read
  <2>8. h + 0 = h
    OBVIOUS
  <2> QED
    BY <2>4, <2>5, <2>7, <2>8
<1> QED
  BY <1>1, <1>3, <1>4

(* The bytes of data, which are those of frame behind the first o. *)
LEMMA HeardPart ==
    ASSUME NEW frame, OnWire(frame), NEW o \in Nat, NEW data \in Bytes,
           o + Len(data) <= Len(frame),
           \A i \in 1 .. Len(data) : data[i] = frame[o + i],
           NEW h \in Nat, reader = [rest |-> Rest(frame, o), heard |-> h],
           data # <<>>
    PROVE  Heard(data) =
             [rest |-> Rest(frame, o + Len(data)),
              heard |-> h + IF o + Len(data) = Len(frame) /\ frame[o + Len(data)] = TEXT
                            THEN 1 ELSE 0]
<1> DEFINE n == Len(data)
           at(k) == [rest |-> Rest(frame, o + k),
                     heard |-> h + IF k > 0 /\ o + k = Len(frame) /\ frame[o + k] = TEXT
                                   THEN 1 ELSE 0]
           f == CHOOSE f : f = [k \in 0 .. n |-> IF k = 0 THEN reader ELSE Read(f[k - 1], data[k])]
           g == [k \in 0 .. n |-> at(k)]
<1>1. n \in Nat /\ n > 0 /\ Len(frame) \in Nat /\ o + n <= Len(frame)
  BY DEF OnWire, Bytes
<1>2. Heard(data) = f[n]
  BY DEF Heard
<1>3. at(0) = reader
  <2>1. o + 0 = o /\ h + 0 = h
    OBVIOUS
  <2> QED
    BY <2>1
<1>4. ASSUME NEW k \in 1 .. n PROVE at(k) = Read(at(k - 1), data[k])
  <2>1. /\ o + (k - 1) \in 0 .. Len(frame) - 1
        /\ (o + (k - 1)) + 1 = o + k /\ k > 0
        /\ o + (k - 1) # Len(frame)
    BY <1>1
  <2>2. data[k] = frame[o + k]
    OBVIOUS
  <2>3. at(k - 1) = [rest |-> Rest(frame, o + (k - 1)), heard |-> h]
    <3>1. h + 0 = h
      OBVIOUS
    <3> QED
      BY <2>1, <3>1
  <2> DEFINE p == o + (k - 1)
  <2>4. Read([rest |-> Rest(frame, p), heard |-> h], frame[p + 1]) =
          [rest |-> Rest(frame, p + 1),
           heard |-> h + IF p + 1 = Len(frame) /\ frame[p + 1] = TEXT THEN 1 ELSE 0]
    BY <2>1, ReadByte
  <2> QED
    BY <2>1, <2>2, <2>3, <2>4
<1> HIDE DEF at
<1>5. g = [k \in 0 .. n |-> IF k = 0 THEN reader ELSE Read(g[k - 1], data[k])]
  <2>1. ASSUME NEW k \in 0 .. n
        PROVE  at(k) = IF k = 0 THEN reader ELSE Read(g[k - 1], data[k])
    <3>1. CASE k = 0
      BY <1>3, <3>1
    <3>2. CASE k # 0
      <4>1. k \in 1 .. n /\ k - 1 \in 0 .. n
        BY <1>1, <3>2
      <4>2. g[k - 1] = at(k - 1)
        BY <4>1
      <4> QED
        BY <1>4, <3>2, <4>1, <4>2
    <3> QED
      BY <3>1, <3>2
  <2> QED
    BY <2>1
<1>6. f = [k \in 0 .. n |-> IF k = 0 THEN reader ELSE Read(f[k - 1], data[k])]
  <2> HIDE DEF g
  <2> QED
    BY <1>5
<1> HIDE DEF f
<1>7. f[0] = at(0) /\ \A k \in 1 .. n : f[k] = Read(f[k - 1], data[k])
  <2>1. \A k \in 0 .. n : f[k] = IF k = 0 THEN reader ELSE Read(f[k - 1], data[k])
    BY <1>6
  <2> QED
    BY <1>1, <1>3, <2>1
<1>8. \A k \in 0 .. n : f[k] = at(k)
  <2> DEFINE T == {k \in 0 .. n : f[k] # at(k)}
  <2> SUFFICES ASSUME T # {} PROVE FALSE
    OBVIOUS
  <2>1. T \in SUBSET Nat
    BY <1>1
  <2>2. PICK k \in T : \A j \in T : k <= j
    BY <2>1, LeastElement
  <2>3. k \in 0 .. n /\ f[k] # at(k)
    OBVIOUS
  <2>4. k \in 1 .. n /\ k - 1 \in 0 .. n /\ k - 1 < k
    BY <1>1, <1>7, <2>3
  <2>5. f[k - 1] = at(k - 1)
    BY <1>1, <2>2, <2>4
  <2> QED
    BY <1>4, <1>7, <2>3, <2>4, <2>5
<1>9. Heard(data) = at(n)
  BY <1>1, <1>2, <1>8
<1> QED
  BY <1>1, <1>9 DEF at

LEMMA HeardNothing == Heard(<<>>) = reader
<1> DEFINE f == CHOOSE f : f = [k \in 0 .. 0 |-> IF k = 0 THEN reader ELSE Read(f[k - 1], <<>>[k])]
           g == [k \in 0 .. 0 |-> reader]
<1>1. Heard(<<>>) = f[0]
  BY DEF Heard
<1>2. g = [k \in 0 .. 0 |-> IF k = 0 THEN reader ELSE Read(g[k - 1], <<>>[k])]
  OBVIOUS
<1>3. f = [k \in 0 .. 0 |-> IF k = 0 THEN reader ELSE Read(f[k - 1], <<>>[k])]
  <2> HIDE DEF g
  <2> QED
    BY <1>2
<1> HIDE DEF f
<1>4. f[0] = reader
  BY <1>3
<1> QED
  BY <1>1, <1>4

-----------------------------------------------------------------------------
(* What the server has of the messages are bytes, and fit reqbuf. *)
Received ==
    /\ net \in Bytes /\ sockbuf \in Bytes /\ reqbuf \in Bytes
    /\ Len(reqbuf) < REQBUF

LEMMA MaxIsIn ==
    ASSUME NEW n \in Nat, NEW S \in SUBSET (1 .. n), S # {}
    PROVE  Max(S) \in S
<1> DEFINE R == {i \in 0 .. n : n - i \in S}
<1>1. PICK x \in S : TRUE
  OBVIOUS
<1>2. n - x \in R
  BY <1>1
<1>3. PICK r \in R : \A y \in R : r <= y
  <2>0. R \in SUBSET Nat
    OBVIOUS
  <2> HIDE DEF R
  <2>1. R \in SUBSET Nat /\ R # {}
    BY <1>2, <2>0
  <2> QED
    BY <2>1, LeastElement
<1>4. n - r \in S /\ \A y \in S : n - r >= y
  <2>1. ASSUME NEW y \in S PROVE n - r >= y
    <3>1. n - y \in R
      OBVIOUS
    <3> QED
      BY <1>3, <3>1
  <2> QED
    BY <2>1
<1>5. \E m \in S : \A y \in S : m >= y
  BY <1>4
<1> QED
  BY <1>5 DEF Max

LEMMA ParseIsInt == ASSUME NEW b \in Bytes, b # <<>> PROVE Parse(b) \in Int
<1> DEFINE l == Len(b)
           ends == HeaderEnds(b)
           fields == {i \in 1 .. Min(ends) : b[i] > 0}
<1>1. l \in Nat /\ l > 0 /\ \A i \in 1 .. l : b[i] \in Int
  BY DEF Bytes
<1>2. ASSUME ends # {} PROVE CompleteSize(b) \in Int
  <2>1. ends \in SUBSET (1 .. l)
    BY DEF HeaderEnds, Lines
  <2>2. Min(ends) \in 1 .. l
    BY <1>1, <1>2, <2>1, LeastIsMin
  <2> DEFINE n == Min(ends)
  <2>3. n \in Nat /\ n <= l
    BY <1>1, <2>2
  <2>4. ContentLength(b) = IF fields = {} THEN 0 ELSE b[Max(fields)]
    BY DEF ContentLength
  <2>5. ContentLength(b) \in Int
    <3>1. CASE fields = {}
      BY <2>4, <3>1
    <3>2. CASE fields # {}
      <4>1. fields \in SUBSET (1 .. n)
        OBVIOUS
      <4> HIDE DEF fields, n
      <4>2. Max(fields) \in 1 .. n
        BY <2>3, <3>2, <4>1, MaxIsIn
      <4> QED
        BY <1>1, <2>3, <2>4, <3>2, <4>2
    <3> QED
      BY <3>1, <3>2
  <2>6. n \in Int
    BY <2>3
  <2> HIDE DEF n, fields
  <2> QED
    BY <2>5, <2>6 DEF CompleteSize, n
<1>3. FrameSize(b) \in Int
  BY <1>2 DEF FrameSize
<1>4. ~(l < 2) => b[2] \in Int
  BY <1>1
<1> QED
  BY <1>3, <1>4 DEF Parse

LEMMA TakenOff ==
    ASSUME Received, RecvMsg
    PROVE  /\ Received'
           /\ \/ handled' = handled
              \/ serving' = "serve" /\ \E m : handled' = Append(handled, m)
<1> DEFINE k == IF Len(sockbuf) < Room THEN Len(sockbuf) ELSE Room
           a == SubSeq(sockbuf, 1, k)
           r == SubSeq(sockbuf, k + 1, Len(sockbuf))
           b == reqbuf \o a
           ret == IF b = <<>> THEN 0 ELSE Parse(b)
<1>1. /\ sockbuf' = r /\ UNCHANGED net
      /\ reqbuf' = IF ret > 0 THEN SubSeq(b, ret + 1, Len(b)) ELSE b
      /\ handled' = IF ret > 0 THEN Append(handled, SubSeq(b, 1, ret)) ELSE handled
      /\ serving' = NextServing(ret)
  BY DEF RecvMsg
<1>2. /\ Len(reqbuf) \in Nat /\ Len(sockbuf) \in Nat /\ REQBUF \in Nat
      /\ Len(reqbuf) < REQBUF
  BY LimitsAssumption DEF Received, Bytes
<1>3. k \in 0 .. Len(sockbuf) /\ Len(reqbuf) + k < REQBUF
  BY <1>2 DEF Room
<1> HIDE DEF k
<1>4. a \in Bytes /\ Len(a) = k /\ r \in Bytes
  BY <1>3, SplitBytes DEF Received
<1> HIDE DEF a, r
<1>5. b \in Bytes /\ Len(b) \in Nat /\ Len(b) < REQBUF
  <2>1. b \in Bytes /\ Len(b) = Len(reqbuf) + k
    BY <1>4, JoinedBytes DEF Received
  <2> QED
    BY <1>2, <1>3, <2>1
<1> HIDE DEF b
<1>6. ret \in Int
  BY <1>5, ParseIsInt
<1> HIDE DEF ret
<1>7. reqbuf' \in Bytes /\ Len(reqbuf') < REQBUF
  <2>1. CASE ret > 0
    <3>1. /\ SubSeq(b, ret + 1, Len(b)) \in Bytes
          /\ Len(SubSeq(b, ret + 1, Len(b))) <= Len(b)
      BY <1>5, <1>6, <2>1 DEF Bytes
    <3>2. reqbuf' = SubSeq(b, ret + 1, Len(b))
      BY <1>1, <2>1
    <3> DEFINE c == SubSeq(b, ret + 1, Len(b))
    <3>3. Len(c) \in Nat
      BY <3>1 DEF Bytes
    <3>4. c \in Bytes /\ Len(c) <= Len(b) /\ reqbuf' = c
      BY <3>1, <3>2
    <3> HIDE DEF c
    <3> QED
      BY <1>2, <1>5, <3>3, <3>4
  <2>2. CASE ~(ret > 0)
    BY <1>1, <1>5, <2>2
  <2> QED
    BY <2>1, <2>2
<1>8. Received'
  BY <1>1, <1>4, <1>7 DEF Received
<1>9. CASE ret > 0
  BY <1>1, <1>6, <1>8, <1>9 DEF NextServing
<1>10. CASE ~(ret > 0)
  BY <1>1, <1>8, <1>10
<1> QED
  BY <1>8, <1>9, <1>10

LEMMA NextReceived == Received /\ [Next]_vars => Received'
<1> SUFFICES ASSUME Received, [Next]_vars PROVE Received'
  OBVIOUS
<1>1. CASE Talk
  <2>1. PICK m \in Message : net' = net \o m
    BY <1>1 DEF Talk, ClientSend
  <2>2. net' \in Bytes
    BY <2>1, MessagesAreBytes, JoinedBytes DEF Received
  <2> QED
    BY <1>1, <2>2 DEF Talk, ClientSend, Received
<1>2. CASE Deliver
  <2>1. PICK k \in 1 .. Len(net) : /\ sockbuf' = sockbuf \o SubSeq(net, 1, k)
                                   /\ net' = SubSeq(net, k + 1, Len(net))
    BY <1>2 DEF Deliver, Arrive
  <2>2. k \in 0 .. Len(net)
    BY DEF Received, Bytes
  <2>3. SubSeq(net, 1, k) \in Bytes /\ net' \in Bytes
    BY <2>1, <2>2, SplitBytes DEF Received
  <2>4. sockbuf' \in Bytes
    BY <2>1, <2>3, JoinedBytes DEF Received
  <2> QED
    BY <1>2, <2>3, <2>4 DEF Deliver, Arrive, Received
<1>3. CASE Take
  BY <1>3, TakenOff DEF Take
<1>4. CASE Close \/ Listen \/ Enter \/ Hangup
  BY <1>4 DEF Close, ClientClose, Listen, Enter, Event, Hangup, PeerClosed, receiveVars, Received
<1>5. CASE Answer \/ TransmitHeader \/ TransmitBody \/ TransmitReport
  BY <1>5 DEF Answer, TransmitHeader, TransmitBody, TransmitReport, Transmit, receiveVars, Received
<1>6. CASE UNCHANGED vars
  BY <1>6 DEF vars, receiveVars, Received
<1> QED
  BY <1>1, <1>2, <1>3, <1>4, <1>5, <1>6 DEF Next

(* As long as no send() stopped within a frame, the client is between frames,
   or has the header of the packet whose body comes next; while requests are
   served it is between frames, and each but the one that is owed an answer
   has had its response, or none of it. *)
Asked(hs) == Cardinality({i \in DOMAIN hs : hs[i][1] # DOLLAR})

Turns ==
    /\ sending \in {"idle", "body"} /\ owed \in BOOLEAN
    /\ room \in 0 .. SNDBUF /\ missed \in Nat
    /\ serving # "idle" => sending = "idle"
    /\ owed => serving = "serve"
    /\ \E S : handled \in Seq(S)

InFrame(o, h) ==
    /\ h \in Nat
    /\ reader = [rest |-> Rest(Framed, o), heard |-> h]
    /\ h + missed + (IF owed THEN 1 ELSE 0) = Asked(handled)

Between == peer = "open" /\ ~torn => \E h : InFrame(IF sending = "body" THEN 2 ELSE 0, h)

FrameInv == Received /\ Turns /\ Between

LEMMA AskedAppend ==
    ASSUME NEW S, NEW hs \in Seq(S), NEW e
    PROVE  /\ Asked(hs) \in Nat
           /\ Asked(Append(hs, e)) = Asked(hs) + IF e[1] # DOLLAR THEN 1 ELSE 0
<1> DEFINE n == Len(hs)
           a == {i \in 1 .. n : hs[i][1] # DOLLAR}
           as == Append(hs, e)
           b == {i \in 1 .. n + 1 : as[i][1] # DOLLAR}
<1>1. n \in Nat /\ DOMAIN hs = 1 .. n
  OBVIOUS
<1>2. DOMAIN as = 1 .. n + 1 /\ as[n + 1] = e /\ \A i \in 1 .. n : as[i] = hs[i]
  OBVIOUS
<1>3. Asked(hs) = Cardinality(a) /\ Asked(as) = Cardinality(b)
  BY <1>1, <1>2 DEF Asked
<1> HIDE DEF n, as
<1>4. b = IF e[1] # DOLLAR THEN a \cup {n + 1} ELSE a
  <2>1. ASSUME NEW i \in 1 .. n + 1
        PROVE  i \in b <=> i \in a \/ (i = n + 1 /\ e[1] # DOLLAR)
    <3>1. CASE i = n + 1
      BY <1>1, <1>2, <3>1
    <3>2. CASE i # n + 1
      <4>1. i \in 1 .. n
        BY <1>1, <3>2
      <4> QED
        BY <1>2, <3>2, <4>1
    <3> QED
      BY <3>1, <3>2
  <2>2. a \subseteq 1 .. n + 1 /\ b \subseteq 1 .. n + 1 /\ n + 1 \in 1 .. n + 1
    <3>1. ASSUME NEW k \in Nat PROVE 1 .. k \subseteq 1 .. k + 1 /\ k + 1 \in 1 .. k + 1
      OBVIOUS
    <3>2. 1 .. n \subseteq 1 .. n + 1 /\ n + 1 \in 1 .. n + 1
      BY <1>1, <3>1
    <3>3. a \subseteq 1 .. n /\ b \subseteq 1 .. n + 1
      OBVIOUS
    <3> HIDE DEF a, b
    <3> QED
      BY <3>2, <3>3
  <2> HIDE DEF a, b
  <2>3. CASE e[1] # DOLLAR
    BY <2>1, <2>2, <2>3
  <2>4. CASE e[1] = DOLLAR
    BY <2>1, <2>2, <2>4
  <2> QED
    BY <2>3, <2>4
<1>5. n + 1 \notin a
  <2>0. ASSUME NEW k \in Nat PROVE k + 1 \notin 1 .. k
    OBVIOUS
  <2>1. n + 1 \notin 1 .. n
    BY <1>1, <2>0
  <2>2. a \subseteq 1 .. n
    OBVIOUS
  <2> HIDE DEF a
  <2> QED
    BY <2>1, <2>2
<1>6. IsFiniteSet(a)
  <2>1. IsFiniteSet(1 .. n)
    BY <1>1, FS_Interval
  <2>2. a \in SUBSET (1 .. n)
    OBVIOUS
  <2> HIDE DEF a
  <2> QED
    BY <2>1, <2>2, FS_Subset
<1> HIDE DEF a, b
<1>7. Cardinality(a) \in Nat
  BY <1>6, FS_CardinalityType
<1>8. Cardinality(a \cup {n + 1}) = Cardinality(a) + 1
  BY <1>5, <1>6, FS_AddElement
<1>9. Cardinality(b) = Cardinality(a) + IF e[1] # DOLLAR THEN 1 ELSE 0
  BY <1>4, <1>7, <1>8
<1> QED
  BY <1>3, <1>7, <1>9 DEF as

LEMMA AskedIsNat == Turns => Asked(handled) \in Nat
<1> SUFFICES ASSUME Turns PROVE Asked(handled) \in Nat
  OBVIOUS
<1>1. PICK S : handled \in Seq(S)
  BY DEF Turns
<1> QED
  BY <1>1, AskedAppend

(* A send() to a client that is there takes nothing, all, or stops within a
   frame. *)
LEMMA SendTakes ==
    ASSUME NEW data \in Bytes, data # <<>>, room \in 0 .. SNDBUF,
           NEW n \in Takes(data), Send(data, n)
    PROVE  /\ room' \in 0 .. SNDBUF
           /\ peer' = "open" => peer = "open"
           /\ peer = "open" /\ ~torn' =>
                 /\ ~torn
                 /\ \/ n = 0 /\ sending # "body" /\ reader' = reader
                    \/ n # 0 /\ reader' = Heard(data)
<1>1. Len(data) \in Nat /\ Len(data) > 0 /\ SNDBUF \in Nat
  BY SizesAssumption DEF Bytes
<1>2. CASE peer # "open"
  <2>1. peer' # "open" /\ room' = room
    BY <1>2 DEF Send
  <2> QED
    BY <1>2, <2>1
<1>3. CASE peer = "open"
  <2>1. n = IF Len(data) < room THEN Len(data) ELSE room
    BY <1>3 DEF Takes
  <2>2. n \in Nat /\ n <= Len(data) /\ n <= room
    BY <1>1, <2>1
  <2>3. room' = room - n /\ reader' = Heard(SubSeq(data, 1, n))
        /\ torn' = (torn \/ (n < Len(data) /\ (n > 0 \/ sending = "body")))
    BY <1>3 DEF Send
  <2>4. room' \in 0 .. SNDBUF
    BY <1>1, <2>2, <2>3
  <2>5. ASSUME ~torn'
        PROVE  ~torn /\ (n = Len(data) \/ (n = 0 /\ sending # "body"))
    <3> DEFINE l == Len(data)
    <3>1. ~torn /\ ~(n < l /\ (n > 0 \/ sending = "body"))
      BY <2>3, <2>5
    <3>2. l \in Nat /\ l > 0 /\ n \in Nat /\ n <= l
      BY <1>1, <2>2
    <3> HIDE DEF l
    <3>3. n = l \/ (n = 0 /\ sending # "body")
      BY <3>1, <3>2
    <3> QED
      BY <3>1, <3>3 DEF l
  <2>6. ASSUME n = Len(data) PROVE n # 0 /\ reader' = Heard(data)
    <3>1. SubSeq(data, 1, Len(data)) = data
      BY SubSeqFull DEF Bytes
    <3>2. reader' = Heard(SubSeq(data, 1, Len(data)))
      BY <2>3, <2>6
    <3>3. reader' = Heard(data)
      BY <3>1, <3>2
    <3>4. n # 0
      BY <1>1, <2>6
    <3> QED
      BY <3>3, <3>4
  <2>7. ASSUME n = 0 PROVE reader' = reader
    <3>1. SubSeq(data, 1, 0) = <<>>
      BY SubSeqEmpty
    <3> QED
      BY <2>3, <2>7, <3>1, HeardNothing
  <2> QED
    BY <1>3, <2>4, <2>5, <2>6, <2>7
<1> QED
  BY <1>2, <1>3

(* What the client has read when all of it was taken. *)
LEMMA WholeHeard ==
    ASSUME NEW h \in Nat
    PROVE  /\ reader = [rest |-> Rest(Framed, 0), heard |-> h] =>
                 /\ Heard(Header) = [rest |-> Rest(Framed, 2), heard |-> h]
                 /\ Heard(Framed) = [rest |-> Rest(Framed, 0), heard |-> h]
                 /\ Heard(Response) = [rest |-> Rest(Framed, 0), heard |-> h + 1]
           /\ reader = [rest |-> Rest(Framed, 2), heard |-> h] =>
                 Heard(Body) = [rest |-> Rest(Framed, 0), heard |-> h]
<1>1. Size \in Nat /\ Size > 0
  BY SizesAssumption
<1>2. Header \in Bytes /\ Len(Header) = 2 /\ Header[1] = MAGIC /\ Header[2] = Size /\ Header # <<>>
  BY <1>1 DEF Header, Bytes, MAGIC
<1>3. /\ Framed \in Bytes /\ OnWire(Framed) /\ Len(Framed) = Size + 2 /\ Framed # <<>>
      /\ Framed[Size + 2] # TEXT
  <2>1. Framed[2 + Size] = 0 /\ 2 + Size = Size + 2
    BY <1>1, FramedIs
  <2>2. Framed \in Seq(Int) /\ Len(Framed) > 0
    BY <1>1, FramedIs DEF OnWire, Bytes
  <2>3. Framed # <<>>
    BY <2>2, EmptyIs
  <2>4. Framed[Size + 2] # TEXT
    BY <2>1 DEF TEXT
  <2> QED
    BY <2>2, <2>3, <2>4, FramedIs DEF Bytes
<1>4. Rest(Framed, 0) = <<>> /\ Rest(Response, 0) = <<>>
      /\ Rest(Framed, Size + 2) = <<>> /\ Rest(Response, 2) = <<>>
  BY <1>3, ResponseIs DEF Rest
<1>5. h + 0 = h
  OBVIOUS
<1>6. ASSUME reader = [rest |-> Rest(Framed, 0), heard |-> h]
      PROVE  Heard(Header) = [rest |-> Rest(Framed, 2), heard |-> h]
  <2>1. \A i \in 1 .. Len(Header) : Header[i] = Framed[0 + i]
    BY <1>1, <1>2, FramedIs
  <2>2. 0 + Len(Header) = 2 /\ 2 # Len(Framed) /\ 0 + Len(Header) <= Len(Framed)
    BY <1>1, <1>2, <1>3
  <2>3. Heard(Header) =
          [rest |-> Rest(Framed, 0 + Len(Header)),
           heard |-> h + IF 0 + Len(Header) = Len(Framed) /\ Framed[0 + Len(Header)] = TEXT
                         THEN 1 ELSE 0]
    BY <1>2, <1>3, <1>6, <2>1, <2>2, HeardPart, ZenonT(60)
  <2> QED
    BY <1>5, <2>2, <2>3
<1>7. ASSUME reader = [rest |-> Rest(Framed, 0), heard |-> h]
      PROVE  Heard(Framed) = [rest |-> Rest(Framed, 0), heard |-> h]
  <2>1. \A i \in 1 .. Len(Framed) : Framed[i] = Framed[0 + i]
    BY <1>1, <1>3
  <2>2. 0 + Len(Framed) = Size + 2 /\ 0 + Len(Framed) <= Len(Framed)
    BY <1>1, <1>3
  <2>3. Heard(Framed) =
          [rest |-> Rest(Framed, 0 + Len(Framed)),
           heard |-> h + IF 0 + Len(Framed) = Len(Framed) /\ Framed[0 + Len(Framed)] = TEXT
                         THEN 1 ELSE 0]
    BY <1>3, <1>7, <2>1, <2>2, HeardPart
  <2> QED
    BY <1>3, <1>4, <1>5, <2>2, <2>3
<1>8. ASSUME reader = [rest |-> Rest(Framed, 0), heard |-> h]
      PROVE  Heard(Response) = [rest |-> Rest(Framed, 0), heard |-> h + 1]
  <2>1. Response \in Bytes /\ Response # <<>>
    BY DEF Response, Bytes, TEXT
  <2>2. \A i \in 1 .. Len(Response) : Response[i] = Response[0 + i]
    BY ResponseIs
  <2>3. 0 + Len(Response) = 2 /\ 0 + Len(Response) <= Len(Response)
        /\ 0 + Len(Response) = Len(Response) /\ Response[2] = TEXT
    BY ResponseIs
  <2>4. reader = [rest |-> Rest(Response, 0), heard |-> h]
    BY <1>4, <1>8
  <2>5. Heard(Response) =
          [rest |-> Rest(Response, 0 + Len(Response)),
           heard |-> h + IF 0 + Len(Response) = Len(Response)
                            /\ Response[0 + Len(Response)] = TEXT
                         THEN 1 ELSE 0]
    BY <2>1, <2>2, <2>3, <2>4, ResponseIs, HeardPart
  <2> QED
    BY <1>4, <2>3, <2>5
<1>9. ASSUME reader = [rest |-> Rest(Framed, 2), heard |-> h]
      PROVE  Heard(Body) = [rest |-> Rest(Framed, 0), heard |-> h]
  <2>1. Body \in Bytes /\ Len(Body) = Size /\ Body # <<>>
    <3>1. Body \in Seq(Int) /\ Len(Body) # 0
      BY <1>1, BodyIs DEF Bytes
    <3> QED
      BY <3>1, BodyIs, EmptyIs
  <2>2. \A i \in 1 .. Len(Body) : Body[i] = Framed[2 + i]
    BY <2>1, BodyIs, FramedIs
  <2>3. 2 + Len(Body) = Size + 2 /\ 2 + Len(Body) <= Len(Framed)
    BY <1>1, <1>3, <2>1
  <2>4. Heard(Body) =
          [rest |-> Rest(Framed, 2 + Len(Body)),
           heard |-> h + IF 2 + Len(Body) = Len(Framed) /\ Framed[2 + Len(Body)] = TEXT
                         THEN 1 ELSE 0]
    BY <1>3, <1>9, <2>1, <2>2, <2>3, HeardPart
  <2> QED
    BY <1>3, <1>4, <1>5, <2>3, <2>4
<1> QED
  BY <1>6, <1>7, <1>8, <1>9

(* What a send() of the server leaves of Between: a frame that begins at o
   bytes of Framed and ends at p; k more responses are heard, and j are
   missed, of which one is to be accounted for if i is 1. *)
LEMMA SendKeepsBetween ==
    ASSUME Turns, Between, NEW data \in Bytes, data # <<>>,
           NEW n \in Takes(data), Send(data, n),
           NEW k \in {0, 1}, NEW o \in {0, 2}, NEW p \in {0, 2},
           o = IF sending = "body" THEN 2 ELSE 0,
           \A h \in Nat : reader = [rest |-> Rest(Framed, o), heard |-> h] =>
              Heard(data) = [rest |-> Rest(Framed, p), heard |-> h + k],
           UNCHANGED handled,
           (IF owed' THEN 1 ELSE 0) + k = IF owed THEN 1 ELSE 0,
           missed' = IF n = 0 THEN missed + k ELSE missed,
           sending' \in {"idle", "body"},
           n # 0 => p = IF sending' = "body" THEN 2 ELSE 0,
           n = 0 => o = IF sending' = "body" THEN 2 ELSE 0
    PROVE  Between'
<1>1. room \in 0 .. SNDBUF /\ missed \in Nat /\ owed \in BOOLEAN
  BY DEF Turns
<1> SUFFICES ASSUME peer' = "open", ~torn'
             PROVE  \E h : InFrame(IF sending = "body" THEN 2 ELSE 0, h)'
  BY DEF Between
<1>2. /\ peer = "open" /\ ~torn
      /\ \/ n = 0 /\ sending # "body" /\ reader' = reader
         \/ n # 0 /\ reader' = Heard(data)
  BY <1>1, SendTakes
<1>3. PICK h : InFrame(o, h)
  BY <1>2 DEF Between
<1>4. /\ h \in Nat /\ reader = [rest |-> Rest(Framed, o), heard |-> h]
      /\ h + missed + (IF owed THEN 1 ELSE 0) = Asked(handled)
  BY <1>3 DEF InFrame
<1>5. Asked(handled') = Asked(handled)
  OBVIOUS
<1>6. CASE n = 0
  <2>1. reader' = [rest |-> Rest(Framed, o), heard |-> h] /\ missed' = missed + k
    BY <1>2, <1>4, <1>6
  <2>2. h + missed' + (IF owed' THEN 1 ELSE 0) = Asked(handled')
    <3> DEFINE x == IF owed' THEN 1 ELSE 0
               y == IF owed THEN 1 ELSE 0
    <3>1. x \in Int /\ y \in Int /\ x + k = y
      OBVIOUS
    <3>2. h + missed + y = Asked(handled')
      BY <1>4, <1>5
    <3> HIDE DEF x, y
    <3>3. h + (missed + k) + x = h + missed + y
      BY <1>1, <1>4, <3>1
    <3>4. h + missed' + x = Asked(handled')
      BY <2>1, <3>2, <3>3
    <3> QED
      BY <3>4 DEF x
  <2>3. InFrame(o, h)'
    BY <1>4, <2>1, <2>2 DEF InFrame
  <2> QED
    BY <1>6, <2>3
<1>7. CASE n # 0
  <2>1. reader' = [rest |-> Rest(Framed, p), heard |-> h + k] /\ missed' = missed
    BY <1>2, <1>4, <1>7
  <2>2. (h + k) + missed' + (IF owed' THEN 1 ELSE 0) = Asked(handled')
    <3> DEFINE x == IF owed' THEN 1 ELSE 0
               y == IF owed THEN 1 ELSE 0
    <3>1. x \in Int /\ y \in Int /\ x + k = y
      OBVIOUS
    <3>2. h + missed + y = Asked(handled')
      BY <1>4, <1>5
    <3> HIDE DEF x, y
    <3>3. (h + k) + missed + x = h + missed + y
      BY <1>1, <1>4, <3>1
    <3>4. (h + k) + missed' + x = Asked(handled')
      BY <2>1, <3>2, <3>3
    <3> QED
      BY <3>4 DEF x
  <2>3. h + k \in Nat
    BY <1>4
  <2>4. InFrame(p, h + k)'
    BY <2>1, <2>2, <2>3 DEF InFrame
  <2> QED
    BY <1>7, <2>4
<1> QED
  BY <1>6, <1>7

LEMMA PartsAreBytes ==
    /\ Header \in Bytes /\ Header # <<>> /\ Body \in Bytes /\ Body # <<>>
    /\ Framed \in Bytes /\ Framed # <<>> /\ Response \in Bytes /\ Response # <<>>
<1>1. Size \in Nat /\ Size > 0
  BY SizesAssumption
<1>2. Header \in Bytes /\ Header # <<>> /\ Response \in Bytes /\ Response # <<>>
  BY <1>1 DEF Header, Response, Bytes, MAGIC, TEXT
<1>3. Body \in Bytes /\ Body # <<>>
  <2>1. Body \in Seq(Int) /\ Len(Body) # 0
    BY <1>1, BodyIs DEF Bytes
  <2> QED
    BY <2>1, BodyIs, EmptyIs
<1>4. Framed \in Bytes /\ Framed # <<>>
  <2>1. Framed \in Seq(Int) /\ Len(Framed) # 0
    BY <1>1, FramedIs DEF OnWire, Bytes
  <2> QED
    BY <2>1, EmptyIs DEF Bytes
<1> QED
  BY <1>2, <1>3, <1>4

(* A step that leaves alone what Between looks at. *)
LEMMA BetweenUnchanged ==
    ASSUME Between, peer' = "open" => peer = "open",
           UNCHANGED <<sending, reader, torn, missed, handled, owed>>
    PROVE  Between'
<1> SUFFICES ASSUME peer' = "open", ~torn'
             PROVE  \E h : InFrame(IF sending = "body" THEN 2 ELSE 0, h)'
  BY DEF Between
<1>1. PICK h : InFrame(IF sending = "body" THEN 2 ELSE 0, h)
  BY DEF Between
<1> QED
  BY <1>1 DEF InFrame

(* A request that was read is owed an answer; a frame of the client is not. *)
LEMMA TakeKeepsFrameInv ==
    ASSUME FrameInv, Take PROVE (Turns /\ Between)'
<1> DEFINE more == Len(handled') > Len(handled)
<1>1. /\ ~owed /\ serving = "serve" /\ UNCHANGED sendVars
      /\ owed' = (more /\ WantsAnswer(Last(handled')))
  BY DEF Take, RecvMsg
<1>2. UNCHANGED <<sending, room, reader, torn, missed, peer>>
  BY <1>1 DEF sendVars
<1>3. PICK S : handled \in Seq(S)
  BY DEF FrameInv, Turns
<1>4. \/ handled' = handled /\ ~more /\ ~owed'
      \/ serving' = "serve" /\ \E m : handled' = Append(handled, m)
  <2>1. CASE handled' = handled
    <3>1. ~more
      BY <1>3, <2>1
    <3>2. ~owed'
      BY <1>1, <3>1, Zenon
    <3> QED
      BY <2>1, <3>1, <3>2
  <2>2. CASE serving' = "serve" /\ \E m : handled' = Append(handled, m)
    BY <2>2
  <2> QED
    BY <2>1, <2>2, TakenOff DEF Take, FrameInv
<1>5. CASE handled' = handled /\ ~more /\ ~owed'
  <2>1. UNCHANGED owed
    <3>1. owed = FALSE
      BY <1>1 DEF FrameInv, Turns
    <3>2. owed' = FALSE
      <4>1. owed' \in BOOLEAN
        BY <1>1, Zenon
      <4> QED
        BY <1>5, <4>1
    <3> QED
      BY <3>1, <3>2
  <2>2. Turns'
    BY <1>2, <1>1, <1>3, <1>5 DEF FrameInv, Turns
  <2> QED
    BY <1>2, <1>5, <2>1, <2>2, BetweenUnchanged DEF FrameInv
<1>6. ASSUME serving' = "serve", NEW m, handled' = Append(handled, m) PROVE (Turns /\ Between)'
  <2>1. more /\ Last(handled') = m
    BY <1>3, <1>6 DEF Last
  <2>2. owed' = (m[1] # DOLLAR)
    BY <1>1, <2>1 DEF WantsAnswer
  <2>3. handled' \in Seq(S \cup {m})
    BY <1>3, <1>6
  <2>4. Turns'
    <3>1. owed' \in BOOLEAN
      BY <2>2, Zenon
    <3>2. sending' = "idle"
      BY <1>1, <1>2 DEF FrameInv, Turns
    <3> QED
      BY <1>2, <1>6, <2>3, <3>1, <3>2 DEF FrameInv, Turns
  <2>5. Asked(handled') = Asked(handled) + IF m[1] # DOLLAR THEN 1 ELSE 0
    BY <1>3, <1>6, AskedAppend
  <2>6. ASSUME peer' = "open", ~torn'
        PROVE  \E h : InFrame(IF sending = "body" THEN 2 ELSE 0, h)'
    <3>1. PICK h : InFrame(IF sending = "body" THEN 2 ELSE 0, h)
      BY <1>2, <2>6 DEF FrameInv, Between
    <3>2. h \in Nat /\ missed \in Nat /\ Asked(handled) \in Nat
      BY <3>1, AskedIsNat DEF FrameInv, InFrame, Turns
    <3>3. h + missed + 0 = Asked(handled)
      BY <1>1, <3>1 DEF InFrame
    <3>4. h + missed' + (IF owed' THEN 1 ELSE 0) = Asked(handled')
      <4> DEFINE x == IF m[1] # DOLLAR THEN 1 ELSE 0
      <4>1. x \in Int /\ x = IF owed' THEN 1 ELSE 0
        <5>1. owed' <=> m[1] # DOLLAR
          BY <2>2, Zenon
        <5> QED
          BY <5>1
      <4>2. Asked(handled') = Asked(handled) + x
        BY <2>5
      <4> HIDE DEF x
      <4>3. h + missed' + x = Asked(handled) + x
        BY <1>2, <3>2, <3>3, <4>1
      <4> QED
        BY <4>1, <4>2, <4>3
    <3>5. InFrame(IF sending = "body" THEN 2 ELSE 0, h)'
      BY <1>2, <3>1, <3>4 DEF InFrame
    <3> QED
      BY <3>5
  <2> QED
    BY <2>4, <2>6 DEF FrameInv, Between
<1> QED
  BY <1>4, <1>5, <1>6

LEMMA AnswerKeepsFrameInv ==
    ASSUME FrameInv, Answer PROVE (Turns /\ Between)'
<1>1. PICK n \in Takes(Response) :
         Send(Response, n) /\ missed' = IF n = 0 THEN missed + 1 ELSE missed
  BY DEF Answer, SendMsg
<1>2. owed /\ ~owed' /\ owed' = FALSE /\ UNCHANGED <<sending, sent, handled, serving>>
  BY DEF Answer, SendMsg, receiveVars
<1>3. serving = "serve" /\ sending = "idle" /\ room \in 0 .. SNDBUF /\ missed \in Nat
  BY <1>2 DEF FrameInv, Turns
<1>4. room' \in 0 .. SNDBUF
  BY <1>1, <1>3, SendTakes, PartsAreBytes
<1>5. Turns'
  <2>1. missed' \in Nat
    BY <1>1, <1>3
  <2>2. \E S : handled' \in Seq(S)
    BY <1>2 DEF FrameInv, Turns
  <2> QED
    BY <1>2, <1>3, <1>4, <2>1, <2>2 DEF Turns
<1>6. \A h \in Nat : reader = [rest |-> Rest(Framed, 0), heard |-> h] =>
         Heard(Response) = [rest |-> Rest(Framed, 0), heard |-> h + 1]
  BY WholeHeard
<1>7. Between'
  <2>1. (IF owed' THEN 1 ELSE 0) + 1 = IF owed THEN 1 ELSE 0
    BY <1>2
  <2>2. 1 \in {0, 1} /\ 0 \in {0, 2}
    OBVIOUS
  <2> DEFINE data == Response
             k == 1
             o == 0
  <2>3. data \in Bytes /\ data # <<>> /\ n \in Takes(data) /\ Send(data, n)
    BY <1>1, PartsAreBytes
  <2>4. /\ sending' = "idle" /\ sending' \in {"idle", "body"}
        /\ o = IF sending = "body" THEN 2 ELSE 0
        /\ o = IF sending' = "body" THEN 2 ELSE 0
    BY <1>2, <1>3
  <2>5. missed' = IF n = 0 THEN missed + k ELSE missed
    BY <1>1
  <2>6. \A h \in Nat : reader = [rest |-> Rest(Framed, o), heard |-> h] =>
           Heard(data) = [rest |-> Rest(Framed, o), heard |-> h + k]
    BY <1>6
  <2>7. Turns /\ Between /\ UNCHANGED handled /\ k \in {0, 1} /\ o \in {0, 2}
        /\ (IF owed' THEN 1 ELSE 0) + k = IF owed THEN 1 ELSE 0
    BY <1>2, <2>1, <2>2 DEF FrameInv
  <2> HIDE DEF data, k, o
  <2> QED
    BY <2>3, <2>4, <2>5, <2>6, <2>7, SendKeepsBetween
<1> QED
  BY <1>5, <1>7 DEF FrameInv

(* A part of a packet that goes out. *)
LEMMA TransmitKeepsFrameInv ==
    ASSUME FrameInv, NEW data \in Bytes, data # <<>>,
           NEW n \in Takes(data), Send(data, n),
           serving = "idle", UNCHANGED <<receiveVars, owed, missed>>,
           NEW o \in {0, 2}, NEW p \in {0, 2},
           o = IF sending = "body" THEN 2 ELSE 0,
           \A h \in Nat : reader = [rest |-> Rest(Framed, o), heard |-> h] =>
              Heard(data) = [rest |-> Rest(Framed, p), heard |-> h],
           sending' \in {"idle", "body"},
           n # 0 => p = IF sending' = "body" THEN 2 ELSE 0,
           n = 0 /\ sending # "body" => o = IF sending' = "body" THEN 2 ELSE 0
    PROVE  (Turns /\ Between)'
<1>1. ~owed /\ ~owed' /\ room \in 0 .. SNDBUF /\ missed \in Nat
  BY DEF FrameInv, Turns
<1>2. room' \in 0 .. SNDBUF
  BY <1>1, SendTakes
<1>3. Turns'
  BY <1>1, <1>2 DEF FrameInv, Turns, receiveVars
<1>4. CASE n = 0 /\ sending = "body"
  <2>1. ~(peer' = "open" /\ ~torn')
    BY <1>1, <1>4, SendTakes
  <2> QED
    BY <1>3, <2>1 DEF FrameInv, Between
<1>5. CASE ~(n = 0 /\ sending = "body")
  <2> DEFINE k == 0
  <2>1. missed' = IF n = 0 THEN missed + k ELSE missed
    BY <1>1
  <2>2. /\ (IF owed' THEN 1 ELSE 0) + k = IF owed THEN 1 ELSE 0
        /\ k \in {0, 1} /\ UNCHANGED handled /\ Turns /\ Between
    BY <1>1 DEF receiveVars, FrameInv
  <2>3. \A h \in Nat : reader = [rest |-> Rest(Framed, o), heard |-> h] =>
           Heard(data) = [rest |-> Rest(Framed, p), heard |-> h + k]
    <3>1. \A h \in Nat : h + k = h
      OBVIOUS
    <3> HIDE DEF k
    <3> QED
      BY <3>1
  <2> HIDE DEF k
  <2>4. n = 0 => o = IF sending' = "body" THEN 2 ELSE 0
    BY <1>5
  <2>5. Between'
    BY <2>1, <2>2, <2>3, <2>4, SendKeepsBetween
  <2> QED
    BY <1>3, <2>5 DEF FrameInv
<1> QED
  BY <1>4, <1>5

LEMMA NextFrameInv == FrameInv /\ [Next]_vars => FrameInv'
<1> SUFFICES ASSUME FrameInv, [Next]_vars PROVE (Turns /\ Between)'
  BY NextReceived DEF FrameInv
<1>1. CASE Talk \/ Deliver \/ Enter \/ Hangup
  <2>1. UNCHANGED <<sendVars, owed, handled>>
    BY <1>1 DEF Talk, ClientSend, Deliver, Arrive, Enter, Event, Hangup, PeerClosed
  <2>2. /\ serving' # "idle" => sending = "idle"
        /\ owed => serving' = "serve"
    BY <1>1 DEF Talk, ClientSend, Deliver, Arrive, Enter, Event, Hangup, PeerClosed,
                FrameInv, Turns
  <2>3. Turns'
    BY <2>1, <2>2 DEF FrameInv, Turns, sendVars
  <2> QED
    BY <2>1, <2>3, BetweenUnchanged DEF FrameInv, sendVars
<1>2. CASE Close
  <2>1. peer' = "closed" /\ room' = SNDBUF /\ UNCHANGED <<sending, missed, owed, handled, serving>>
    BY <1>2 DEF Close, ClientClose
  <2>2. SNDBUF \in 0 .. SNDBUF
    BY SizesAssumption
  <2>3. Turns'
    BY <2>1, <2>2 DEF FrameInv, Turns
  <2> QED
    BY <2>1, <2>3 DEF FrameInv, Between
<1>3. CASE Listen
  <2>1. /\ UNCHANGED <<sending, reader, torn, missed, peer, owed, handled, serving>>
        /\ \E r \in room + 1 .. SNDBUF : room' = r
    BY <1>3 DEF Listen, Drain, receiveVars
  <2>2. room' \in 0 .. SNDBUF
    BY <2>1, SizesAssumption DEF FrameInv, Turns
  <2>3. Turns'
    BY <2>1, <2>2 DEF FrameInv, Turns
  <2> QED
    BY <2>1, <2>3, BetweenUnchanged DEF FrameInv
<1>4. CASE Take
  BY <1>4, TakeKeepsFrameInv
<1>5. CASE Answer
  BY <1>5, AnswerKeepsFrameInv
<1>6. CASE TransmitHeader
  <2>1. PICK n \in Takes(Header) :
           Send(Header, n) /\ sending' = IF n = 0 THEN "idle" ELSE "body"
    BY <1>6 DEF TransmitHeader, Transmit, SendHeader
  <2>2. serving = "idle" /\ sending = "idle" /\ UNCHANGED <<receiveVars, owed, missed>>
    BY <1>6 DEF TransmitHeader, Transmit, SendHeader
  <2>3. \A h \in Nat : reader = [rest |-> Rest(Framed, 0), heard |-> h] =>
           Heard(Header) = [rest |-> Rest(Framed, 2), heard |-> h]
    BY WholeHeard
  <2>4. /\ 0 = IF sending = "body" THEN 2 ELSE 0
        /\ sending' \in {"idle", "body"}
        /\ n # 0 => 2 = IF sending' = "body" THEN 2 ELSE 0
        /\ n = 0 => 0 = IF sending' = "body" THEN 2 ELSE 0
    BY <2>1, <2>2
  <2>5. 0 \in {0, 2} /\ 2 \in {0, 2}
    OBVIOUS
  <2> QED
    BY <2>1, <2>2, <2>3, <2>4, <2>5, PartsAreBytes, TransmitKeepsFrameInv
<1>7. CASE TransmitBody
  <2>1. PICK n \in Takes(Body) : Send(Body, n)
    BY <1>7 DEF TransmitBody, Transmit, SendBody
  <2>2. /\ serving = "idle" /\ sending = "body" /\ sending' = "idle"
        /\ UNCHANGED <<receiveVars, owed, missed>>
    BY <1>7 DEF TransmitBody, Transmit, SendBody
  <2>3. \A h \in Nat : reader = [rest |-> Rest(Framed, 2), heard |-> h] =>
           Heard(Body) = [rest |-> Rest(Framed, 0), heard |-> h]
    BY WholeHeard
  <2>4. /\ 2 = IF sending = "body" THEN 2 ELSE 0
        /\ sending' \in {"idle", "body"}
        /\ 0 = IF sending' = "body" THEN 2 ELSE 0
        /\ ~(n = 0 /\ sending # "body")
    BY <2>2
  <2>5. 0 \in {0, 2} /\ 2 \in {0, 2}
    OBVIOUS
  <2> QED
    BY <2>1, <2>2, <2>3, <2>4, <2>5, PartsAreBytes, TransmitKeepsFrameInv
<1>8. CASE TransmitReport
  <2>1. PICK n \in Takes(Framed) : Send(Framed, n)
    BY <1>8 DEF TransmitReport, Transmit, SendReport, Framed
  <2>2. /\ serving = "idle" /\ sending = "idle" /\ sending' = "idle"
        /\ UNCHANGED <<receiveVars, owed, missed>>
    BY <1>8 DEF TransmitReport, Transmit, SendReport
  <2>3. \A h \in Nat : reader = [rest |-> Rest(Framed, 0), heard |-> h] =>
           Heard(Framed) = [rest |-> Rest(Framed, 0), heard |-> h]
    BY WholeHeard
  <2>4. /\ 0 = IF sending = "body" THEN 2 ELSE 0
        /\ sending' \in {"idle", "body"}
        /\ 0 = IF sending' = "body" THEN 2 ELSE 0
    BY <2>2
  <2>5. 0 \in {0, 2}
    OBVIOUS
  <2> QED
    BY <2>1, <2>2, <2>3, <2>4, <2>5, PartsAreBytes, TransmitKeepsFrameInv
<1>9. CASE UNCHANGED vars
  <2>1. UNCHANGED <<sending, room, reader, torn, missed, peer, owed, handled, serving>>
    BY <1>9 DEF vars, sendVars, receiveVars
  <2>2. Turns'
    BY <2>1 DEF FrameInv, Turns
  <2> QED
    BY <2>1, <2>2, BetweenUnchanged DEF FrameInv
<1> QED
  BY <1>1, <1>2, <1>3, <1>4, <1>5, <1>6, <1>7, <1>8, <1>9 DEF Next

LEMMA InitFrameInv == Init => FrameInv
<1> SUFFICES ASSUME Init PROVE FrameInv
  OBVIOUS
<1>1. /\ handled = <<>> /\ serving = "idle" /\ sending = "idle" /\ owed = FALSE
      /\ room = SNDBUF /\ missed = 0 /\ reader = [rest |-> <<>>, heard |-> 0]
  BY DEF Init, NothingReceived, NothingSent
<1>2. handled \in Seq(Int)
  BY <1>1
<1>3. Turns
  <2>1. \E S : handled \in Seq(S)
    BY <1>2
  <2>2. room \in 0 .. SNDBUF
    BY <1>1, SizesAssumption
  <2> QED
    BY <1>1, <2>1, <2>2 DEF Turns
<1>4. Asked(handled) = 0
  <2>1. {i \in DOMAIN handled : handled[i][1] # DOLLAR} = {}
    BY <1>1
  <2> QED
    BY <2>1, FS_EmptySet DEF Asked
<1>5. InFrame(0, 0)
  <2>1. Rest(Framed, 0) = <<>>
    BY DEF Rest
  <2>2. 0 + 0 + 0 = 0
    OBVIOUS
  <2> QED
    BY <1>1, <1>4, <2>1, <2>2 DEF InFrame
<1>6. Between
  BY <1>1, <1>5 DEF Between
<1>7. Received
  BY LimitsAssumption DEF Init, NothingReceived, Received, Bytes
<1> QED
  BY <1>3, <1>6, <1>7 DEF FrameInv

(* Packets and responses share the connection without getting into each
   other's way: until a send() stops within a frame, what a client reads is in
   frame, and each of its requests has had its response, or is owed it, or
   missed all of it (rtp_tx_data, rtsp_send_msg, rtcp_try_tx_sr and
   rtsp_do_event, rtsp_demo.c:1340-1377, 1251-1280, 2060-2129, 1572-1611). *)
THEOREM FramesOnlyTornBySends == Spec => []InFrameUnlessTorn
<1>1. FrameInv => InFrameUnlessTorn
  <2> SUFFICES ASSUME FrameInv, peer = "open", ~torn
               PROVE  /\ reader.rest # Lost
                      /\ reader.heard + missed + (IF owed THEN 1 ELSE 0) = Asked(handled)
    BY DEF InFrameUnlessTorn, Asked
  <2>1. PICK h : InFrame(IF sending = "body" THEN 2 ELSE 0, h)
    BY DEF FrameInv, Between
  <2>2. /\ reader.rest = Rest(Framed, 0) \/ reader.rest = Rest(Framed, 2)
        /\ reader.heard = h
    BY <2>1 DEF InFrame
  <2>3. Rest(Framed, 0) # Lost
    <3>1. Rest(Framed, 0) = <<>>
      BY DEF Rest
    <3> QED
      BY <3>1 DEF Lost
  <2>4. Rest(Framed, 2) # Lost
    <3>1. Rest(Framed, 2)[1] = 0
      BY BodyIs, FramedIs, SizesAssumption
    <3>2. Lost[1] = -6
      BY DEF Lost, TEXT, MAGIC
    <3> QED
      BY <3>1, <3>2
  <2> QED
    BY <2>1, <2>2, <2>3, <2>4 DEF InFrame
<1> QED
  BY InitFrameInv, NextFrameInv, <1>1, PTL DEF Spec

=============================================================================
