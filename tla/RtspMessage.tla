---------------------------- MODULE RtspMessage -----------------------------
(***************************************************************************)
(* rtsp_msg.c: a message is put together with the set functions, written   *)
(* into a buffer of limited size by rtsp_msg_build_to_array, and read back *)
(* line by line by rtsp_msg_parse_from_array, which also reads what a      *)
(* client has written.                                                     *)
(*                                                                         *)
(* A text is a sequence of pieces: the name of a header with its colon, a  *)
(* start line, parts of a value, CR, LF, bytes of the body. Each counts as *)
(* one byte. BAD is a value the parser of the header does not accept.      *)
(* "Content-Length" is what the framing asks of a line, its colon not      *)
(* included: what follows tells the framing and the parser apart.          *)
(* The limits on lines and headers are in RtspReceive.                     *)
(***************************************************************************)
EXTENDS Integers, Sequences, SequencesExt, FiniteSetsExt

CONSTANTS
    Field,         \* the headers in use, a subset of the names in BuildOrder
    BodyLengths,   \* lengths of a body
    Below,         \* how far below zero a length may be that a client writes
    MaxSize,       \* bound: size of the buffer written to
    MaxLines       \* bound: header lines of a client's message

BuildOrder ==
    <<"CSeq", "Date", "Session", "Transport", "Range", "Accept", "Authorization",
      "User-Agent", "Public", "RTP-Info", "Server", "Content-Type", "Content-Length">>

ASSUME FieldAssumption == Field \subseteq Range(BuildOrder) /\ "Content-Length" \in Field
ASSUME BoundsAssumption ==
    /\ BodyLengths \subseteq Nat /\ 0 \in BodyLengths
    /\ Below \subseteq Nat \ {0}
    /\ MaxSize \in Nat /\ MaxLines \in Nat

VARIABLES
    phase,   \* set, build, text, lines; then parsed, incomplete or refused
    msg,     \* the message being put together: headers and body
    line,    \* of it: the lines still to be built
    size,    \* room left in the buffer
    text,    \* what has been built, or received
    rest,    \* of it: where the parser is
    got,     \* the message the parser has read so far
    lines    \* history: header lines of a client's message, <<>> if built here

vars == <<phase, msg, line, size, text, rest, got, lines>>

NONE == <<>>
CR == "CR"
LF == "LF"
BAD == "BAD"
CRLF == <<CR, LF>>
Empty == [hdrs |-> [f \in Field |-> NONE], body |-> <<>>]

(* Headers whose parser and builder are still TODO, and those whose parser may
   fail; for the others every text will do. *)
Unstored == {"Range", "Authorization", "RTP-Info"}
MayFail == {"CSeq", "Session", "Transport", "Content-Type", "Content-Length"}

(* A length in a client's message is signed to the framing. The framing, whose format
   skips any space, takes a length right behind the colon too (Tight); no line
   of the parser's table begins so. BAD stands for a longer name as well, such
   as Content-Length-X: the framing refuses both. *)
Length == BodyLengths \cup {-n : n \in Below}
Digits(n) == <<ToString(n)>>
Tight(n) == <<":" \o ToString(n)>>
Says(v, n) == v = Digits(n) \/ v = Tight(n)
(* A number tells its value, and is nothing that ends a line. *)
NumbersTell ==
    \A n \in Length :
        /\ \A m \in Length : Digits(m) # Tight(n)
        /\ \A m \in Length : (Digits(m) = Digits(n) \/ Tight(m) = Tight(n)) => m = n
        /\ {Digits(n)[1], Tight(n)[1]} \cap {CR, LF, BAD, "Content-Length"} = {}
ASSUME DigitsAssumption == NumbersTell
Number(v) == CHOOSE n \in Length : Says(v, n)
Body(n) == [i \in 1 .. n |-> "body"]
StartLine == <<"start">> \o CRLF
HeaderLine(f, v) == <<f>> \o v \o CRLF
MessageLines(headers) == <<StartLine>> \o headers \o <<CRLF>>

Value == {<<"a">>, <<"b">>}

Init ==
    /\ msg = Empty
    /\ line = <<>>
    /\ size = 0
    /\ rest = <<>>
    /\ got = Empty
    /\ \/ phase = "set" /\ text = <<>> /\ lines = <<>>
       \/ /\ phase = "text"
          /\ lines \in BoundedSeq(
                 ((Field \ {"Content-Length"}) \X {<<"a">>, <<"b">>, <<BAD>>})
                 \cup ({"Content-Length"} \X ({<<BAD>>} \cup {Digits(n) : n \in Length}
                                                  \cup {Tight(n) : n \in Length}))
                 \cup {<<"Unknown", <<"a">> >>}, MaxLines) \ {<<>>}
          /\ \E n \in BodyLengths :
                text = FlattenSeq(MessageLines([i \in DOMAIN lines |-> HeaderLine(lines[i][1], lines[i][2])]))
                       \o Body(n)

-----------------------------------------------------------------------------
(* rtsp_msg_set_transport_...: the type is overwritten, a port or a channel
   that was set before stays. *)
TransportSet(v, type) ==
    LET own == IF type = "tcp" THEN ";interleaved" ELSE ";port"
        Kept(x) == IF x = own \/ x \in Range(v) THEN <<x>> ELSE <<>>
    IN <<type>> \o Kept(";port") \o Kept(";interleaved")

(* A body comes with its type and length. *)
WithBody(m, n) ==
    [hdrs |-> [f \in Field |-> CASE f = "Content-Length" -> Digits(n)
                                 [] f = "Content-Type" -> <<"a">>
                                 [] OTHER -> m.hdrs[f]],
     body |-> Body(n)]

(* The other headers are overwritten when they are set again. *)
Set ==
    /\ phase = "set"
    /\ \/ \E f \in Field \ (Unstored \cup {"Transport", "Content-Type", "Content-Length"}), v \in Value :
             msg' = [msg EXCEPT !.hdrs[f] = v]
       \/ "Transport" \in Field /\ \E type \in {"tcp", "udp"} :
             msg' = [msg EXCEPT !.hdrs["Transport"] = TransportSet(@, type)]
       \/ \E n \in BodyLengths : msg' = WithBody(msg, n)
    /\ UNCHANGED <<phase, line, size, text, rest, got, lines>>

(* The steps of rtsp_msg_build_to_array: each header in turn adds a line, or none,
   between the start line and the empty one. *)
FieldLine(m, f) == IF f \in Field /\ m.hdrs[f] # NONE THEN HeaderLine(f, m.hdrs[f]) ELSE <<>>
LinesOf(m) == MessageLines([i \in DOMAIN BuildOrder |-> FieldLine(m, BuildOrder[i])])
TextOf(m) == FlattenSeq(LinesOf(m)) \o m.body

Build ==
    /\ phase = "set"
    /\ phase' = "build"
    /\ line' = LinesOf(msg)
    /\ size' \in 1 .. MaxSize
    /\ UNCHANGED <<msg, text, rest, got, lines>>

Fits(n, room) == IF n < room THEN n ELSE room

(* MSG_BUILD_STEP: snprintf leaves the last byte for its NUL (mutant: a
   line that does not fit is left out). *)
Written_Whole(l) == IF Len(l) < size THEN l ELSE <<>>
Written(l) == SubSeq(l, 1, Fits(Len(l), size - 1))

GoesOn(room) == room > 1

BuildLine ==
    /\ phase = "build"
    /\ line # <<>>
    /\ LET w == Written(Head(line))
       IN /\ text' = text \o w
          /\ size' = size - Len(w)
          /\ phase' = IF GoesOn(size - Len(w)) THEN "build" ELSE "text"
    /\ line' = Tail(line)
    /\ UNCHANGED <<msg, rest, got, lines>>

(* The body may use the last byte too. *)
BodyWritten == SubSeq(msg.body, 1, Fits(Len(msg.body), size))

BuildBody ==
    /\ phase = "build"
    /\ line = <<>>
    /\ text' = text \o BodyWritten
    /\ size' = size - Len(BodyWritten)
    /\ phase' = "text"
    /\ UNCHANGED <<msg, line, rest, got, lines>>

-----------------------------------------------------------------------------
(* Where a CRLF begins, the end of the header, and the end of the frame. *)
Ends(b) == {i \in 1 .. Len(b) - 1 : SubSeq(b, i, i + 1) = CRLF}
HeaderEnds(b) == {i \in Ends(b) : i + 2 \in Ends(b)}
LengthFields(b) == {i \in 1 .. Min(HeaderEnds(b)) : b[i] = "Content-Length"}

(* Mutant: the first of two lengths counts. *)
ContentLength_First(b) ==
    IF LengthFields(b) = {} THEN 0 ELSE Number(<<b[Min(LengthFields(b)) + 1]>>)
ContentLength(b) ==
    IF LengthFields(b) = {} THEN 0 ELSE Number(<<b[Max(LengthFields(b)) + 1]>>)

(* rtsp_msg_frame_size; 0 while the frame is not complete. *)
FrameSize(b) ==
    IF HeaderEnds(b) = {} THEN 0
    ELSE IF \E i \in LengthFields(b) : b[i + 1] = BAD THEN -1
    ELSE LET whole == Min(HeaderEnds(b)) + 3 + ContentLength(b)
         IN IF Len(b) < whole THEN 0 ELSE whole

(* rtsp_msg_hdr_next_line. *)
NextLine(b) == SubSeq(b, 1, Min(Ends(b)) - 1)
AfterLine(b) == SubSeq(b, Min(Ends(b)) + 2, Len(b))

(* rtsp_msg_parse_from_array up to the start line. *)
ParseStart ==
    /\ phase = "text"
    /\ IF FrameSize(text) <= 0
       THEN phase' = (IF FrameSize(text) = 0 THEN "incomplete" ELSE "refused") /\ UNCHANGED rest
       ELSE phase' = "lines" /\ rest' = AfterLine(text)
    /\ UNCHANGED <<msg, line, size, text, got, lines>>

(* rtsp_msg_hdr_line_parse_tbl and the parsers: what a line leaves in the
   message. *)
Unknown(l) ==
    \/ Head(l) \notin Field
    \/ Head(l) = "Content-Length" /\ \E n \in Length : Tail(l) = Tight(n)
Parsed(m, l) ==
    IF Unknown(l) \/ Head(l) \in Unstored THEN m ELSE [m EXCEPT !.hdrs[Head(l)] = Tail(l)]

Fails(l) == Head(l) \in MayFail /\ BAD \in Range(l)

ParseLine ==
    /\ phase = "lines"
    /\ NextLine(rest) # <<>>
    /\ IF Fails(NextLine(rest))
       THEN phase' = "refused" /\ got' = Empty /\ UNCHANGED rest
       ELSE got' = Parsed(got, NextLine(rest)) /\ rest' = AfterLine(rest) /\ UNCHANGED phase
    /\ UNCHANGED <<msg, line, size, text, lines>>

(* Mutant: the body is taken from the line before it on. *)
BodyFrom_Line(b) == b
BodyFrom(b) == AfterLine(b)

(* rtsp_mem_dup: the body is as long as the parser's length says, which need not
   be the one the frame was cut by; beyond the text it is what lies there.
   Nothing can be allocated for a negative one. *)
LengthOf(m) == IF m.hdrs["Content-Length"] = NONE THEN 0 ELSE Number(m.hdrs["Content-Length"])
BodyRead(n) == [i \in 1 .. n |-> IF i <= Len(BodyFrom(rest)) THEN BodyFrom(rest)[i] ELSE "stale"]

ParseBody ==
    /\ phase = "lines"
    /\ NextLine(rest) = <<>>
    /\ IF LengthOf(got) < 0
       THEN phase' = "refused" /\ got' = Empty
       ELSE phase' = "parsed" /\ got' = [got EXCEPT !.body = BodyRead(LengthOf(got))]
    /\ UNCHANGED <<msg, line, size, text, rest, lines>>

-----------------------------------------------------------------------------
Next == Set \/ Build \/ BuildLine \/ BuildBody \/ ParseStart \/ ParseLine \/ ParseBody

Spec == Init /\ [][Next]_vars

-----------------------------------------------------------------------------
Built == lines = <<>> /\ phase \notin {"set", "build"}

(* Whatever size the buffer has, what is written is the beginning of the
   message, never more than the buffer holds, and all of it when there is room
   to spare. A message that was cut is never mistaken for a shorter complete
   one: its reader waits for the rest, header or body, wherever the cut is
   (rtsp_msg.c:805-837 against 926-1000). *)
CutIsIncomplete ==
    Built =>
        /\ IsPrefix(text, TextOf(msg)) /\ size >= 0
        /\ size > 1 => text = TextOf(msg)
        /\ text # TextOf(msg) => phase \in {"text", "incomplete"}

(* What is read back from a message that fit is the message that was put
   together, every header that is stored and the whole body: what the builders
   write is what the parsers accept (rtsp_msg.c:390-683, 881-911). *)
ReadsBack == Built /\ phase \in {"parsed", "refused"} => phase = "parsed" /\ got = msg

(* The last line of a header the parser knows, and what it says of the length;
   and the length the frame is cut by. *)
LastOf(f) ==
    Max({i \in DOMAIN lines : lines[i][1] = f /\ ~Unknown(<<f>> \o lines[i][2])} \cup {0})
LengthRead == IF LastOf("Content-Length") = 0 THEN 0 ELSE Number(lines[LastOf("Content-Length")][2])
LastLength == Max({i \in DOMAIN lines : lines[i][1] = "Content-Length"} \cup {0})
LengthFramed == IF LastLength = 0 THEN 0 ELSE Number(lines[LastLength][2])

(* A client's message is refused, and with it the connection, only for a line
   of a header that cannot be read or for a negative length; and one with such
   a line is never served, be it overridden by a later line. In one that is
   served the last line of each header counts, unknown ones and those still
   TODO are passed over, and the body is as long as the last Content-Length the
   parser knows: it is the client's whenever the frame was cut by the same
   length. That may not be so, for the framing takes lengths the parser does not
   (rtsp_msg.c:822-833 against 707, 881-911). *)
ServedAsWritten ==
    LET bad == \E i \in DOMAIN lines : lines[i][1] \in MayFail /\ lines[i][2] = <<BAD>>
    IN lines # <<>> =>
        /\ phase = "refused" => bad \/ LengthRead < 0 \/ LengthFramed < 0
        /\ phase = "parsed" =>
              /\ ~bad /\ LengthRead >= 0
              /\ Len(got.body) = LengthRead
              /\ LengthFramed = LengthRead => got.body = Body(LengthRead)
              /\ \A f \in Field \ Unstored :
                    got.hdrs[f] = IF LastOf(f) = 0 THEN NONE ELSE lines[LastOf(f)][2]

=============================================================================
