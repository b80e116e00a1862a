------------------------- MODULE RtspMessageProofs --------------------------
(***************************************************************************)
(* Proofs about RtspMessage, for any headers, lengths of a body, buffers   *)
(* and number of lines: a message that did not fit is incomplete to its    *)
(* reader, one that fit is read back as it was, and a client's message is  *)
(* read as written. First what the texts of some lines are, then what the  *)
(* parser finds in them, then that each step keeps builder and parser      *)
(* where MessageInv has them.                                              *)
(***************************************************************************)
EXTENDS RtspMessage, SequenceTheorems, WellFoundedInduction, TLAPS

-----------------------------------------------------------------------------
(* A set of natural numbers that is not empty has a least element: what is
   shown by induction elsewhere is shown here for the least counterexample. *)
LEMMA LeastElement ==
    ASSUME NEW T \in SUBSET Nat, T # {}
    PROVE  \E x \in T : \A y \in T : x <= y
<1>1. PICK x \in T : \A y \in T : ~ (<<y, x>> \in OpToRel(<, Nat))
  BY NatLessThanWellFounded, WFMin
<1>2. ASSUME NEW y \in T PROVE x <= y
  <2>1. <<y, x>> \notin OpToRel(<, Nat) /\ <<y, x>> \in Nat \X Nat
    BY <1>1
  <2>2. ~(y < x) /\ x \in Nat /\ y \in Nat
    BY <2>1 DEF OpToRel
  <2> QED
    BY <2>2
<1> QED
  BY <1>2

(* Induction, for a set instead of a predicate. *)
LEMMA SetInduction ==
    ASSUME NEW S, 0 \in S, \A n \in Nat : n \in S => n + 1 \in S
    PROVE  Nat \subseteq S
<1> SUFFICES ASSUME Nat \ S # {} PROVE FALSE
  OBVIOUS
<1>1. PICK n \in Nat \ S : \A m \in Nat \ S : n <= m
  <2>1. Nat \ S \in SUBSET Nat
    OBVIOUS
  <2> QED
    BY <2>1, LeastElement
<1>2. n - 1 \in Nat /\ ~(n <= n - 1) /\ (n - 1) + 1 = n
  BY <1>1
<1> QED
  BY <1>1, <1>2

-----------------------------------------------------------------------------
(* FlattenSeq, which the library defines by a recursive function: its turns. *)
Turns(f, q) ==
    /\ f = [i \in 1 .. Len(q) |-> f[i]]
    /\ \A i \in 1 .. Len(q) : f[i] = IF i = 1 THEN q[i] ELSE f[i - 1] \o q[i]

(* There are such turns, one after the other. *)
LEMMA TurnsDefined ==
    ASSUME NEW S, NEW q \in Seq(S)
    PROVE  \E f : Turns(f, q)
<1> DEFINE Upto(f, n) == \A i \in 1 .. n : f[i] = IF i = 1 THEN q[i] ELSE f[i - 1] \o q[i]
           T == {n \in Nat : \E f : Upto(f, n)}
<1>1. 0 \in T
  OBVIOUS
<1>2. ASSUME NEW n \in Nat, n \in T PROVE n + 1 \in T
  <2>1. PICK f : Upto(f, n)
    BY <1>2
  <2>2. PICK g : g = [i \in 1 .. n + 1 |-> IF i <= n THEN f[i]
                        ELSE IF i = 1 THEN q[i] ELSE f[i - 1] \o q[i]]
    OBVIOUS
  <2>3. ASSUME NEW i \in 1 .. n + 1 PROVE g[i] = IF i = 1 THEN q[i] ELSE g[i - 1] \o q[i]
    <3>1. i # 1 => i - 1 \in 1 .. n + 1 /\ i - 1 <= n
      OBVIOUS
    <3>2. i # 1 => g[i - 1] = f[i - 1]
      BY <2>2, <3>1
    <3>3. CASE i <= n
      <4>1. i \in 1 .. n
        BY <3>3
      <4> QED
        BY <2>1, <2>2, <3>2, <3>3, <4>1
    <3>4. CASE ~(i <= n)
      BY <2>2, <3>2, <3>4
    <3> QED
      BY <3>3, <3>4
  <2>4. Upto(g, n + 1)
    BY <2>3
  <2> QED
    BY <2>4
<1> HIDE DEF T
<1>3. Len(q) \in T
  BY <1>1, <1>2, SetInduction, LenProperties
<1>4. PICK f : Upto(f, Len(q))
  BY <1>3 DEF T
<1>5. PICK g : g = [i \in 1 .. Len(q) |-> f[i]]
  OBVIOUS
<1>6. Len(q) \in Nat
  OBVIOUS
<1>7. ASSUME NEW i \in 1 .. Len(q) PROVE g[i] = IF i = 1 THEN q[i] ELSE g[i - 1] \o q[i]
  <2>1. i # 1 => i - 1 \in 1 .. Len(q)
    BY <1>6
  <2> QED
    BY <1>4, <1>5, <2>1
<1> QED
  <2>1. g = [i \in 1 .. Len(q) |-> g[i]]
    BY <1>5
  <2> QED
    BY <1>7, <2>1 DEF Turns

(* The text is the last turn. *)
LEMMA FlattenTurns ==
    ASSUME NEW S, NEW q \in Seq(S), q # <<>>
    PROVE  \E f : Turns(f, q) /\ FlattenSeq(q) = f[Len(q)]
<1> DEFINE f == CHOOSE f : f = [i \in 1 .. Len(q) |-> IF i = 1 THEN q[i] ELSE f[i - 1] \o q[i]]
<1>1. FlattenSeq(q) = f[Len(q)]
  BY DEF FlattenSeq
<1>2. PICK g : Turns(g, q)
  BY TurnsDefined
<1>3. g = [i \in 1 .. Len(q) |-> IF i = 1 THEN q[i] ELSE g[i - 1] \o q[i]]
  BY <1>2 DEF Turns
<1>4. f = [i \in 1 .. Len(q) |-> IF i = 1 THEN q[i] ELSE f[i - 1] \o q[i]]
  BY <1>3, Zenon DEF f
<1> HIDE DEF f
<1>5. \A i \in 1 .. Len(q) : f[i] = IF i = 1 THEN q[i] ELSE f[i - 1] \o q[i]
  BY <1>4, Zenon
<1>6. f = [i \in 1 .. Len(q) |-> f[i]]
  BY <1>4
<1> QED
  BY <1>1, <1>5, <1>6 DEF Turns

(* The turns for two texts that begin alike agree so far. *)
LEMMA TurnsAgree ==
    ASSUME NEW f, NEW g, NEW s, NEW q, Turns(f, s), Turns(g, q), Len(s) \in Nat, Len(q) \in Nat,
           NEW n \in Nat, n <= Len(s), n <= Len(q), \A i \in 1 .. n : s[i] = q[i]
    PROVE  \A i \in 1 .. n : f[i] = g[i]
<1> DEFINE T == {k \in Nat : \A i \in 1 .. k : i <= n => f[i] = g[i]}
<1>1. 0 \in T
  OBVIOUS
<1>2. ASSUME NEW k \in Nat, k \in T PROVE k + 1 \in T
  <2> SUFFICES ASSUME k + 1 <= n PROVE f[k + 1] = g[k + 1]
    BY <1>2
  <2>1. k + 1 \in 1 .. Len(s) /\ k + 1 \in 1 .. Len(q) /\ k + 1 \in 1 .. n /\ (k + 1) - 1 = k
    OBVIOUS
  <2>2. k + 1 # 1 => k \in 1 .. k /\ k <= n
    OBVIOUS
  <2>3. k + 1 # 1 => f[k] = g[k]
    BY <1>2, <2>2
  <2>4. f[k + 1] = IF k + 1 = 1 THEN s[k + 1] ELSE f[k] \o s[k + 1]
    BY <2>1 DEF Turns
  <2>5. g[k + 1] = IF k + 1 = 1 THEN q[k + 1] ELSE g[k] \o q[k + 1]
    BY <2>1 DEF Turns
  <2> QED
    BY <2>1, <2>3, <2>4, <2>5
<1> HIDE DEF T
<1>3. n \in T
  BY <1>1, <1>2, SetInduction
<1> QED
  BY <1>3 DEF T

LEMMA FlattenEmpty == FlattenSeq(<<>>) = <<>>
  BY DEF FlattenSeq

(* A line more at the end of the text. *)
LEMMA FlattenAppend ==
    ASSUME NEW S, NEW q \in Seq(Seq(S)), NEW x \in Seq(S)
    PROVE  FlattenSeq(Append(q, x)) = FlattenSeq(q) \o x
<1> DEFINE r == Append(q, x)
           n == Len(q)
<1>1. /\ n \in Nat /\ r \in Seq(Seq(S)) /\ Len(r) = n + 1 /\ r # <<>>
      /\ \A i \in 1 .. n : r[i] = q[i]
      /\ r[n + 1] = x
  BY AppendProperties
<1>2. PICK f : Turns(f, r) /\ FlattenSeq(r) = f[n + 1]
  BY <1>1, FlattenTurns
<1> HIDE DEF r
<1>3. CASE q = <<>>
  <2>1. n = 0 /\ f[1] = r[1]
    BY <1>1, <1>2, <1>3 DEF Turns
  <2> QED
    BY <1>1, <1>2, <1>3, <2>1, FlattenEmpty DEF r
<1>4. CASE q # <<>>
  <2>1. PICK g : Turns(g, q) /\ FlattenSeq(q) = g[n]
    BY <1>4, FlattenTurns
  <2>2. n \in 1 .. n /\ n + 1 \in 1 .. n + 1 /\ n + 1 # 1 /\ (n + 1) - 1 = n
    BY <1>1, <1>4
  <2>3. f[n] = g[n]
    <3>1. n <= Len(r) /\ n <= Len(q) /\ Len(r) \in Nat /\ Len(q) \in Nat /\ n \in Nat
      BY <1>1
    <3>2. Turns(f, r) /\ Turns(g, q) /\ \A i \in 1 .. n : r[i] = q[i]
      BY <1>1, <1>2, <2>1
    <3>3. \A i \in 1 .. n : f[i] = g[i]
      <4> HIDE DEF n
      <4> QED
        BY <3>1, <3>2, TurnsAgree, SMTT(30)
    <3> QED
      BY <2>2, <3>3
  <2>4. f[n + 1] = f[n] \o r[n + 1]
    BY <1>1, <1>2, <2>2 DEF Turns
  <2> QED
    BY <1>1, <1>2, <2>1, <2>3, <2>4 DEF r
<1> QED
  BY <1>3, <1>4

(* A text from some of its lines: those up to n. *)
LEMMA OneMore ==
    ASSUME NEW S, NEW q \in Seq(S), NEW n \in Nat, n < Len(q)
    PROVE  /\ q[n + 1] \in S
           /\ SubSeq(q, 1, n) \in Seq(S)
           /\ SubSeq(q, 1, n + 1) = Append(SubSeq(q, 1, n), q[n + 1])
<1>1. n + 1 \in 1 .. Len(q) /\ 1 \in 1 .. Len(q) /\ n \in 0 .. Len(q) /\ (n + 1) - 1 = n
  BY LenProperties
<1>2. q[n + 1] \in S
  BY <1>1
<1>3. SubSeq(q, 1, n) \in Seq(S)
  BY <1>1
<1>4. SubSeq(q, 1, n + 1) = SubSeq(q, 1, n) \o <<q[n + 1]>>
  BY <1>1, SubSeqRecursiveSecond
<1> QED
  BY <1>2, <1>3, <1>4, AppendIsConcat

(* Lines of bytes make a text of bytes. *)
LEMMA FlattenType ==
    ASSUME NEW S, NEW q \in Seq(Seq(S))
    PROVE  FlattenSeq(q) \in Seq(S)
<1> DEFINE T == {n \in Nat : n <= Len(q) => FlattenSeq(SubSeq(q, 1, n)) \in Seq(S)}
<1>1. 0 \in T
  <2>1. SubSeq(q, 1, 0) = <<>>
    BY SubSeqEmpty
  <2> QED
    BY <2>1, FlattenEmpty, EmptySeq
<1>2. ASSUME NEW n \in Nat, n \in T PROVE n + 1 \in T
  <2> SUFFICES ASSUME n + 1 <= Len(q) PROVE FlattenSeq(SubSeq(q, 1, n + 1)) \in Seq(S)
    OBVIOUS
  <2>1. n < Len(q) /\ n <= Len(q)
    BY LenProperties
  <2>2. /\ SubSeq(q, 1, n) \in Seq(Seq(S)) /\ q[n + 1] \in Seq(S)
        /\ SubSeq(q, 1, n + 1) = Append(SubSeq(q, 1, n), q[n + 1])
    BY <2>1, OneMore
  <2>3. FlattenSeq(Append(SubSeq(q, 1, n), q[n + 1])) = FlattenSeq(SubSeq(q, 1, n)) \o q[n + 1]
    BY <2>2, FlattenAppend
  <2>4. FlattenSeq(SubSeq(q, 1, n)) \in Seq(S)
    BY <1>2, <2>1
  <2>5. FlattenSeq(SubSeq(q, 1, n)) \o q[n + 1] \in Seq(S)
    BY <2>2, <2>4, ConcatProperties
  <2> QED
    BY <2>2, <2>3, <2>5
<1> HIDE DEF T
<1>3. Len(q) \in T
  BY <1>1, <1>2, SetInduction, LenProperties
<1>4. Len(q) <= Len(q) /\ SubSeq(q, 1, Len(q)) = q
  BY LenProperties, SubSeqFull
<1> QED
  BY <1>3, <1>4 DEF T

(* The text of some lines, and of some more behind them. *)
LEMMA FlattenConcat ==
    ASSUME NEW S, NEW s \in Seq(Seq(S)), NEW q \in Seq(Seq(S))
    PROVE  FlattenSeq(s \o q) = FlattenSeq(s) \o FlattenSeq(q)
<1> DEFINE part(n) == SubSeq(q, 1, n)
           T == {n \in Nat : n <= Len(q) => FlattenSeq(s \o part(n)) = FlattenSeq(s) \o FlattenSeq(part(n))}
<1>0. FlattenSeq(s) \in Seq(S)
  BY FlattenType
<1>1. 0 \in T
  <2>1. part(0) = <<>>
    BY SubSeqEmpty
  <2>2. s \o <<>> = s
    BY ConcatEmptySeq
  <2>3. FlattenSeq(s) \o <<>> = FlattenSeq(s)
    BY <1>0, ConcatEmptySeq
  <2> QED
    BY <2>1, <2>2, <2>3, FlattenEmpty
<1>2. ASSUME NEW n \in Nat, n \in T PROVE n + 1 \in T
  <2> SUFFICES ASSUME n + 1 <= Len(q)
               PROVE  FlattenSeq(s \o part(n + 1)) = FlattenSeq(s) \o FlattenSeq(part(n + 1))
    OBVIOUS
  <2>1. n < Len(q) /\ n <= Len(q)
    BY LenProperties
  <2>2. /\ part(n) \in Seq(Seq(S)) /\ q[n + 1] \in Seq(S)
        /\ part(n + 1) = Append(part(n), q[n + 1])
    BY <2>1, OneMore
  <2>3. FlattenSeq(s \o part(n)) = FlattenSeq(s) \o FlattenSeq(part(n))
    BY <1>2, <2>1
  <2> HIDE DEF part
  <2>4. s \o Append(part(n), q[n + 1]) = Append(s \o part(n), q[n + 1])
    <3>1. s \o part(n) \in Seq(Seq(S))
      BY <2>2, ConcatProperties
    <3>2. <<q[n + 1]>> \in Seq(Seq(S))
      BY <2>2
    <3>3. (s \o part(n)) \o <<q[n + 1]>> = s \o (part(n) \o <<q[n + 1]>>)
      <4>1. PICK a, b, c : a = s /\ b = part(n) /\ c = <<q[n + 1]>>
        OBVIOUS
      <4>2. a \in Seq(Seq(S)) /\ b \in Seq(Seq(S)) /\ c \in Seq(Seq(S))
        BY <2>2, <3>2, <4>1
      <4>3. (a \o b) \o c = a \o (b \o c)
        BY <4>2, SMTT(60)
      <4> QED
        BY <4>1, <4>3
    <3>4. Append(part(n), q[n + 1]) = part(n) \o <<q[n + 1]>>
      BY <2>2, AppendIsConcat, Zenon
    <3>5. Append(s \o part(n), q[n + 1]) = (s \o part(n)) \o <<q[n + 1]>>
      BY <2>2, <3>1, AppendIsConcat, Zenon
    <3> QED
      BY <3>3, <3>4, <3>5
  <2>5. FlattenSeq(Append(s \o part(n), q[n + 1])) = (FlattenSeq(s) \o FlattenSeq(part(n))) \o q[n + 1]
    <3>1. s \o part(n) \in Seq(Seq(S))
      BY <2>2, ConcatProperties
    <3>2. FlattenSeq(Append(s \o part(n), q[n + 1])) = FlattenSeq(s \o part(n)) \o q[n + 1]
      BY <2>2, <3>1, FlattenAppend, Zenon
    <3> QED
      BY <2>3, <3>2
  <2>6. FlattenSeq(Append(part(n), q[n + 1])) = FlattenSeq(part(n)) \o q[n + 1]
    BY <2>2, FlattenAppend
  <2>7. FlattenSeq(part(n)) \in Seq(S)
    BY <2>2, FlattenType
  <2>8. (FlattenSeq(s) \o FlattenSeq(part(n))) \o q[n + 1]
          = FlattenSeq(s) \o (FlattenSeq(part(n)) \o q[n + 1])
    <3>1. PICK a, b, c : a = FlattenSeq(s) /\ b = FlattenSeq(part(n)) /\ c = q[n + 1]
      OBVIOUS
    <3>2. a \in Seq(S) /\ b \in Seq(S) /\ c \in Seq(S)
      BY <1>0, <2>2, <2>7, <3>1
    <3>3. (a \o b) \o c = a \o (b \o c)
      BY <3>2, SMTT(30)
    <3> QED
      BY <3>1, <3>3
  <2> QED
    BY <2>2, <2>4, <2>5, <2>6, <2>8
<1> HIDE DEF T
<1>3. Len(q) \in T
  BY <1>1, <1>2, SetInduction, LenProperties
<1>4. Len(q) <= Len(q) /\ SubSeq(q, 1, Len(q)) = q
  BY LenProperties, SubSeqFull
<1> QED
  BY <1>3, <1>4 DEF T

LEMMA FlattenOne ==
    ASSUME NEW S, NEW x \in Seq(S)
    PROVE  FlattenSeq(<<x>>) = x
<1>1. <<x>> = Append(<<>>, x) /\ <<>> \in Seq(Seq(S))
  OBVIOUS
<1>2. FlattenSeq(Append(<<>>, x)) = FlattenSeq(<<>>) \o x
  BY <1>1, FlattenAppend, Zenon
<1>3. <<>> \o x = x
  BY ConcatEmptySeq, Zenon
<1> QED
  BY <1>1, <1>2, <1>3, FlattenEmpty

-----------------------------------------------------------------------------
(* The bytes there are, and the texts they make. *)
Piece ==
    {CR, LF, BAD, "start", "body", "a", "b", "tcp", "udp", ";port", ";interleaved", "Unknown"}
        \cup Range(BuildOrder) \cup {Digits(n)[1] : n \in Length} \cup {Tight(n)[1] : n \in Length}
Text == Seq(Piece)
CL == "Content-Length"

(* What may follow the name of a length. *)
LengthPiece(c) == c = BAD \/ \E n \in Length : Says(<<c>>, n)

(* A header line without its CRLF. *)
Plain(x) ==
    /\ x \in Text /\ x # <<>>
    /\ \A i \in 1 .. Len(x) : x[i] # CR
    /\ \A i \in 2 .. Len(x) : x[i] # CL
    /\ x[1] = CL => Len(x) = 2 /\ LengthPiece(x[2])

(* Places of the length within the header, for a text r with a body of m bytes;
   the last value, and whether one is bad. *)
Fields(r, m) == {i \in 1 .. Len(r) - m : r[i] = CL}
Given(r, m) == IF Fields(r, m) = {} THEN NONE ELSE <<r[Max(Fields(r, m)) + 1]>>
BadIn(r, m) == \E i \in Fields(r, m) : r[i + 1] = BAD

(* A text from some line of the header on, the last empty one at least, with a body
   of m bytes. *)
Left(r, m) ==
    /\ r \in Text /\ m \in Nat /\ Len(r) >= m + 2
    /\ r[Len(r) - m - 1] = CR /\ r[Len(r) - m] = LF
    /\ r[1] = CR => Len(r) = m + 2
    /\ Len(r) > m + 2 => Len(r) > m + 4 /\ r[Len(r) - m - 3] = CR /\ r[Len(r) - m - 2] = LF
    /\ \A i \in HeaderEnds(r) : i >= Len(r) - m - 3
    /\ \A i \in Fields(r, m) : /\ i + 1 \in 1 .. Len(r) - m
                               /\ LengthPiece(r[i + 1])

-----------------------------------------------------------------------------
(* The text u is s and then t. *)
Joined(u, s, t) ==
    /\ Len(s) \in Nat /\ Len(t) \in Nat /\ Len(u) = Len(s) + Len(t)
    /\ \A i \in 1 .. Len(s) : u[i] = s[i]
    /\ \A i \in 1 .. Len(t) : u[Len(s) + i] = t[i]

LEMMA ConcatPlaces ==
    ASSUME NEW S, NEW s \in Seq(S), NEW t \in Seq(S)
    PROVE  s \o t \in Seq(S) /\ Joined(s \o t, s, t)
<1>1. Len(s) \in Nat /\ Len(t) \in Nat
  OBVIOUS
<1>2. /\ s \o t \in Seq(S) /\ Len(s \o t) = Len(s) + Len(t)
      /\ \A i \in 1 .. Len(s) + Len(t) : (s \o t)[i] = IF i <= Len(s) THEN s[i] ELSE t[i - Len(s)]
  BY ConcatProperties
<1> QED
  BY <1>1, <1>2 DEF Joined

LEMMA PairEqual ==
    ASSUME NEW S, NEW s \in Seq(S), Len(s) = 2, NEW a, NEW b
    PROVE  s = <<a, b>> <=> s[1] = a /\ s[2] = b
<1>1. s \in [1 .. 2 -> S]
  BY LenProperties
<1>2. s = <<s[1], s[2]>>
  BY <1>1
<1> QED
  BY <1>2

LEMMA CrlfIs == CRLF \in Text /\ Len(CRLF) = 2 /\ CRLF[1] = CR /\ CRLF[2] = LF
<1>1. CR \in Piece /\ LF \in Piece
  BY DEF Piece
<1> QED
  BY <1>1 DEF CRLF, Text

(* Where a CRLF begins, and where two of them do, byte by byte. *)
LEMMA EndsAre ==
    ASSUME NEW b \in Text
    PROVE  /\ \A i : i \in Ends(b) <=> i \in 1 .. Len(b) - 1 /\ b[i] = CR /\ b[i + 1] = LF
           /\ \A i : i \in HeaderEnds(b) <=>
                 /\ i \in 1 .. Len(b) - 3 /\ b[i] = CR /\ b[i + 1] = LF
                 /\ b[i + 2] = CR /\ b[i + 3] = LF
<1>0. Len(b) \in Nat
  BY LenProperties DEF Text
<1>1. ASSUME NEW i \in 1 .. Len(b) - 1
      PROVE  SubSeq(b, i, i + 1) = CRLF <=> b[i] = CR /\ b[i + 1] = LF
  <2>1. \A j \in i .. i + 1 : b[j] \in Piece
    BY <1>0 DEF Text
  <2>2. /\ SubSeq(b, i, i + 1) \in Seq(Piece) /\ Len(SubSeq(b, i, i + 1)) = 2
        /\ SubSeq(b, i, i + 1)[1] = b[i] /\ SubSeq(b, i, i + 1)[2] = b[i + 1]
    <3>1. i \in Int /\ i + 1 \in Int /\ i <= i + 1 /\ (i + 1) - i + 1 = 2 /\ i + 1 - 1 = i /\ i + 2 - 1 = i + 1
      BY <1>0
    <3>2. /\ SubSeq(b, i, i + 1) \in Seq(Piece)
          /\ Len(SubSeq(b, i, i + 1)) = IF i <= i + 1 THEN (i + 1) - i + 1 ELSE 0
          /\ \A j \in 1 .. (i + 1) - i + 1 : SubSeq(b, i, i + 1)[j] = b[i + j - 1]
      BY <2>1, <3>1, SubSeqProperties
    <3> QED
      BY <3>1, <3>2
  <2> QED
    <3>1. PICK s : s = SubSeq(b, i, i + 1)
      OBVIOUS
    <3>2. s \in Seq(Piece) /\ Len(s) = 2 /\ s[1] = b[i] /\ s[2] = b[i + 1]
      BY <2>2, <3>1
    <3>3. s = <<CR, LF>> <=> s[1] = CR /\ s[2] = LF
      BY <3>2, PairEqual
    <3> QED
      BY <3>1, <3>2, <3>3 DEF CRLF
<1>2. \A i : i \in Ends(b) <=> i \in 1 .. Len(b) - 1 /\ b[i] = CR /\ b[i + 1] = LF
  BY <1>1 DEF Ends
<1>3. \A i : i \in HeaderEnds(b) <=> i \in Ends(b) /\ i + 2 \in Ends(b)
  BY DEF HeaderEnds
<1>4. ASSUME NEW i
      PROVE  i \in HeaderEnds(b) <=>
                 /\ i \in 1 .. Len(b) - 3 /\ b[i] = CR /\ b[i + 1] = LF
                 /\ b[i + 2] = CR /\ b[i + 3] = LF
  <2>1. i \in Int => (i + 2) + 1 = i + 3
    OBVIOUS
  <2>2. i \in 1 .. Len(b) - 1 /\ i + 2 \in 1 .. Len(b) - 1 <=> i \in 1 .. Len(b) - 3
    BY <1>0
  <2> QED
    BY <1>2, <1>3, <2>1, <2>2
<1> QED
  BY <1>2, <1>4

(* Where things are in a line followed by r. *)
LEMMA LineThen ==
    ASSUME NEW x, Plain(x), NEW r \in Text
    PROVE  /\ x \o CRLF \in Text /\ (x \o CRLF) \o r \in Text
           /\ Len(x) \in Nat \ {0} /\ Len(r) \in Nat /\ Len((x \o CRLF) \o r) = Len(x) + 2 + Len(r)
           /\ \A i \in 1 .. Len(x) : ((x \o CRLF) \o r)[i] = x[i]
           /\ ((x \o CRLF) \o r)[Len(x) + 1] = CR
           /\ ((x \o CRLF) \o r)[Len(x) + 2] = LF
           /\ \A i \in 1 .. Len(r) : ((x \o CRLF) \o r)[Len(x) + 2 + i] = r[i]
<1>1. /\ x \in Seq(Piece) /\ Len(x) \in Nat \ {0}
      /\ CRLF \in Seq(Piece) /\ Len(CRLF) = 2 /\ CRLF[1] = CR /\ CRLF[2] = LF
      /\ r \in Seq(Piece) /\ Len(r) \in Nat
  BY CrlfIs DEF Plain, Text
<1> DEFINE l == x \o CRLF
<1>2. /\ l \in Seq(Piece) /\ Len(l) = Len(x) + 2
      /\ \A i \in 1 .. Len(x) : l[i] = x[i]
      /\ l[Len(x) + 1] = CR /\ l[Len(x) + 2] = LF
  <2>1. l \in Seq(Piece) /\ Joined(l, x, CRLF)
    BY <1>1, ConcatPlaces
  <2> HIDE DEF l
  <2> QED
    BY <1>1, <2>1 DEF Joined
<1> HIDE DEF l
<1>3. /\ l \o r \in Seq(Piece) /\ Len(l \o r) = Len(l) + Len(r)
      /\ \A i \in 1 .. Len(l) : (l \o r)[i] = l[i]
      /\ \A i \in 1 .. Len(r) : (l \o r)[Len(l) + i] = r[i]
  <2>1. l \in Seq(Piece) /\ r \in Seq(Piece)
    BY <1>1, <1>2
  <2> QED
    <3>1. l \o r \in Seq(Piece) /\ Joined(l \o r, l, r)
      BY <2>1, ConcatPlaces
    <3> QED
      BY <3>1 DEF Joined
<1>4. /\ Len(l \o r) = Len(x) + 2 + Len(r)
      /\ \A i \in 1 .. Len(x) : (l \o r)[i] = x[i]
      /\ (l \o r)[Len(x) + 1] = CR /\ (l \o r)[Len(x) + 2] = LF
      /\ \A i \in 1 .. Len(r) : (l \o r)[Len(x) + 2 + i] = r[i]
  BY <1>1, <1>2, <1>3
<1> QED
  BY <1>1, <1>2, <1>3, <1>4 DEF l, Text

(* The last empty line, with the body behind it. *)
LEMMA LastLine ==
    ASSUME NEW bd \in Text, CR \notin Range(bd)
    PROVE  /\ Left(CRLF \o bd, Len(bd))
           /\ Fields(CRLF \o bd, Len(bd)) = {}
           /\ Len(CRLF \o bd) = Len(bd) + 2
<1> DEFINE r == CRLF \o bd
           m == Len(bd)
<1>1. /\ r \in Text /\ m \in Nat /\ Len(r) = m + 2 /\ r[1] = CR /\ r[2] = LF
      /\ \A i \in 1 .. m : r[2 + i] = bd[i]
  <2>1. r \in Seq(Piece) /\ Joined(r, CRLF, bd)
    BY CrlfIs, ConcatPlaces DEF Text
  <2> HIDE DEF r
  <2> QED
    BY <2>1, CrlfIs DEF Joined, Text
<1> HIDE DEF r, m
<1>2. \A i \in HeaderEnds(r) : i >= Len(r) - m - 3
  <2> SUFFICES ASSUME NEW i \in HeaderEnds(r) PROVE i >= Len(r) - m - 3
    OBVIOUS
  <2>1. i \in 1 .. Len(r) - 3
    BY <1>1, EndsAre
  <2>2. Len(r) - m - 3 = -1
    BY <1>1
  <2> QED
    BY <1>1, <2>1, <2>2
<1>3. Fields(r, m) = {}
  <2> SUFFICES ASSUME NEW i \in 1 .. 2 PROVE r[i] # CL
    BY <1>1 DEF Fields
  <2>1. i = 1 \/ i = 2
    OBVIOUS
  <2> QED
    BY <1>1, <2>1 DEF CL, CR, LF
<1>4. Len(r) - m - 1 = 1 /\ Len(r) - m = 2
  BY <1>1
<1>5. Left(r, m)
  BY <1>1, <1>2, <1>3, <1>4 DEF Left
<1> QED
  BY <1>1, <1>3, <1>5 DEF r, m

(* One line more in front of r. *)
LEMMA MoreFields ==
    ASSUME NEW x, Plain(x), NEW r, NEW m, Left(r, m)
    PROVE  \A i : i \in Fields((x \o CRLF) \o r, m) <=>
              (i = 1 /\ x[1] = CL) \/ (i - (Len(x) + 2) \in Fields(r, m) /\ i \in Int)
<1> DEFINE b == (x \o CRLF) \o r
           n == Len(x)
<1>1. /\ b \in Text /\ n \in Nat \ {0} /\ Len(r) \in Nat /\ Len(b) = n + 2 + Len(r)
      /\ \A i \in 1 .. n : b[i] = x[i]
      /\ b[n + 1] = CR /\ b[n + 2] = LF
      /\ \A i \in 1 .. Len(r) : b[n + 2 + i] = r[i]
  BY LineThen, SMTT(30) DEF Left
<1> HIDE DEF b, n
<1>2. /\ m \in Nat /\ Len(r) >= m + 2
  BY DEF Left
<1>3. ASSUME NEW i \in Fields(b, m)
      PROVE  (i = 1 /\ x[1] = CL) \/ (i - (n + 2) \in Fields(r, m) /\ i \in Int)
  <2>1. i \in 1 .. Len(b) - m /\ b[i] = CL
    BY DEF Fields
  <2>2. CASE i <= n
    <3>1. i \in 1 .. n /\ x[i] = CL
      BY <1>1, <1>2, <2>1, <2>2
    <3>2. i \notin 2 .. Len(x)
      BY <3>1 DEF Plain
    <3>3. i = 1
      BY <1>1, <3>1, <3>2 DEF n
    <3> QED
      BY <3>1, <3>3
  <2>3. CASE i = n + 1 \/ i = n + 2
    BY <1>1, <2>1, <2>3 DEF CL, CR, LF
  <2>4. CASE i > n + 2
    <3>1. PICK j : j = i - (n + 2)
      OBVIOUS
    <3>2. j \in 1 .. Len(r) - m /\ j \in 1 .. Len(r) /\ i = n + 2 + j /\ i \in Int
      BY <1>1, <1>2, <2>1, <2>4, <3>1
    <3>3. r[j] = CL
      BY <1>1, <2>1, <3>2
    <3> QED
      BY <3>1, <3>2, <3>3 DEF Fields
  <2> QED
    BY <1>1, <1>2, <2>1, <2>2, <2>3, <2>4, SMTT(30)
<1>4. ASSUME x[1] = CL PROVE 1 \in Fields(b, m)
  <2>1. 1 \in 1 .. n /\ 1 \in 1 .. Len(b) - m
    BY <1>1, <1>2
  <2> QED
    BY <1>1, <1>4, <2>1 DEF Fields
<1>5. ASSUME NEW i \in Int, i - (n + 2) \in Fields(r, m) PROVE i \in Fields(b, m)
  <2>1. PICK j : j = i - (n + 2)
    OBVIOUS
  <2>2. j \in 1 .. Len(r) - m /\ r[j] = CL
    BY <1>5, <2>1 DEF Fields
  <2>3. j \in 1 .. Len(r) /\ i = n + 2 + j /\ i \in 1 .. Len(b) - m
    <3>1. j \in Int /\ 1 <= j /\ j <= Len(r) - m
      BY <1>1, <1>2, <2>2
    <3> QED
      BY <1>1, <1>2, <2>1, <3>1
  <2>4. b[n + 2 + j] = r[j]
    BY <1>1, <2>3
  <2> QED
    BY <2>2, <2>3, <2>4 DEF Fields
<1> QED
  BY <1>3, <1>4, <1>5 DEF b, n

(* What is left from a line on, with that line. *)
LEMMA MoreLeft ==
    ASSUME NEW x, Plain(x), NEW r, NEW m, Left(r, m)
    PROVE  Left((x \o CRLF) \o r, m)
<1> DEFINE b == (x \o CRLF) \o r
           n == Len(x)
<1>1. /\ b \in Text /\ n \in Nat \ {0} /\ Len(r) \in Nat /\ Len(b) = n + 2 + Len(r)
      /\ \A i \in 1 .. n : b[i] = x[i]
      /\ b[n + 1] = CR /\ b[n + 2] = LF
      /\ \A i \in 1 .. Len(r) : b[n + 2 + i] = r[i]
  BY LineThen, SMTT(30) DEF Left
<1>0. \A i : i \in Fields(b, m) <=>
              (i = 1 /\ x[1] = CL) \/ (i - (n + 2) \in Fields(r, m) /\ i \in Int)
  BY MoreFields
<1>2. \A i \in 1 .. n : x[i] # CR
  BY DEF Plain
<1> HIDE DEF b, n
<1>3. /\ r \in Text /\ m \in Nat /\ Len(r) >= m + 2
      /\ r[Len(r) - m - 1] = CR /\ r[Len(r) - m] = LF
      /\ r[1] = CR => Len(r) = m + 2
      /\ Len(r) > m + 2 => Len(r) > m + 4 /\ r[Len(r) - m - 3] = CR /\ r[Len(r) - m - 2] = LF
      /\ \A i \in HeaderEnds(r) : i >= Len(r) - m - 3
      /\ \A i \in Fields(r, m) : /\ i + 1 \in 1 .. Len(r) - m
                                 /\ LengthPiece(r[i + 1])
  BY DEF Left
<1>4. Len(b) >= m + 2 /\ b[Len(b) - m - 1] = CR /\ b[Len(b) - m] = LF
  <2>1. Len(r) - m - 1 \in 1 .. Len(r) /\ Len(r) - m \in 1 .. Len(r)
    BY <1>1, <1>3
  <2>2. b[n + 2 + (Len(r) - m - 1)] = CR /\ b[n + 2 + (Len(r) - m)] = LF
    BY <1>1, <1>3, <2>1
  <2>3. n + 2 + (Len(r) - m - 1) = Len(b) - m - 1 /\ n + 2 + (Len(r) - m) = Len(b) - m
    BY <1>1, <1>3
  <2> QED
    BY <1>1, <1>3, <2>2, <2>3
<1>5. b[1] # CR
  <2>1. 1 \in 1 .. n
    BY <1>1
  <2> QED
    BY <1>1, <1>2, <2>1
<1>6. Len(b) > m + 4 /\ b[Len(b) - m - 3] = CR /\ b[Len(b) - m - 2] = LF
  <2>1. CASE Len(r) = m + 2
    <3>1. Len(b) - m - 3 = n + 1 /\ Len(b) - m - 2 = n + 2
      BY <1>1, <1>3, <2>1
    <3>2. Len(b) > m + 4
      BY <1>1, <1>3, <2>1
    <3> QED
      BY <1>1, <3>1, <3>2
  <2>2. CASE Len(r) > m + 2
    <3>1. Len(r) - m - 3 \in 1 .. Len(r) /\ Len(r) - m - 2 \in 1 .. Len(r)
      BY <1>1, <1>3, <2>2
    <3>2. b[n + 2 + (Len(r) - m - 3)] = CR /\ b[n + 2 + (Len(r) - m - 2)] = LF
      BY <1>1, <1>3, <2>2, <3>1
    <3>3. n + 2 + (Len(r) - m - 3) = Len(b) - m - 3 /\ n + 2 + (Len(r) - m - 2) = Len(b) - m - 2
      BY <1>1, <1>3
    <3> QED
      BY <1>1, <1>3, <2>2, <3>2, <3>3
  <2> QED
    BY <1>1, <1>3, <2>1, <2>2
<1>7. ASSUME NEW i \in HeaderEnds(b) PROVE i >= Len(b) - m - 3
  <2>1. /\ i \in 1 .. Len(b) - 3 /\ b[i] = CR /\ b[i + 1] = LF
        /\ b[i + 2] = CR /\ b[i + 3] = LF
    BY <1>1, <1>7, EndsAre
  <2>2. CASE i <= n
    BY <1>1, <1>2, <2>1, <2>2
  <2>3. CASE i = n + 1
    <3>1. i + 2 = n + 2 + 1 /\ 1 \in 1 .. Len(r)
      BY <1>1, <1>3, <2>3
    <3>2. r[1] = CR
      BY <1>1, <2>1, <3>1
    <3> QED
      BY <1>1, <1>3, <2>3, <3>2
  <2>4. CASE i = n + 2
    BY <1>1, <2>1, <2>4 DEF CR, LF
  <2>5. CASE i > n + 2
    <3>1. PICK j : j = i - (n + 2)
      OBVIOUS
    <3>2. /\ j \in 1 .. Len(r) - 3 /\ i = n + 2 + j
          /\ j \in 1 .. Len(r) /\ j + 1 \in 1 .. Len(r) /\ j + 2 \in 1 .. Len(r) /\ j + 3 \in 1 .. Len(r)
          /\ n + 2 + (j + 1) = i + 1 /\ n + 2 + (j + 2) = i + 2 /\ n + 2 + (j + 3) = i + 3
      <4>1. i \in Int /\ i >= n + 3 /\ i <= n + Len(r) - 1 /\ n \in Int /\ Len(r) \in Int
        BY <1>1, <2>1, <2>5
      <4>2. PICK k : k = Len(r)
        OBVIOUS
      <4>3. j \in Int /\ 1 <= j /\ j <= k - 3 /\ i = n + 2 + j /\ k \in Int
        BY <3>1, <4>1, <4>2
      <4>4. n + 2 + (j + 1) = i + 1 /\ n + 2 + (j + 2) = i + 2 /\ n + 2 + (j + 3) = i + 3
        BY <4>1, <4>3
      <4>5. j \in 1 .. k - 3 /\ j \in 1 .. k /\ j + 1 \in 1 .. k /\ j + 2 \in 1 .. k /\ j + 3 \in 1 .. k
        BY <4>3
      <4> QED
        BY <4>2, <4>3, <4>4, <4>5
    <3>3. r[j] = b[i] /\ r[j + 1] = b[i + 1] /\ r[j + 2] = b[i + 2] /\ r[j + 3] = b[i + 3]
      BY <1>1, <3>2
    <3>4. j \in HeaderEnds(r)
      BY <1>3, <2>1, <3>2, <3>3, EndsAre
    <3>5. j >= Len(r) - m - 3
      BY <1>3, <3>4
    <3>6. /\ n \in Int /\ j \in Int /\ m \in Int /\ Len(r) \in Int
          /\ i = n + 2 + j /\ Len(b) = n + 2 + Len(r) /\ j >= Len(r) - m - 3
      BY <1>1, <1>3, <3>2, <3>5
    <3> QED
      BY <3>6
  <2> QED
    BY <1>1, <2>1, <2>2, <2>3, <2>4, <2>5, SMTT(30)
<1>8. ASSUME NEW i \in Fields(b, m)
      PROVE  /\ i + 1 \in 1 .. Len(b) - m
             /\ LengthPiece(b[i + 1])
  <2>1. CASE i = 1 /\ x[1] = CL
    <3>1. n = 2 /\ LengthPiece(x[2])
      BY <2>1 DEF Plain, n
    <3>2. b[2] = x[2] /\ 1 + 1 = 2
      BY <1>1, <3>1
    <3> QED
      BY <1>1, <1>3, <2>1, <3>1, <3>2
  <2>2. CASE i - (n + 2) \in Fields(r, m) /\ i \in Int
    <3>1. PICK j : j = i - (n + 2)
      OBVIOUS
    <3>2. j + 1 \in 1 .. Len(r) - m /\ LengthPiece(r[j + 1])
      BY <1>3, <2>2, <3>1
    <3>3. j \in Int /\ j + 1 \in 1 .. Len(r) /\ n + 2 + (j + 1) = i + 1 /\ i + 1 \in 1 .. Len(b) - m
      BY <1>1, <1>3, <2>2, <3>1, <3>2, SMTT(30)
    <3>4. b[i + 1] = r[j + 1]
      BY <1>1, <3>3
    <3> QED
      BY <3>2, <3>3, <3>4
  <2> QED
    BY <1>0, <2>1, <2>2
<1>9. Left(b, m)
  BY <1>1, <1>3, <1>4, <1>5, <1>6, <1>7, <1>8 DEF Left
<1> QED
  BY <1>9 DEF b

(* The last of some places. *)
LEMMA MaxIs ==
    ASSUME NEW S \in SUBSET Int, NEW i \in S, \A j \in S : j <= i
    PROVE  Max(S) = i
<1>1. \E k \in S : \A j \in S : k >= j
  OBVIOUS
<1>2. Max(S) \in S /\ \A j \in S : Max(S) >= j
  BY <1>1 DEF Max
<1>3. PICK m : m = Max(S)
  OBVIOUS
<1>4. m \in S /\ m >= i /\ m <= i /\ m \in Int /\ i \in Int
  BY <1>2, <1>3
<1>5. m = i
  BY <1>4
<1> QED
  BY <1>3, <1>5

(* A last one there is. *)
LEMMA LastOne ==
    ASSUME NEW n \in Nat, NEW S, S \subseteq 1 .. n, S # {}
    PROVE  Max(S) \in S /\ \A j \in S : j <= Max(S)
<1> DEFINE U == {k \in Nat : \A j \in S : j <= k}
<1>1. U \in SUBSET Nat /\ U # {}
  <2>1. n \in U
    OBVIOUS
  <2> QED
    BY <2>1
<1>2. PICK k \in U : \A j \in U : k <= j
  BY <1>1, LeastElement
<1>3. k \in S
  <2> SUFFICES ASSUME k \notin S PROVE FALSE
    OBVIOUS
  <2>1. k \in Nat /\ \A j \in S : j <= k /\ j # k /\ j \in Nat /\ 1 <= j
    BY <1>2
  <2>2. k >= 1
    <3>1. PICK j \in S : TRUE
      OBVIOUS
    <3>2. j <= k /\ j \in Nat /\ 1 <= j
      BY <2>1, <3>1
    <3> QED
      BY <2>1, <3>2
  <2>3. k - 1 \in U
    BY <2>1, <2>2
  <2> QED
    BY <1>2, <2>1, <2>3
<1>4. \A j \in S : j <= k
  BY <1>2
<1>5. Max(S) = k
  BY <1>3, <1>4, MaxIs
<1> QED
  BY <1>3, <1>4, <1>5

(* What a line says of the length. *)
LEMMA MoreGiven ==
    ASSUME NEW x, Plain(x), NEW r, NEW m, Left(r, m)
    PROVE  /\ Given((x \o CRLF) \o r, m) = IF Given(r, m) # NONE THEN Given(r, m)
                                           ELSE IF x[1] = CL THEN <<x[2]>> ELSE NONE
           /\ BadIn((x \o CRLF) \o r, m) <=> (x[1] = CL /\ x[2] = BAD) \/ BadIn(r, m)
<1> DEFINE b == (x \o CRLF) \o r
           n == Len(x)
<1>1. /\ b \in Text /\ n \in Nat \ {0} /\ Len(r) \in Nat /\ Len(b) = n + 2 + Len(r)
      /\ \A i \in 1 .. n : b[i] = x[i]
      /\ \A i \in 1 .. Len(r) : b[n + 2 + i] = r[i]
  BY LineThen, ZenonT(60) DEF Left
<1>2. \A i : i \in Fields(b, m) <=>
              (i = 1 /\ x[1] = CL) \/ (i - (n + 2) \in Fields(r, m) /\ i \in Int)
  BY MoreFields
<1>3. x[1] = CL => n = 2
  BY DEF Plain
<1> HIDE DEF b, n
<1>4. x[1] = CL => b[1 + 1] = x[2]
  BY <1>1, <1>3
<1>5. /\ m \in Nat /\ Len(r) >= m + 2
      /\ \A i \in Fields(r, m) : i \in Nat /\ i \in 1 .. Len(r) /\ i + 1 \in 1 .. Len(r)
  <2>1. /\ m \in Nat /\ Len(r) >= m + 2
        /\ \A i \in Fields(r, m) : i \in 1 .. Len(r) - m /\ i + 1 \in 1 .. Len(r) - m
    BY DEF Left, Fields
  <2>2. ASSUME NEW i \in 1 .. Len(r) - m PROVE i \in Nat /\ i \in 1 .. Len(r)
    BY <1>1, <2>1, <2>2
  <2>3. ASSUME NEW i \in Int, i + 1 \in 1 .. Len(r) - m PROVE i + 1 \in 1 .. Len(r)
    BY <1>1, <2>1, <2>3
  <2> QED
    BY <2>1, <2>2, <2>3
<1>6. ASSUME NEW j \in Fields(r, m)
      PROVE  n + 2 + j \in Fields(b, m) /\ b[(n + 2 + j) + 1] = r[j + 1]
  <2>0. j \in Nat /\ n \in Nat
    BY <1>1, <1>5
  <2>1. (n + 2 + j) - (n + 2) = j /\ n + 2 + j \in Int /\ (n + 2 + j) + 1 = n + 2 + (j + 1)
    BY <2>0
  <2> QED
    BY <1>1, <1>2, <1>5, <2>1, SMTT(30)
<1>7. ASSUME NEW i \in Fields(b, m), ~(i = 1 /\ x[1] = CL)
      PROVE  \E j \in Fields(r, m) : i = n + 2 + j
  <2>1. i - (n + 2) \in Fields(r, m) /\ i \in Int
    BY <1>2, <1>7
  <2>2. i = n + 2 + (i - (n + 2))
    BY <1>1, <2>1
  <2> QED
    BY <2>1, <2>2
<1>8. ASSUME x[1] = CL PROVE 1 \in Fields(b, m)
  BY <1>2, <1>8
<1>9. BadIn(b, m) <=> (x[1] = CL /\ x[2] = BAD) \/ BadIn(r, m)
  <2>1. ASSUME BadIn(b, m) PROVE (x[1] = CL /\ x[2] = BAD) \/ BadIn(r, m)
    <3>1. PICK i \in Fields(b, m) : b[i + 1] = BAD
      BY <2>1 DEF BadIn
    <3>2. CASE i = 1 /\ x[1] = CL
      BY <1>4, <3>1, <3>2
    <3>3. CASE ~(i = 1 /\ x[1] = CL)
      <4>1. PICK j \in Fields(r, m) : i = n + 2 + j
        BY <1>7, <3>3
      <4> QED
        BY <1>6, <3>1, <4>1 DEF BadIn
    <3> QED
      BY <3>2, <3>3
  <2>2. ASSUME x[1] = CL, x[2] = BAD PROVE BadIn(b, m)
    BY <1>4, <1>8, <2>2 DEF BadIn
  <2>3. ASSUME BadIn(r, m) PROVE BadIn(b, m)
    BY <1>6, <2>3 DEF BadIn
  <2> QED
    BY <2>1, <2>2, <2>3
<1>10. Fields(r, m) \subseteq 1 .. Len(r)
  BY <1>1, <1>5
<1>11. Given(b, m) = IF Given(r, m) # NONE THEN Given(r, m)
                     ELSE IF x[1] = CL THEN <<x[2]>> ELSE NONE
  <2>1. CASE Fields(r, m) # {}
    <3>1. PICK k : k = Max(Fields(r, m))
      OBVIOUS
    <3>2. k \in Fields(r, m) /\ \A j \in Fields(r, m) : j <= k
      BY <1>1, <1>10, <2>1, <3>1, LastOne
    <3>3. n + 2 + k \in Fields(b, m) /\ b[(n + 2 + k) + 1] = r[k + 1]
      BY <1>6, <3>2
    <3>4. ASSUME NEW i \in Fields(b, m) PROVE i \in Int /\ i <= n + 2 + k
      <4>1. CASE i = 1 /\ x[1] = CL
        BY <1>1, <1>5, <3>2, <4>1
      <4>2. CASE ~(i = 1 /\ x[1] = CL)
        <5>1. PICK j \in Fields(r, m) : i = n + 2 + j
          BY <1>7, <4>2
        <5>2. j <= k /\ j \in Nat /\ k \in Nat
          BY <1>5, <3>2
        <5> QED
          BY <1>1, <5>1, <5>2
      <4> QED
        BY <4>1, <4>2
    <3>5. Max(Fields(b, m)) = n + 2 + k
      BY <3>3, <3>4, MaxIs
    <3>6. Given(b, m) = <<r[k + 1]>>
      BY <3>3, <3>5 DEF Given
    <3>7. Given(r, m) = <<r[k + 1]>> /\ <<r[k + 1]>> # NONE
      BY <2>1, <3>1 DEF Given, NONE
    <3> QED
      BY <3>6, <3>7
  <2>2. CASE Fields(r, m) = {}
    <3>1. Given(r, m) = NONE
      BY <2>2 DEF Given
    <3>2. CASE x[1] = CL
      <4>1. \A i \in Fields(b, m) : i = 1
        BY <1>7, <2>2
      <4>2. Fields(b, m) = {1}
        BY <1>8, <3>2, <4>1
      <4>3. Max({1}) = 1
        BY MaxIs
      <4>4. Given(b, m) = <<x[2]>>
        BY <1>4, <3>2, <4>2, <4>3 DEF Given
      <4> QED
        BY <3>1, <3>2, <4>4
    <3>3. CASE x[1] # CL
      <4>1. Fields(b, m) = {}
        BY <1>7, <2>2, <3>3
      <4> QED
        BY <3>1, <3>3, <4>1 DEF Given
    <3> QED
      BY <3>2, <3>3
  <2> QED
    BY <2>1, <2>2
<1> QED
  BY <1>9, <1>11 DEF b

(* The first of some places. *)
LEMMA MinIs ==
    ASSUME NEW S \in SUBSET Int, NEW i \in S, \A j \in S : i <= j
    PROVE  Min(S) = i
<1>1. \E k \in S : \A j \in S : k <= j
  OBVIOUS
<1>2. Min(S) \in S /\ \A j \in S : Min(S) <= j
  BY <1>1 DEF Min
<1>3. PICK m : m = Min(S)
  OBVIOUS
<1>4. m \in S /\ m >= i /\ m <= i /\ m \in Int /\ i \in Int
  BY <1>2, <1>3
<1>5. m = i
  BY <1>4
<1> QED
  BY <1>3, <1>5

(* The parser finds the line, and what follows it. *)
LEMMA LineRead ==
    ASSUME NEW x, Plain(x), NEW r \in Text
    PROVE  /\ NextLine((x \o CRLF) \o r) = x
           /\ AfterLine((x \o CRLF) \o r) = r
<1> DEFINE b == (x \o CRLF) \o r
           n == Len(x)
<1>1. /\ b \in Text /\ n \in Nat \ {0} /\ Len(r) \in Nat /\ Len(b) = n + 2 + Len(r)
      /\ \A i \in 1 .. n : b[i] = x[i]
      /\ b[n + 1] = CR /\ b[n + 2] = LF
      /\ \A i \in 1 .. Len(r) : b[n + 2 + i] = r[i]
  BY LineThen
<1>2. x \in Text /\ \A i \in 1 .. n : x[i] # CR
  BY DEF Plain
<1> HIDE DEF b
<1>3. n + 1 \in Ends(b)
  <2>1. n + 1 \in 1 .. Len(b) - 1 /\ (n + 1) + 1 = n + 2
    BY <1>1
  <2> QED
    BY <1>1, <2>1, EndsAre
<1>4. ASSUME NEW j \in Ends(b) PROVE n + 1 <= j
  <2>1. j \in 1 .. Len(b) - 1 /\ b[j] = CR
    BY <1>1, <1>4, EndsAre
  <2>2. ~(j <= n)
    BY <1>1, <1>2, <2>1
  <2> QED
    BY <1>1, <2>1, <2>2
<1>5. Ends(b) \subseteq Int
  BY DEF Ends
<1>6. Min(Ends(b)) = n + 1
  BY <1>3, <1>4, <1>5, MinIs
<1>7. NextLine(b) = SubSeq(b, 1, n)
  <2>1. (n + 1) - 1 = n
    BY <1>1
  <2> QED
    BY <1>6, <2>1 DEF NextLine
<1>8. AfterLine(b) = SubSeq(b, n + 3, Len(b))
  <2>1. (n + 1) + 2 = n + 3
    BY <1>1
  <2> QED
    BY <1>6, <2>1 DEF AfterLine
<1>9. SubSeq(b, 1, n) = x
  <2>1. /\ SubSeq(b, 1, n) \in Seq(Piece) /\ Len(SubSeq(b, 1, n)) = n
        /\ \A i \in 1 .. n : SubSeq(b, 1, n)[i] = b[i]
    BY <1>1 DEF Text
  <2> QED
    BY <1>1, <1>2, <2>1, SeqEqual DEF Text
<1>10. SubSeq(b, n + 3, Len(b)) = r
  <2>1. /\ SubSeq(b, n + 3, Len(b)) \in Seq(Piece) /\ Len(SubSeq(b, n + 3, Len(b))) = Len(r)
        /\ \A i \in 1 .. Len(r) : SubSeq(b, n + 3, Len(b))[i] = b[n + 2 + i]
    <3>1. \A i \in n + 3 .. Len(b) : b[i] \in Piece
      BY <1>1 DEF Text
    <3>2. n + 3 \in Int /\ Len(b) \in Int /\ Len(b) - (n + 3) + 1 = Len(r) /\ n + 3 <= Len(b) + 1
      BY <1>1
    <3>3. /\ SubSeq(b, n + 3, Len(b)) \in Seq(Piece)
          /\ Len(SubSeq(b, n + 3, Len(b))) = IF n + 3 <= Len(b) THEN Len(b) - (n + 3) + 1 ELSE 0
          /\ \A i \in 1 .. Len(b) - (n + 3) + 1 : SubSeq(b, n + 3, Len(b))[i] = b[n + 3 + i - 1]
      BY <3>1, <3>2, SubSeqProperties
    <3>4. Len(SubSeq(b, n + 3, Len(b))) = Len(r)
      BY <1>1, <3>2, <3>3
    <3>5. \A i \in 1 .. Len(r) : n + 3 + i - 1 = n + 2 + i
      BY <1>1
    <3> QED
      BY <3>2, <3>3, <3>4, <3>5
  <2> QED
    BY <1>1, <2>1, SeqEqual DEF Text
<1> QED
  BY <1>7, <1>8, <1>9, <1>10 DEF b

(* The parser finds the empty line, and the body behind it. *)
LEMMA LastRead ==
    ASSUME NEW bd \in Text
    PROVE  NextLine(CRLF \o bd) = <<>> /\ AfterLine(CRLF \o bd) = bd
<1> DEFINE b == CRLF \o bd
<1>1. /\ b \in Text /\ Len(bd) \in Nat /\ Len(b) = Len(bd) + 2 /\ b[1] = CR /\ b[2] = LF
      /\ \A i \in 1 .. Len(bd) : b[2 + i] = bd[i]
  <2>1. b \in Seq(Piece) /\ Joined(b, CRLF, bd)
    BY CrlfIs, ConcatPlaces DEF Text
  <2> HIDE DEF b
  <2> QED
    BY <2>1, CrlfIs DEF Joined, Text
<1> HIDE DEF b
<1>2. 1 \in Ends(b)
  <2>1. 1 \in 1 .. Len(b) - 1 /\ 1 + 1 = 2
    BY <1>1
  <2> QED
    BY <1>1, <2>1, EndsAre
<1>3. Ends(b) \subseteq Int /\ \A j \in Ends(b) : 1 <= j
  BY <1>1 DEF Ends
<1>4. Min(Ends(b)) = 1
  BY <1>2, <1>3, MinIs
<1>5. NextLine(b) = SubSeq(b, 1, 0) /\ AfterLine(b) = SubSeq(b, 3, Len(b))
  BY <1>4 DEF NextLine, AfterLine
<1>6. SubSeq(b, 1, 0) = <<>>
  BY SubSeqEmpty
<1>7. SubSeq(b, 3, Len(b)) = bd
  <2>1. /\ SubSeq(b, 3, Len(b)) \in Seq(Piece) /\ Len(SubSeq(b, 3, Len(b))) = Len(bd)
        /\ \A i \in 1 .. Len(bd) : SubSeq(b, 3, Len(b))[i] = b[2 + i]
    <3>1. \A i \in 3 .. Len(b) : b[i] \in Piece
      BY <1>1 DEF Text
    <3>2. 3 \in Int /\ Len(b) \in Int /\ Len(b) - 3 + 1 = Len(bd) /\ 3 <= Len(b) + 1
      BY <1>1
    <3>3. /\ SubSeq(b, 3, Len(b)) \in Seq(Piece)
          /\ Len(SubSeq(b, 3, Len(b))) = IF 3 <= Len(b) THEN Len(b) - 3 + 1 ELSE 0
          /\ \A i \in 1 .. Len(b) - 3 + 1 : SubSeq(b, 3, Len(b))[i] = b[3 + i - 1]
      BY <3>1, <3>2, SubSeqProperties
    <3>4. Len(SubSeq(b, 3, Len(b))) = Len(bd)
      BY <1>1, <3>2, <3>3
    <3>5. \A i \in 1 .. Len(bd) : 3 + i - 1 = 2 + i
      BY <1>1
    <3> QED
      BY <3>2, <3>3, <3>4, <3>5
  <2> QED
    BY <1>1, <2>1, SeqEqual DEF Text
<1> QED
  BY <1>5, <1>6, <1>7 DEF b

-----------------------------------------------------------------------------
(* Lines, some of them left out, with a body; from the line after k on. *)
Lined(X) == [i \in 1 .. Len(X) |-> IF X[i] = <<>> THEN <<>> ELSE X[i] \o CRLF]
Lines(X) == X \in Seq(Text) /\ \A i \in 1 .. Len(X) : X[i] = <<>> \/ Plain(X[i])
Rest(X, k, bd) == FlattenSeq(SubSeq(Lined(X), k + 1, Len(X))) \o (CRLF \o bd)
Whole(X, bd) == FlattenSeq(MessageLines(Lined(X))) \o bd
Names(x, f) == x # <<>> /\ x[1] = f

(* The lines with their CRLF, one by one. *)
LEMMA LinedIs ==
    ASSUME NEW X, Lines(X)
    PROVE  /\ Lined(X) \in Seq(Seq(Piece)) /\ Len(X) \in Nat /\ Len(Lined(X)) = Len(X)
           /\ \A i \in 1 .. Len(X) : Lined(X)[i] = IF X[i] = <<>> THEN <<>> ELSE X[i] \o CRLF
<1>1. Len(X) \in Nat /\ \A i \in 1 .. Len(X) : X[i] \in Seq(Piece)
  BY DEF Lines, Text
<1>2. ASSUME NEW i \in 1 .. Len(X)
      PROVE  (IF X[i] = <<>> THEN <<>> ELSE X[i] \o CRLF) \in Seq(Piece)
  <2>1. X[i] \in Seq(Piece) /\ CRLF \in Seq(Piece)
    BY <1>1, CrlfIs DEF Text
  <2>2. X[i] \o CRLF \in Seq(Piece)
    BY <2>1, ConcatProperties
  <2> QED
    BY <2>2, EmptySeq
<1>3. Lined(X) \in Seq(Seq(Piece))
  BY <1>1, <1>2 DEF Lined
<1>4. Len(Lined(X)) = Len(X)
  BY <1>1, <1>3 DEF Lined
<1> QED
  BY <1>1, <1>3, <1>4 DEF Lined

(* What follows line k is a text. *)
LEMMA RestType ==
    ASSUME NEW X, Lines(X), NEW bd \in Text, NEW k \in Nat, k <= Len(X)
    PROVE  /\ SubSeq(Lined(X), k + 1, Len(X)) \in Seq(Seq(Piece))
           /\ CRLF \o bd \in Text
           /\ Rest(X, k, bd) \in Text
<1>1. Lined(X) \in Seq(Seq(Piece)) /\ Len(X) \in Nat /\ Len(Lined(X)) = Len(X)
  BY LinedIs
<1>2. SubSeq(Lined(X), k + 1, Len(X)) \in Seq(Seq(Piece))
  <2>1. \A i \in k + 1 .. Len(X) : Lined(X)[i] \in Seq(Piece)
    BY <1>1
  <2>2. k + 1 \in Int /\ Len(X) \in Int
    BY <1>1
  <2> QED
    BY <2>1, <2>2, SubSeqProperties
<1>3. FlattenSeq(SubSeq(Lined(X), k + 1, Len(X))) \in Seq(Piece)
  BY <1>2, FlattenType
<1>4. CRLF \o bd \in Seq(Piece)
  BY CrlfIs, ConcatPlaces DEF Text
<1>5. FlattenSeq(SubSeq(Lined(X), k + 1, Len(X))) \o (CRLF \o bd) \in Seq(Piece)
  BY <1>3, <1>4, ConcatPlaces
<1> QED
  BY <1>2, <1>4, <1>5 DEF Rest, Text

(* It is the next line, and then what follows that. *)
LEMMA RestStep ==
    ASSUME NEW X, Lines(X), NEW bd \in Text, NEW k \in Nat, k < Len(X)
    PROVE  /\ Rest(X, k + 1, bd) \in Text
           /\ Rest(X, k, bd) = IF X[k + 1] = <<>> THEN Rest(X, k + 1, bd)
                               ELSE (X[k + 1] \o CRLF) \o Rest(X, k + 1, bd)
<1> DEFINE L == Lined(X)
           after == SubSeq(L, (k + 1) + 1, Len(X))
<1>1. /\ L \in Seq(Seq(Piece)) /\ Len(X) \in Nat /\ Len(L) = Len(X)
      /\ \A i \in 1 .. Len(X) : L[i] = IF X[i] = <<>> THEN <<>> ELSE X[i] \o CRLF
  BY LinedIs
<1>2. k + 1 \in Nat /\ k + 1 <= Len(X) /\ k + 1 \in 1 .. Len(L) /\ Len(X) \in k + 1 .. Len(L)
  BY <1>1
<1>3. after \in Seq(Seq(Piece)) /\ CRLF \o bd \in Text /\ Rest(X, k + 1, bd) \in Text
  BY <1>2, RestType
<1>4. L[k + 1] \in Seq(Piece) /\ L[k + 1] = IF X[k + 1] = <<>> THEN <<>> ELSE X[k + 1] \o CRLF
  BY <1>1, <1>2
<1> HIDE DEF L
<1>5. SubSeq(L, k + 1, Len(X)) = <<L[k + 1]>> \o after
  BY <1>1, <1>2, SubSeqRecursiveFirst
<1> HIDE DEF after
<1>6. FlattenSeq(<<L[k + 1]>> \o after) = L[k + 1] \o FlattenSeq(after)
  <2>1. <<L[k + 1]>> \in Seq(Seq(Piece))
    BY <1>4
  <2>2. FlattenSeq(<<L[k + 1]>> \o after) = FlattenSeq(<<L[k + 1]>>) \o FlattenSeq(after)
    BY <1>3, <2>1, FlattenConcat
  <2>3. FlattenSeq(<<L[k + 1]>>) = L[k + 1]
    BY <1>4, FlattenOne
  <2> QED
    BY <2>2, <2>3
<1>7. (L[k + 1] \o FlattenSeq(after)) \o (CRLF \o bd) = L[k + 1] \o (FlattenSeq(after) \o (CRLF \o bd))
  <2>1. FlattenSeq(after) \in Seq(Piece)
    BY <1>3, FlattenType
  <2>2. CRLF \o bd \in Seq(Piece)
    BY <1>3 DEF Text
  <2>3. PICK s, t, u : s = L[k + 1] /\ t = FlattenSeq(after) /\ u = CRLF \o bd
    OBVIOUS
  <2>4. s \in Seq(Piece) /\ t \in Seq(Piece) /\ u \in Seq(Piece)
    BY <1>4, <2>1, <2>2, <2>3
  <2>5. (s \o t) \o u = s \o (t \o u)
    BY <2>4, SMTT(60)
  <2> QED
    BY <2>3, <2>5
<1>8. Rest(X, k, bd) = L[k + 1] \o Rest(X, k + 1, bd)
  BY <1>5, <1>6, <1>7 DEF Rest, L, after
<1>9. <<>> \o Rest(X, k + 1, bd) = Rest(X, k + 1, bd)
  <2>1. Rest(X, k + 1, bd) \in Seq(Piece)
    BY <1>3 DEF Text
  <2> QED
    BY <2>1, ConcatEmptySeq
<1> QED
  BY <1>3, <1>4, <1>8, <1>9

(* Behind the last line is the empty one. *)
LEMMA RestEnd ==
    ASSUME NEW X, Lines(X), NEW bd \in Text
    PROVE  Rest(X, Len(X), bd) = CRLF \o bd
<1>1. Len(X) \in Nat
  BY LinedIs
<1>2. SubSeq(Lined(X), Len(X) + 1, Len(X)) = <<>>
  <2>1. Len(X) + 1 \in Int /\ Len(X) \in Int /\ Len(X) < Len(X) + 1
    BY <1>1
  <2> QED
    BY <2>1, SubSeqEmpty
<1>3. CRLF \o bd \in Seq(Piece)
  BY CrlfIs, ConcatPlaces DEF Text
<1>4. <<>> \o (CRLF \o bd) = CRLF \o bd
  BY <1>3, ConcatEmptySeq
<1> QED
  BY <1>2, <1>4, FlattenEmpty DEF Rest

LEMMA StartIs == Plain(<<"start">>) /\ StartLine = <<"start">> \o CRLF /\ StartLine \in Seq(Piece)
<1>1. "start" \in Piece /\ <<"start">> \in Seq(Piece)
  BY DEF Piece
<1>2. Plain(<<"start">>)
  <2>1. Len(<<"start">>) = 1 /\ <<"start">>[1] = "start" /\ <<"start">> # <<>>
    OBVIOUS
  <2> QED
    BY <1>1, <2>1 DEF Plain, Text, CR, CL
<1>3. <<"start">> \o CRLF \in Seq(Piece)
  BY <1>1, CrlfIs, ConcatPlaces DEF Text
<1> QED
  BY <1>2, <1>3 DEF StartLine

(* The whole is the start line, and what follows. *)
LEMMA WholeIs ==
    ASSUME NEW X, Lines(X), NEW bd \in Text
    PROVE  Whole(X, bd) = (<<"start">> \o CRLF) \o Rest(X, 0, bd)
<1> DEFINE L == Lined(X)
<1>1. L \in Seq(Seq(Piece)) /\ Len(X) \in Nat /\ Len(L) = Len(X)
  BY LinedIs
<1>2. SubSeq(L, 0 + 1, Len(X)) = L
  <2>1. SubSeq(L, 1, Len(L)) = L
    BY <1>1, SubSeqFull
  <2>2. 0 + 1 = 1
    OBVIOUS
  <2> QED
    BY <1>1, <2>1, <2>2
<1>3. Rest(X, 0, bd) = FlattenSeq(L) \o (CRLF \o bd)
  BY <1>2 DEF Rest
<1> HIDE DEF L
<1>4. <<StartLine>> \in Seq(Seq(Piece)) /\ <<CRLF>> \in Seq(Seq(Piece))
  <2>1. StartLine \in Seq(Piece) /\ CRLF \in Seq(Piece)
    BY StartIs, CrlfIs DEF Text
  <2> QED
    BY <2>1
<1>5. FlattenSeq(MessageLines(L)) = (StartLine \o FlattenSeq(L)) \o CRLF
  <2>1. <<StartLine>> \o L \in Seq(Seq(Piece))
    BY <1>1, <1>4, ConcatProperties
  <2>2. FlattenSeq((<<StartLine>> \o L) \o <<CRLF>>) = FlattenSeq(<<StartLine>> \o L) \o FlattenSeq(<<CRLF>>)
    BY <1>4, <2>1, FlattenConcat
  <2>3. FlattenSeq(<<StartLine>> \o L) = FlattenSeq(<<StartLine>>) \o FlattenSeq(L)
    BY <1>1, <1>4, FlattenConcat
  <2>4. FlattenSeq(<<StartLine>>) = StartLine
    BY StartIs, FlattenOne
  <2>5. FlattenSeq(<<CRLF>>) = CRLF
    BY CrlfIs, FlattenOne DEF Text
  <2> QED
    BY <2>2, <2>3, <2>4, <2>5 DEF MessageLines
<1>6. ((StartLine \o FlattenSeq(L)) \o CRLF) \o bd = StartLine \o (FlattenSeq(L) \o (CRLF \o bd))
  <2>1. FlattenSeq(L) \in Seq(Piece)
    BY <1>1, FlattenType
  <2>2. PICK s, t, u, v : s = StartLine /\ t = FlattenSeq(L) /\ u = CRLF /\ v = bd
    OBVIOUS
  <2>3. s \in Seq(Piece) /\ t \in Seq(Piece) /\ u \in Seq(Piece) /\ v \in Seq(Piece)
    BY <2>1, <2>2, StartIs, CrlfIs DEF Text
  <2>4. s \o t \in Seq(Piece) /\ u \o v \in Seq(Piece)
    BY <2>3, ConcatProperties
  <2>5. PICK st, uv : st = s \o t /\ uv = u \o v
    OBVIOUS
  <2>6. st \in Seq(Piece) /\ uv \in Seq(Piece)
    BY <2>4, <2>5
  <2>7. (st \o u) \o v = st \o (u \o v)
    <3>1. st \in Seq(Piece) /\ u \in Seq(Piece) /\ v \in Seq(Piece)
      BY <2>3, <2>6
    <3> QED
      BY <3>1, SMTT(60)
  <2>8. (s \o t) \o uv = s \o (t \o uv)
    <3>1. s \in Seq(Piece) /\ t \in Seq(Piece) /\ uv \in Seq(Piece)
      BY <2>3, <2>6
    <3> QED
      BY <3>1, SMTT(60)
  <2> QED
    BY <2>2, <2>5, <2>7, <2>8
<1> QED
  BY <1>3, <1>5, <1>6, StartIs DEF Whole, L

LEMMA TailOfTwo ==
    ASSUME NEW S, NEW x \in Seq(S), Len(x) = 2
    PROVE  Tail(x) = <<x[2]>> /\ Tail(x) # <<>>
<1>1. x = <<x[1], x[2]>>
  BY PairEqual
<1>2. PICK a, b : a = x[1] /\ b = x[2]
  OBVIOUS
<1>3. x = <<a, b>>
  BY <1>1, <1>2
<1>4. Tail(<<a, b>>) = <<b>> /\ <<b>> # <<>>
  OBVIOUS
<1> QED
  BY <1>2, <1>3, <1>4

(* From any line on the text is as Left says. *)
LEMMA RestLeft ==
    ASSUME NEW X, Lines(X), NEW bd \in Text, CR \notin Range(bd), NEW k \in Nat, k <= Len(X)
    PROVE  Left(Rest(X, k, bd), Len(bd))
<1> DEFINE T == {j \in Nat : j <= Len(X) => Left(Rest(X, Len(X) - j, bd), Len(bd))}
<1>0. Len(X) \in Nat
  BY LinedIs
<1>1. 0 \in T
  <2>1. Left(CRLF \o bd, Len(bd))
    BY LastLine
  <2>2. Len(X) - 0 = Len(X)
    BY <1>0
  <2> QED
    BY <2>1, <2>2, RestEnd
<1>2. ASSUME NEW j \in Nat, j \in T PROVE j + 1 \in T
  <2> SUFFICES ASSUME j + 1 <= Len(X) PROVE Left(Rest(X, Len(X) - (j + 1), bd), Len(bd))
    OBVIOUS
  <2>1. PICK i : i = Len(X) - (j + 1)
    OBVIOUS
  <2>2. i \in Nat /\ i < Len(X) /\ i + 1 = Len(X) - j /\ j <= Len(X) /\ i + 1 \in 1 .. Len(X)
    BY <1>0, <2>1
  <2>3. Left(Rest(X, i + 1, bd), Len(bd))
    BY <1>2, <2>2
  <2>4. Rest(X, i, bd) = IF X[i + 1] = <<>> THEN Rest(X, i + 1, bd)
                               ELSE (X[i + 1] \o CRLF) \o Rest(X, i + 1, bd)
    BY <2>2, RestStep
  <2>5. X[i + 1] = <<>> \/ Plain(X[i + 1])
    BY <2>2 DEF Lines
  <2>6. Left(Rest(X, i, bd), Len(bd))
    BY <2>3, <2>4, <2>5, MoreLeft
  <2> QED
    BY <2>1, <2>6
<1> HIDE DEF T
<1>3. Len(X) - k \in T
  BY <1>0, <1>1, <1>2, SetInduction
<1>4. Len(X) - k <= Len(X) /\ Len(X) - (Len(X) - k) = k
  BY <1>0
<1> QED
  BY <1>3, <1>4 DEF T

(* The lines between a and b say v of the header f. *)
Say(X, a, b, f, v) ==
    \/ v = NONE /\ \A i \in a .. b : ~Names(X[i], f)
    \/ \E i \in a .. b :
          /\ Names(X[i], f) /\ v = Tail(X[i])
          /\ \A j \in i + 1 .. b : ~Names(X[j], f)

(* The lines without those that rtsp_msg_hdr_line_parse_tbl does not know. *)
Heard(X) == [i \in Nat |-> IF X[i] # <<>> /\ Unknown(X[i]) THEN <<>> ELSE X[i]]

(* They say one thing only. *)
LEMMA SayOne ==
    ASSUME NEW X, NEW a \in Int, NEW b \in Int, NEW f, NEW v, NEW w,
           Say(X, a, b, f, v), Say(X, a, b, f, w)
    PROVE  v = w
<1>1. ASSUME NEW i \in a .. b, Names(X[i], f), NEW j \in a .. b, Names(X[j], f),
             \A k \in i + 1 .. b : ~Names(X[k], f), \A k \in j + 1 .. b : ~Names(X[k], f)
      PROVE  i = j
  <2>1. ~(i < j)
    BY <1>1
  <2>2. ~(j < i)
    BY <1>1
  <2> QED
    BY <2>1, <2>2
<1> QED
  BY <1>1 DEF Say

(* What the text from line k on gives as length is what its lines say. *)
LEMMA RestGiven ==
    ASSUME NEW X, Lines(X), NEW bd \in Text, CR \notin Range(bd), NEW k \in Nat, k <= Len(X)
    PROVE  /\ Say(X, k + 1, Len(X), CL, Given(Rest(X, k, bd), Len(bd)))
           /\ BadIn(Rest(X, k, bd), Len(bd)) <=> \E i \in k + 1 .. Len(X) : Names(X[i], CL) /\ X[i][2] = BAD
<1> DEFINE G(i) == Given(Rest(X, i, bd), Len(bd))
           B(i) == BadIn(Rest(X, i, bd), Len(bd))
           Good(i) == /\ Say(X, i + 1, Len(X), CL, G(i))
                      /\ B(i) <=> \E h \in i + 1 .. Len(X) : Names(X[h], CL) /\ X[h][2] = BAD
           T == {j \in Nat : j <= Len(X) => Good(Len(X) - j)}
<1>0. Len(X) \in Nat
  BY LinedIs
<1>1. 0 \in T
  <2>1. Fields(Rest(X, Len(X), bd), Len(bd)) = {}
    BY LastLine, RestEnd
  <2>2. Len(X) + 1 .. Len(X) = {} /\ Len(X) - 0 = Len(X)
    BY <1>0
  <2>3. G(Len(X)) = NONE /\ ~B(Len(X))
    BY <2>1 DEF Given, BadIn
  <2>4. Good(Len(X))
    BY <2>2, <2>3 DEF Say
  <2> HIDE DEF Good
  <2> QED
    BY <2>2, <2>4
<1>2. ASSUME NEW j \in Nat, j \in T PROVE j + 1 \in T
  <2> SUFFICES ASSUME j + 1 <= Len(X) PROVE Good(Len(X) - (j + 1))
    OBVIOUS
  <2>1. PICK i : i = Len(X) - (j + 1)
    OBVIOUS
  <2>2. i \in Nat /\ i < Len(X) /\ i + 1 = Len(X) - j /\ j <= Len(X) /\ i + 1 \in 1 .. Len(X)
    BY <1>0, <2>1
  <2>3. Good(i + 1)
    BY <1>2, <2>2
  <2>4. Rest(X, i, bd) = IF X[i + 1] = <<>> THEN Rest(X, i + 1, bd)
                               ELSE (X[i + 1] \o CRLF) \o Rest(X, i + 1, bd)
    BY <2>2, RestStep
  <2>5. X[i + 1] = <<>> \/ Plain(X[i + 1])
    BY <2>2 DEF Lines
  <2>6. /\ \A h : h \in i + 1 .. Len(X) <=> h = i + 1 \/ h \in (i + 1) + 1 .. Len(X)
        /\ i + 1 \in i + 1 .. Len(X)
    BY <1>0, <2>2
  <2>7. CASE X[i + 1] = <<>>
    <3>1. G(i) = G(i + 1) /\ B(i) = B(i + 1) /\ ~Names(X[i + 1], CL)
      BY <2>4, <2>7 DEF Names
    <3> HIDE DEF G, B
    <3>2. Say(X, i + 1, Len(X), CL, G(i))
      BY <2>3, <2>6, <3>1 DEF Say
    <3> QED
      BY <2>1, <2>3, <2>6, <3>1, <3>2
  <2>8. CASE Plain(X[i + 1])
    <3>1. Left(Rest(X, i + 1, bd), Len(bd))
      BY <2>2, RestLeft
    <3>2. X[i + 1] # <<>> /\ X[i + 1] \in Text
      BY <2>8 DEF Plain
    <3>3. PICK x, r : x = X[i + 1] /\ r = Rest(X, i + 1, bd)
      OBVIOUS
    <3>4. /\ Given((x \o CRLF) \o r, Len(bd)) = IF Given(r, Len(bd)) # NONE THEN Given(r, Len(bd))
                                           ELSE IF x[1] = CL THEN <<x[2]>> ELSE NONE
          /\ BadIn((x \o CRLF) \o r, Len(bd)) <=> (x[1] = CL /\ x[2] = BAD) \/ BadIn(r, Len(bd))
      BY <2>8, <3>1, <3>3, MoreGiven
    <3>5. /\ G(i) = IF G(i + 1) # NONE THEN G(i + 1) ELSE IF x[1] = CL THEN <<x[2]>> ELSE NONE
          /\ B(i) <=> (x[1] = CL /\ x[2] = BAD) \/ B(i + 1)
          /\ Names(X[i + 1], CL) <=> x[1] = CL
          /\ x[1] = CL => Tail(x) = <<x[2]>>
      <4>1. x[1] = CL => Tail(x) = <<x[2]>>
        <5>1. x[1] = CL => x \in Seq(Piece) /\ Len(x) = 2
          BY <2>8, <3>3 DEF Plain, Text
        <5> QED
          BY <5>1, TailOfTwo
      <4> QED
        BY <2>4, <3>2, <3>3, <3>4, <4>1 DEF Names
    <3> HIDE DEF G, B
    <3>6. Say(X, i + 1, Len(X), CL, G(i))
      <4>1. CASE G(i + 1) # NONE
        <5>1. PICK h \in (i + 1) + 1 .. Len(X) :
                /\ Names(X[h], CL) /\ G(i + 1) = Tail(X[h])
                /\ \A g \in h + 1 .. Len(X) : ~Names(X[g], CL)
          BY <2>3, <4>1 DEF Say
        <5> QED
          BY <2>6, <3>5, <4>1, <5>1 DEF Say
      <4>2. CASE G(i + 1) = NONE
        <5>1. \A h \in (i + 1) + 1 .. Len(X) : ~Names(X[h], CL)
          <6>1. ASSUME NEW h \in (i + 1) + 1 .. Len(X), Names(X[h], CL) PROVE Tail(X[h]) # NONE
            <7>1. h \in 1 .. Len(X)
              BY <1>0, <2>2
            <7>2. Plain(X[h])
              BY <6>1, <7>1 DEF Lines, Names
            <7>3. Len(X[h]) = 2 /\ X[h] \in Seq(Piece)
              BY <6>1, <7>2 DEF Plain, Names, Text
            <7> QED
              BY <7>3, TailOfTwo DEF NONE
          <6> QED
            BY <2>3, <4>2, <6>1 DEF Say
        <5>2. CASE x[1] = CL
          BY <2>6, <3>3, <3>5, <4>2, <5>1, <5>2 DEF Say
        <5>3. CASE x[1] # CL
          BY <2>6, <3>5, <4>2, <5>1, <5>3 DEF Say
        <5> QED
          BY <5>2, <5>3
      <4> QED
        BY <4>1, <4>2
    <3>7. B(i) <=> \E h \in i + 1 .. Len(X) : Names(X[h], CL) /\ X[h][2] = BAD
      BY <2>3, <2>6, <3>3, <3>5
    <3> QED
      BY <2>1, <3>6, <3>7
  <2> QED
    BY <2>5, <2>7, <2>8
<1> HIDE DEF T
<1>3. Len(X) - k \in T
  BY <1>0, <1>1, <1>2, SetInduction
<1>4. Len(X) - k <= Len(X) /\ Len(X) - (Len(X) - k) = k
  BY <1>0
<1> QED
  BY <1>3, <1>4 DEF T

-----------------------------------------------------------------------------
(* The text t is the beginning of b; the length b gives to its body. *)
Begins(t, b) == Len(t) <= Len(b) /\ \A i \in 1 .. Len(t) : t[i] = b[i]
LengthIn(b, m) == IF Given(b, m) = NONE THEN 0 ELSE Number(Given(b, m))

LEMMA NumberOf ==
    \A n \in Length :
        /\ Number(Digits(n)) = n /\ Number(Tight(n)) = n
        /\ Digits(n) # NONE /\ Tight(n) # NONE
        /\ n \in Int
<1> SUFFICES ASSUME NEW n \in Length
             PROVE  /\ Number(Digits(n)) = n /\ Number(Tight(n)) = n
                    /\ Digits(n) # NONE /\ Tight(n) # NONE
                    /\ n \in Int
  OBVIOUS
<1>1. \A k \in Length : (Says(Digits(n), k) <=> k = n) /\ (Says(Tight(n), k) <=> k = n)
  BY DigitsAssumption DEF NumbersTell, Says
<1>2. Number(Digits(n)) = n /\ Number(Tight(n)) = n
  BY <1>1 DEF Number
<1>3. Digits(n) # NONE /\ Tight(n) # NONE
  BY DEF Digits, Tight, NONE
<1>4. n \in Int
  BY BoundsAssumption DEF Length
<1> QED
  BY <1>2, <1>3, <1>4

(* The header of b ends where it ends in what is there of b. *)
LEMMA HeaderOfPart ==
    ASSUME NEW b, NEW m, Left(b, m), Len(b) > m + 2,
           NEW t \in Text, Begins(t, b), HeaderEnds(t) # {}
    PROVE  /\ Len(b) \in Nat /\ m \in Nat /\ Len(b) - m <= Len(t)
           /\ Min(HeaderEnds(t)) = Len(b) - m - 3
           /\ LengthFields(t) = Fields(b, m)
           /\ \A i \in Fields(b, m) : i + 1 <= Len(t) /\ t[i + 1] = b[i + 1]
<1> DEFINE e == Len(b) - m - 3
<1>1. /\ b \in Text /\ m \in Nat /\ Len(b) \in Nat /\ Len(t) \in Nat
      /\ b[Len(b) - m - 1] = CR /\ b[Len(b) - m] = LF
      /\ b[Len(b) - m - 3] = CR /\ b[Len(b) - m - 2] = LF
      /\ Len(b) > m + 4
      /\ \A i \in HeaderEnds(b) : i >= e
      /\ \A i \in Fields(b, m) : i + 1 \in 1 .. Len(b) - m
  <2>1. b \in Text
    BY DEF Left
  <2>2. Len(b) \in Nat /\ Len(t) \in Nat
    BY <2>1 DEF Text
  <2> QED
    BY <2>1, <2>2 DEF Left
<1>2. Len(t) <= Len(b) /\ \A i \in 1 .. Len(t) : t[i] = b[i]
  BY DEF Begins
<1>3. /\ e \in Nat /\ e > 1 /\ e + 3 = Len(b) - m
      /\ e + 1 = Len(b) - m - 2 /\ e + 2 = Len(b) - m - 1 /\ e + 3 = Len(b) - m
  BY <1>1
<1>4. b[e] = CR /\ b[e + 1] = LF /\ b[e + 2] = CR /\ b[e + 3] = LF
  BY <1>1, <1>3
<1> HIDE DEF e
<1>5. ASSUME NEW i \in HeaderEnds(t) PROVE i \in Int /\ e <= i /\ i + 3 <= Len(t)
  <2>1. /\ i \in 1 .. Len(t) - 3 /\ t[i] = CR /\ t[i + 1] = LF
        /\ t[i + 2] = CR /\ t[i + 3] = LF
    BY <1>5, EndsAre
  <2>2. /\ i \in 1 .. Len(b) - 3 /\ i \in 1 .. Len(t) /\ i + 1 \in 1 .. Len(t)
        /\ i + 2 \in 1 .. Len(t) /\ i + 3 \in 1 .. Len(t)
    BY <1>1, <1>2, <2>1, SMTT(30)
  <2>3. b[i] = CR /\ b[i + 1] = LF /\ b[i + 2] = CR /\ b[i + 3] = LF
    BY <1>2, <2>1, <2>2
  <2>4. i \in HeaderEnds(b)
    BY <1>1, <2>2, <2>3, EndsAre
  <2> QED
    BY <1>1, <2>2, <2>4
<1>6. e + 3 <= Len(t)
  <2>1. PICK i \in HeaderEnds(t) : TRUE
    OBVIOUS
  <2>2. i \in Int /\ e <= i /\ i + 3 <= Len(t)
    BY <1>5
  <2> QED
    BY <1>1, <1>3, <2>2
<1>7. e \in HeaderEnds(t)
  <2>1. /\ e \in 1 .. Len(t) - 3 /\ e \in 1 .. Len(t) /\ e + 1 \in 1 .. Len(t)
        /\ e + 2 \in 1 .. Len(t) /\ e + 3 \in 1 .. Len(t)
    BY <1>1, <1>3, <1>6, SMTT(30)
  <2>2. t[e] = CR /\ t[e + 1] = LF /\ t[e + 2] = CR /\ t[e + 3] = LF
    BY <1>2, <1>4, <2>1
  <2> QED
    BY <2>1, <2>2, EndsAre
<1>8. Min(HeaderEnds(t)) = e
  <2>1. HeaderEnds(t) \subseteq Int /\ \A i \in HeaderEnds(t) : e <= i
    BY <1>5
  <2> QED
    BY <1>7, <2>1, MinIs
<1>9. LengthFields(t) = Fields(b, m)
  <2>1. LengthFields(t) = {i \in 1 .. e : t[i] = CL}
    BY <1>8 DEF LengthFields, CL
  <2>2. ASSUME NEW i \in 1 .. e PROVE i \in 1 .. Len(b) - m /\ t[i] = b[i]
    <3>1. i \in 1 .. Len(t) /\ i \in 1 .. e + 3
      BY <1>1, <1>3, <1>6
    <3> QED
      BY <1>2, <1>3, <3>1
  <2>3. ASSUME NEW i \in Fields(b, m) PROVE i \in 1 .. e
    <3>1. i \in 1 .. e + 3 /\ b[i] = CL
      BY <1>3 DEF Fields
    <3>2. i # e /\ i # e + 1 /\ i # e + 2 /\ i # e + 3
      BY <1>4, <3>1 DEF CL, CR, LF
    <3> QED
      BY <1>3, <3>1, <3>2
  <2> QED
    BY <2>1, <2>2, <2>3 DEF Fields
<1>10. ASSUME NEW i \in Fields(b, m) PROVE i + 1 <= Len(t) /\ t[i + 1] = b[i + 1]
  <2>1. i + 1 \in 1 .. e + 3
    BY <1>1, <1>3
  <2>2. i + 1 \in 1 .. Len(t)
    BY <1>1, <1>3, <1>6, <2>1
  <2> QED
    BY <1>2, <2>2
<1> QED
  BY <1>1, <1>3, <1>6, <1>8, <1>9, <1>10 DEF e

(* rtsp_msg_frame_size for what is there of b, once its header is. *)
LEMMA FrameOfPart ==
    ASSUME NEW b, NEW m, Left(b, m), Len(b) > m + 2,
           NEW t \in Text, Begins(t, b), HeaderEnds(t) # {}
    PROVE  FrameSize(t) = IF BadIn(b, m) THEN -1
                          ELSE IF Len(t) < Len(b) - m + LengthIn(b, m) THEN 0
                               ELSE Len(b) - m + LengthIn(b, m)
<1>1. /\ Len(b) \in Nat /\ m \in Nat
      /\ Min(HeaderEnds(t)) = Len(b) - m - 3
      /\ LengthFields(t) = Fields(b, m)
      /\ \A i \in Fields(b, m) : t[i + 1] = b[i + 1]
  BY HeaderOfPart
<1>2. BadIn(b, m) <=> \E i \in LengthFields(t) : t[i + 1] = BAD
  BY <1>1 DEF BadIn
<1>3. ContentLength(t) = LengthIn(b, m)
  <2>1. CASE Fields(b, m) = {}
    BY <1>1, <2>1 DEF ContentLength, LengthIn, Given
  <2>2. CASE Fields(b, m) # {}
    <3>1. PICK k : k = Max(Fields(b, m))
      OBVIOUS
    <3>2. k \in Fields(b, m)
      <4>1. Fields(b, m) \subseteq 1 .. Len(b)
        <5>1. \A i \in 1 .. Len(b) - m : i \in 1 .. Len(b)
          BY <1>1
        <5> QED
          BY <5>1 DEF Fields
      <4> QED
        BY <1>1, <2>2, <3>1, <4>1, LastOne
    <3>3. Given(b, m) = <<b[k + 1]>> /\ <<b[k + 1]>> # NONE
      BY <2>2, <3>1 DEF Given, NONE
    <3>4. ContentLength(t) = Number(<<t[k + 1]>>)
      BY <1>1, <2>2, <3>1 DEF ContentLength
    <3> QED
      BY <1>1, <3>2, <3>3, <3>4 DEF LengthIn
  <2> QED
    BY <2>1, <2>2
<1>4. CASE BadIn(b, m)
  BY <1>2, <1>4 DEF FrameSize
<1>5. CASE ~BadIn(b, m)
  <2>1. PICK c : c = LengthIn(b, m)
    OBVIOUS
  <2>2. FrameSize(t) = LET whole == (Len(b) - m - 3) + 3 + c
                       IN IF Len(t) < whole THEN 0 ELSE whole
    BY <1>1, <1>2, <1>3, <1>5, <2>1 DEF FrameSize
  <2>3. (Len(b) - m - 3) + 3 = Len(b) - m
    BY <1>1
  <2> QED
    BY <1>5, <2>1, <2>2, <2>3
<1> QED
  BY <1>4, <1>5

(* A length that is not bad is one a client may write. *)
LEMMA LengthKnown ==
    ASSUME NEW b, NEW m, Left(b, m), ~BadIn(b, m)
    PROVE  LengthIn(b, m) \in Length
<1>1. CASE Fields(b, m) = {}
  BY <1>1, BoundsAssumption DEF LengthIn, Given, Length
<1>2. CASE Fields(b, m) # {}
  <2>1. PICK k : k = Max(Fields(b, m))
    OBVIOUS
  <2>2. k \in Fields(b, m)
    <3>1. Len(b) \in Nat /\ m \in Nat
      BY DEF Left, Text
    <3>2. Fields(b, m) \subseteq 1 .. Len(b)
      <4>1. \A i \in 1 .. Len(b) - m : i \in 1 .. Len(b)
        BY <3>1
      <4> QED
        BY <4>1 DEF Fields
    <3> QED
      BY <1>2, <2>1, <3>1, <3>2, LastOne
  <2>3. PICK n \in Length : Says(<<b[k + 1]>>, n)
    BY <2>2 DEF Left, BadIn, LengthPiece
  <2>4. Given(b, m) = Digits(n) \/ Given(b, m) = Tight(n)
    BY <1>2, <2>1, <2>3 DEF Given, Says
  <2> QED
    BY <2>3, <2>4, NumberOf DEF LengthIn
<1> QED
  BY <1>1, <1>2

(* Of a text that says how long its body is the frame is complete when all of
   it is there, and not before. *)
LEMMA PartFrame ==
    ASSUME NEW b, NEW m, Left(b, m), Len(b) > m + 2, ~BadIn(b, m), LengthIn(b, m) = m,
           NEW t \in Text, Begins(t, b), Len(t) < Len(b)
    PROVE  FrameSize(t) = 0
<1>1. CASE HeaderEnds(t) = {}
  BY <1>1 DEF FrameSize
<1>2. CASE HeaderEnds(t) # {}
  <2>1. Len(b) \in Nat /\ m \in Nat /\ Len(b) - m + m = Len(b)
    BY <1>2, HeaderOfPart
  <2> QED
    BY <1>2, <2>1, FrameOfPart
<1> QED
  BY <1>1, <1>2

(* Of a whole text it is negative for a bad length and for a negative one only. *)
LEMMA WholeFrame ==
    ASSUME NEW b, NEW m, Left(b, m), Len(b) > m + 2
    PROVE  /\ FrameSize(b) \in Int
           /\ FrameSize(b) < 0 => BadIn(b, m) \/ LengthIn(b, m) < 0
           /\ FrameSize(b) > 0 => LengthIn(b, m) \in Length /\ LengthIn(b, m) <= m
           /\ LengthIn(b, m) = m /\ ~BadIn(b, m) => FrameSize(b) > 0
<1>1. b \in Text /\ Len(b) \in Nat /\ m \in Nat /\ Len(b) > m + 4
  BY DEF Left, Text
<1>2. Begins(b, b)
  BY <1>1 DEF Begins
<1>3. HeaderEnds(b) # {}
  <2>1. /\ b[Len(b) - m - 1] = CR /\ b[Len(b) - m] = LF
        /\ b[Len(b) - m - 3] = CR /\ b[Len(b) - m - 2] = LF
    BY DEF Left
  <2>2. PICK e : e = Len(b) - m - 3
    OBVIOUS
  <2>3. /\ e \in 1 .. Len(b) - 3 /\ e + 1 = Len(b) - m - 2
        /\ e + 2 = Len(b) - m - 1 /\ e + 3 = Len(b) - m
    BY <1>1, <2>2
  <2>4. e \in HeaderEnds(b)
    BY <1>1, <2>1, <2>2, <2>3, EndsAre
  <2> QED
    BY <2>4
<1>4. PICK c : c = LengthIn(b, m)
  OBVIOUS
<1>5. FrameSize(b) = IF BadIn(b, m) THEN -1
                     ELSE IF Len(b) < Len(b) - m + c THEN 0 ELSE Len(b) - m + c
  BY <1>1, <1>2, <1>3, <1>4, FrameOfPart
<1>6. ~BadIn(b, m) => c \in Length /\ c \in Int
  BY <1>4, LengthKnown, NumberOf
<1>7. CASE BadIn(b, m)
  BY <1>5, <1>7
<1>8. CASE ~BadIn(b, m)
  <2>1. c \in Int /\ (Len(b) < Len(b) - m + c <=> m < c)
    BY <1>1, <1>6, <1>8
  <2>2. FrameSize(b) = IF m < c THEN 0 ELSE Len(b) - m + c
    BY <1>5, <1>8, <2>1
  <2>3. FrameSize(b) > 0 => c <= m
    BY <1>1, <2>1, <2>2
  <2>4. c = m => FrameSize(b) > 0
    BY <1>1, <2>1, <2>2
  <2>5. FrameSize(b) \in Int /\ (FrameSize(b) < 0 => c < 0)
    BY <1>1, <2>1, <2>2
  <2> QED
    BY <1>4, <1>6, <1>8, <2>3, <2>4, <2>5
<1> QED
  BY <1>7, <1>8

(* A body, and any part of it from its beginning. *)
LEMMA BodyIs ==
    ASSUME NEW n \in BodyLengths
    PROVE  /\ n \in Nat /\ Body(n) \in Text /\ Len(Body(n)) = n /\ CR \notin Range(Body(n))
           /\ \A k \in Nat : k <= n => SubSeq(Body(n), 1, k) = Body(k)
<1>1. n \in Nat
  BY BoundsAssumption
<1>2. \A k \in Nat : Body(k) \in Seq(Piece) /\ Len(Body(k)) = k /\ \A i \in 1 .. k : Body(k)[i] = "body"
  <2> SUFFICES ASSUME NEW k \in Nat
               PROVE  Body(k) \in Seq(Piece) /\ Len(Body(k)) = k /\ \A i \in 1 .. k : Body(k)[i] = "body"
    OBVIOUS
  <2>1. "body" \in Piece
    BY DEF Piece
  <2> QED
    BY <2>1 DEF Body
<1>3. CR \notin Range(Body(n))
  <2>1. DOMAIN Body(n) = 1 .. n
    BY DEF Body
  <2> QED
    BY <1>1, <1>2, <2>1 DEF Range, CR
<1>4. ASSUME NEW k \in Nat, k <= n PROVE SubSeq(Body(n), 1, k) = Body(k)
  <2>1. Body(n) \in Seq(Piece) /\ Len(Body(n)) = n /\ \A i \in 1 .. n : Body(n)[i] = "body"
    BY <1>1, <1>2
  <2>2. /\ SubSeq(Body(n), 1, k) \in Seq(Piece) /\ Len(SubSeq(Body(n), 1, k)) = k
        /\ \A i \in 1 .. k : SubSeq(Body(n), 1, k)[i] = Body(n)[i]
    BY <1>1, <1>4, <2>1
  <2>3. Body(k) \in Seq(Piece) /\ Len(Body(k)) = k /\ \A i \in 1 .. k : Body(k)[i] = "body"
    BY <1>2
  <2>4. \A i \in 1 .. k : SubSeq(Body(n), 1, k)[i] = Body(k)[i]
    BY <1>1, <1>4, <2>1, <2>2, <2>3
  <2> QED
    BY <2>2, <2>3, <2>4, SeqEqual
<1> QED
  BY <1>1, <1>2, <1>3, <1>4 DEF Text

(* The whole text of some lines. *)
LEMMA WholeLeft ==
    ASSUME NEW X, Lines(X), NEW n \in BodyLengths
    PROVE  LET b == Whole(X, Body(n))
           IN  /\ Left(b, n) /\ Len(b) > n + 2 /\ b \in Text /\ Len(b) \in Nat
               /\ Say(X, 1, Len(X), CL, Given(b, n))
               /\ BadIn(b, n) <=> \E i \in 1 .. Len(X) : Names(X[i], CL) /\ X[i][2] = BAD
               /\ AfterLine(b) = Rest(X, 0, Body(n))
<1> DEFINE bd == Body(n)
           r == Rest(X, 0, bd)
           x == <<"start">>
           b == (x \o CRLF) \o r
<1>1. Whole(X, bd) = b
  BY BodyIs, WholeIs
<1>2. Len(X) \in Nat
  BY LinedIs
<1>3. Left(r, n) /\ r \in Text
  <2>1. bd \in Text /\ Len(bd) = n /\ CR \notin Range(bd)
    BY BodyIs
  <2> HIDE DEF bd
  <2>2. Left(Rest(X, 0, bd), Len(bd))
    BY <1>2, <2>1, RestLeft
  <2> QED
    BY <2>1, <2>2 DEF Left
<1>4. Say(X, 1, Len(X), CL, Given(r, n)) /\ (BadIn(r, n) <=> \E i \in 1 .. Len(X) : Names(X[i], CL) /\ X[i][2] = BAD)
  <2>1. bd \in Text /\ Len(bd) = n /\ CR \notin Range(bd)
    BY BodyIs
  <2> HIDE DEF bd
  <2>2. /\ Say(X, 0 + 1, Len(X), CL, Given(Rest(X, 0, bd), Len(bd)))
        /\ BadIn(Rest(X, 0, bd), Len(bd)) <=> \E i \in 0 + 1 .. Len(X) : Names(X[i], CL) /\ X[i][2] = BAD
    BY <1>2, <2>1, RestGiven
  <2>3. 0 + 1 = 1
    OBVIOUS
  <2> QED
    BY <2>1, <2>2, <2>3
<1>5. Plain(x) /\ x[1] # CL
  BY StartIs DEF CL
<1> HIDE DEF r, x
<1>6. Left(b, n)
  BY <1>3, <1>5, MoreLeft
<1>7. Given(b, n) = Given(r, n) /\ (BadIn(b, n) <=> BadIn(r, n))
  <2>1. /\ Given(b, n) = IF Given(r, n) # NONE THEN Given(r, n)
                         ELSE IF x[1] = CL THEN <<x[2]>> ELSE NONE
        /\ BadIn(b, n) <=> (x[1] = CL /\ x[2] = BAD) \/ BadIn(r, n)
    BY <1>3, <1>5, MoreGiven
  <2> QED
    BY <1>5, <2>1
<1>8. AfterLine(b) = r
  BY <1>3, <1>5, LineRead
<1>9. Len(b) > n + 2 /\ b \in Text /\ Len(b) \in Nat
  <2>1. b \in Text /\ Len(x) \in Nat \ {0} /\ Len(r) \in Nat /\ Len(b) = Len(x) + 2 + Len(r)
    BY <1>3, <1>5, LineThen
  <2>2. Len(r) >= n + 2 /\ n \in Nat
    BY <1>3 DEF Left
  <2> QED
    BY <2>1, <2>2
<1> QED
  BY <1>1, <1>4, <1>6, <1>7, <1>8, <1>9 DEF r

(* The lines left out are not seen by the parser. *)
LEMMA Skip ==
    ASSUME NEW X, Lines(X), NEW bd \in Text, NEW k \in Nat, k <= Len(X)
    PROVE  \E j \in k .. Len(X) :
              /\ \A i \in k + 1 .. j : X[i] = <<>>
              /\ Rest(X, k, bd) = Rest(X, j, bd)
              /\ j = Len(X) \/ X[j + 1] # <<>>
<1> DEFINE P(h) == \E j \in h .. Len(X) :
                      /\ \A i \in h + 1 .. j : X[i] = <<>>
                      /\ Rest(X, h, bd) = Rest(X, j, bd)
                      /\ j = Len(X) \/ X[j + 1] # <<>>
           T == {g \in Nat : g <= Len(X) => P(Len(X) - g)}
<1>0. Len(X) \in Nat
  BY LinedIs
<1>1. 0 \in T
  <2>1. P(Len(X))
    <3>1. Len(X) \in Len(X) .. Len(X) /\ Len(X) + 1 .. Len(X) = {}
      BY <1>0
    <3> QED
      BY <3>1
  <2>2. Len(X) - 0 = Len(X)
    BY <1>0
  <2> HIDE DEF P
  <2> QED
    BY <2>1, <2>2
<1>2. ASSUME NEW g \in Nat, g \in T PROVE g + 1 \in T
  <2> SUFFICES ASSUME g + 1 <= Len(X) PROVE P(Len(X) - (g + 1))
    OBVIOUS
  <2>1. PICK h : h = Len(X) - (g + 1)
    OBVIOUS
  <2>2. h \in Nat /\ h < Len(X) /\ h + 1 = Len(X) - g /\ g <= Len(X)
    BY <1>0, <2>1
  <2>3. P(h + 1)
    BY <1>2, <2>2
  <2>4. P(h)
    <3>1. CASE X[h + 1] # <<>>
      <4>1. h \in h .. Len(X) /\ h + 1 .. h = {}
        BY <1>0, <2>2
      <4> QED
        BY <3>1, <4>1
    <3>2. CASE X[h + 1] = <<>>
      <4>1. PICK j \in h + 1 .. Len(X) :
              /\ \A i \in (h + 1) + 1 .. j : X[i] = <<>>
              /\ Rest(X, h + 1, bd) = Rest(X, j, bd)
              /\ j = Len(X) \/ X[j + 1] # <<>>
        BY <2>3
      <4>2. Rest(X, h, bd) = Rest(X, h + 1, bd)
        BY <2>2, <3>2, RestStep
      <4>3. j \in h .. Len(X) /\ \A i \in h + 1 .. j : i = h + 1 \/ i \in (h + 1) + 1 .. j
        BY <1>0, <2>2
      <4> QED
        BY <3>2, <4>1, <4>2, <4>3
    <3> QED
      BY <3>1, <3>2
  <2> HIDE DEF P
  <2> QED
    BY <2>1, <2>4
<1> HIDE DEF T
<1>3. Len(X) - k \in T
  BY <1>0, <1>1, <1>2, SetInduction
<1>4. Len(X) - k <= Len(X) /\ Len(X) - (Len(X) - k) = k
  BY <1>0
<1> QED
  BY <1>3, <1>4 DEF T

-----------------------------------------------------------------------------
(* What the parser has after k lines. *)
Message(g) == g = [hdrs |-> g.hdrs, body |-> g.body] /\ g.hdrs = [f \in Field |-> g.hdrs[f]]
ReadSoFar(X, k, g) ==
    /\ Message(g)
    /\ \A f \in Field : IF f \in Unstored THEN g.hdrs[f] = NONE ELSE Say(Heard(X), 1, k, f, g.hdrs[f])
    /\ \A i \in 1 .. k : X[i] # <<>> => ~Fails(X[i])

(* At the start line nothing has been read. *)
LEMMA ReadStart == \A X : ReadSoFar(X, 0, Empty)
  BY DEF ReadSoFar, Message, Say, Empty

(* Lines left out leave nothing in the message. *)
LEMMA ReadSkip ==
    ASSUME NEW X, NEW k \in Nat, NEW j \in Nat, k <= j, NEW g, ReadSoFar(X, k, g),
           \A i \in k + 1 .. j : X[i] = <<>>
    PROVE  ReadSoFar(X, j, g)
<1>1. \A i \in 1 .. j : i \in 1 .. k \/ i \in k + 1 .. j
  OBVIOUS
<1>2. \A i \in 1 .. k : i \in 1 .. j
  OBVIOUS
<1>0. PICK H : H = Heard(X)
  OBVIOUS
<1>5. \A i \in k + 1 .. j : H[i] = <<>>
  <2>1. \A i \in k + 1 .. j : i \in Nat
    OBVIOUS
  <2> QED
    BY <1>0, <2>1 DEF Heard
<1>3. ASSUME NEW f, NEW v, Say(H, 1, k, f, v) PROVE Say(H, 1, j, f, v)
  <2>1. CASE v = NONE /\ \A i \in 1 .. k : ~Names(H[i], f)
    BY <1>1, <1>5, <2>1 DEF Say, Names
  <2>2. ASSUME NEW i \in 1 .. k, Names(H[i], f), v = Tail(H[i]), \A h \in i + 1 .. k : ~Names(H[h], f)
        PROVE  Say(H, 1, j, f, v)
    <3>1. \A h \in i + 1 .. j : h \in i + 1 .. k \/ h \in k + 1 .. j
      OBVIOUS
    <3> QED
      BY <1>2, <1>5, <2>2, <3>1 DEF Say, Names
  <2> QED
    BY <1>3, <2>1, <2>2 DEF Say
<1>4. \A i \in 1 .. j : X[i] # <<>> => ~Fails(X[i])
  BY <1>1 DEF ReadSoFar
<1> QED
  BY <1>0, <1>3, <1>4 DEF ReadSoFar

(* The next line, in rtsp_msg_hdr_line_parse_tbl. *)
LEMMA ReadOne ==
    ASSUME NEW X, NEW k \in Nat, NEW g, ReadSoFar(X, k, g),
           Plain(X[k + 1]), ~Fails(X[k + 1])
    PROVE  ReadSoFar(X, k + 1, Parsed(g, X[k + 1])) /\ Parsed(g, X[k + 1]).body = g.body
<1>1. PICK x : x = X[k + 1]
  OBVIOUS
<1>2. x # <<>> /\ Head(x) = x[1]
  <2>1. x \in Seq(Piece) /\ x # <<>>
    BY <1>1 DEF Plain, Text
  <2> QED
    BY <2>1
<1>3. \A i \in 1 .. k + 1 : i \in 1 .. k \/ i = k + 1
  OBVIOUS
<1>4. \A i \in 1 .. k : i \in 1 .. k + 1
  OBVIOUS
<1>5. k + 1 \in 1 .. k + 1 /\ (k + 1) + 1 .. k + 1 = {}
  OBVIOUS
<1>0. PICK H : H = Heard(X)
  OBVIOUS
<1>11. H[k + 1] = IF Unknown(x) THEN <<>> ELSE x
  BY <1>0, <1>1, <1>2 DEF Heard
<1>6. ASSUME NEW f, NEW v, Say(H, 1, k, f, v), x[1] # f \/ Unknown(x) PROVE Say(H, 1, k + 1, f, v)
  <2>1. ~Names(H[k + 1], f)
    BY <1>6, <1>11 DEF Names
  <2>2. CASE v = NONE /\ \A i \in 1 .. k : ~Names(H[i], f)
    BY <1>3, <2>1, <2>2 DEF Say
  <2>3. ASSUME NEW i \in 1 .. k, Names(H[i], f), v = Tail(H[i]), \A h \in i + 1 .. k : ~Names(H[h], f)
        PROVE  Say(H, 1, k + 1, f, v)
    <3>1. \A h \in i + 1 .. k + 1 : h \in i + 1 .. k \/ h = k + 1
      OBVIOUS
    <3> QED
      BY <1>4, <2>1, <2>3, <3>1 DEF Say
  <2> QED
    BY <1>6, <2>2, <2>3 DEF Say
<1>7. ~Unknown(x) => Say(H, 1, k + 1, x[1], Tail(x))
  BY <1>2, <1>5, <1>11 DEF Say, Names
<1>8. \A i \in 1 .. k + 1 : X[i] # <<>> => ~Fails(X[i])
  BY <1>3 DEF ReadSoFar
<1>9. CASE Unknown(x) \/ x[1] \in Unstored
  <2>1. Parsed(g, x) = g
    BY <1>2, <1>9 DEF Parsed
  <2>2. \A f \in Field : IF f \in Unstored THEN g.hdrs[f] = NONE ELSE Say(H, 1, k + 1, f, g.hdrs[f])
    BY <1>0, <1>6, <1>9 DEF ReadSoFar
  <2> QED
    BY <1>0, <1>1, <1>8, <2>1, <2>2 DEF ReadSoFar
<1>10. CASE ~Unknown(x) /\ x[1] \notin Unstored
  <2>0. x[1] \in Field \ Unstored
    BY <1>2, <1>10 DEF Unknown
  <2>1. Parsed(g, x) = [g EXCEPT !.hdrs[x[1]] = Tail(x)]
    BY <1>2, <1>10 DEF Parsed
  <2>2. PICK p : p = [g EXCEPT !.hdrs[x[1]] = Tail(x)]
    OBVIOUS
  <2>3. Message(g)
    BY DEF ReadSoFar
  <2>4. /\ Message(p) /\ p.body = g.body
        /\ \A f \in Field : p.hdrs[f] = IF f = x[1] THEN Tail(x) ELSE g.hdrs[f]
    BY <2>0, <2>2, <2>3 DEF Message
  <2>5. \A f \in Field : IF f \in Unstored THEN p.hdrs[f] = NONE ELSE Say(H, 1, k + 1, f, p.hdrs[f])
    BY <1>0, <1>6, <1>7, <1>10, <2>4 DEF ReadSoFar
  <2> QED
    BY <1>0, <1>1, <1>8, <2>1, <2>2, <2>4, <2>5 DEF ReadSoFar
<1> QED
  BY <1>9, <1>10

-----------------------------------------------------------------------------
(* What a value that is set may consist of. *)
ValuePiece == {"a", "b", "tcp", "udp", ";port", ";interleaved"} \cup {Digits(n)[1] : n \in BodyLengths}

(* A message that can be put together. *)
Shape(m) ==
    /\ Message(m)
    /\ \A f \in Field : m.hdrs[f] \in Seq(ValuePiece) /\ (f \in Unstored => m.hdrs[f] = NONE)
    /\ \E n \in BodyLengths : /\ m.body = Body(n)
                              /\ m.hdrs[CL] = Digits(n) \/ (m.hdrs[CL] = NONE /\ n = 0)

(* A header line of a client. *)
ClientLine ==
    ((Field \ {CL}) \X {<<"a">>, <<"b">>, <<BAD>>})
        \cup ({CL} \X ({<<BAD>>} \cup {Digits(n) : n \in Length} \cup {Tight(n) : n \in Length}))
        \cup {<<"Unknown", <<"a">> >>}

(* The header lines of either, without their CRLF. *)
OfMessage(m) ==
    [i \in 1 .. Len(BuildOrder) |->
        IF BuildOrder[i] \in Field /\ m.hdrs[BuildOrder[i]] # NONE
        THEN <<BuildOrder[i]>> \o m.hdrs[BuildOrder[i]] ELSE <<>>]
OfClient(ls) == [i \in 1 .. Len(ls) |-> <<ls[i][1]>> \o ls[i][2]]

-----------------------------------------------------------------------------
(* The order of rtsp_msg_build_to_array has each name once. *)
LEMMA OrderIs ==
    /\ Len(BuildOrder) = 13 /\ DOMAIN BuildOrder = 1 .. 13
    /\ \A i \in 1 .. 13 : BuildOrder[i] \in Piece \ {CR, LF, BAD}
    /\ \A i, j \in 1 .. 13 : BuildOrder[i] = BuildOrder[j] => i = j
    /\ \A f \in Field : \E i \in 1 .. 13 : BuildOrder[i] = f
<1>1. Len(BuildOrder) = 13 /\ DOMAIN BuildOrder = 1 .. 13
  BY DEF BuildOrder
<1>2. \A i \in 1 .. 13 : BuildOrder[i] \in Range(BuildOrder)
  BY <1>1 DEF Range
<1>3. \A i \in 1 .. 13 : BuildOrder[i] \notin {CR, LF, BAD}
  BY DEF BuildOrder, CR, LF, BAD
<1>4. \A i, j \in 1 .. 13 : BuildOrder[i] = BuildOrder[j] => i = j
  BY DEF BuildOrder
<1>5. \A f \in Field : \E i \in 1 .. 13 : BuildOrder[i] = f
  BY <1>1, FieldAssumption DEF Range
<1> QED
  BY <1>1, <1>2, <1>3, <1>4, <1>5 DEF Piece

(* A value that is set neither ends a line nor is bad. *)
LEMMA ValuePieceIs ==
    /\ ValuePiece \subseteq Piece
    /\ ValuePiece \cap {CR, LF, BAD, CL} = {}
<1>1. ValuePiece \subseteq Piece
  BY DEF ValuePiece, Piece, Length
<1>2. {"a", "b", "tcp", "udp", ";port", ";interleaved"} \cap {CR, LF, BAD, CL} = {}
  BY DEF CR, LF, BAD, CL
<1>3. {Digits(n)[1] : n \in BodyLengths} \cap {CR, LF, BAD, CL} = {}
  BY DigitsAssumption DEF NumbersTell, CL, Length
<1> QED
  BY <1>1, <1>2, <1>3 DEF ValuePiece

(* A name and a value. *)
LEMMA NameThen ==
    ASSUME NEW S, NEW f \in S, NEW v \in Seq(S), NEW x, x = <<f>> \o v
    PROVE  /\ x \in Seq(S) /\ x # <<>> /\ x[1] = f /\ Tail(x) = v /\ Head(x) = f
           /\ Len(v) \in Nat /\ Len(x) = Len(v) + 1
           /\ \A i \in 2 .. Len(x) : i - 1 \in 1 .. Len(v) /\ x[i] = v[i - 1]
<1>1. x \in Seq(S) /\ Joined(x, <<f>>, v)
  <2>1. <<f>> \in Seq(S)
    OBVIOUS
  <2> QED
    BY <2>1, ConcatPlaces
<1>2. /\ Len(v) \in Nat /\ Len(x) = Len(v) + 1 /\ x[1] = f
      /\ \A i \in 1 .. Len(v) : x[1 + i] = v[i]
  BY <1>1 DEF Joined
<1>3. \A i \in 2 .. Len(x) : i - 1 \in 1 .. Len(v) /\ x[i] = v[i - 1]
  <2> SUFFICES ASSUME NEW i \in 2 .. Len(x) PROVE i - 1 \in 1 .. Len(v) /\ x[i] = v[i - 1]
    OBVIOUS
  <2>1. i - 1 \in 1 .. Len(v) /\ 1 + (i - 1) = i
    BY <1>2
  <2> QED
    BY <1>2, <2>1
<1>4. x # <<>>
  BY <1>1, <1>2
<1>5. Head(x) = x[1]
  BY <1>1, <1>4
<1>6. Tail(x) = v
  <2>1. /\ Tail(x) \in Seq(S) /\ Len(Tail(x)) = Len(v)
        /\ \A i \in 1 .. Len(v) : Tail(x)[i] = x[1 + i]
    BY <1>1, <1>2, <1>4
  <2>2. \A i \in 1 .. Len(v) : Tail(x)[i] = v[i]
    BY <1>2, <2>1
  <2> QED
    BY <2>1, <2>2, SeqEqual
<1> QED
  BY <1>1, <1>2, <1>3, <1>4, <1>5, <1>6

(* The parser refuses a line for its value only. *)
LEMMA BadFails ==
    ASSUME NEW x, Plain(x), x[1] = CL, x[2] = BAD
    PROVE  x # <<>> /\ Fails(x)
<1>1. x \in Seq(Piece) /\ x # <<>> /\ Len(x) = 2
  BY DEF Plain, Text
<1>2. Head(x) = x[1] /\ DOMAIN x = 1 .. 2
  BY <1>1
<1>3. BAD \in Range(x)
  BY <1>2 DEF Range
<1>4. CL \in MayFail
  BY DEF MayFail, CL
<1> QED
  BY <1>1, <1>2, <1>3, <1>4 DEF Fails

(* The lines of a message say what it has, and none is refused. *)
LEMMA MessageHas ==
    ASSUME NEW m, Shape(m)
    PROVE  /\ Lines(OfMessage(m)) /\ Len(OfMessage(m)) = 13
           /\ LinesOf(m) = MessageLines(Lined(OfMessage(m)))
           /\ \A i \in 1 .. 13 : OfMessage(m)[i] # <<>> => ~Fails(OfMessage(m)[i])
           /\ \A f \in Field : Say(OfMessage(m), 1, 13, f, m.hdrs[f])
           /\ \A f \in Field : Say(Heard(OfMessage(m)), 1, 13, f, m.hdrs[f])
<1> DEFINE X == OfMessage(m)
           named(i) == BuildOrder[i] \in Field /\ m.hdrs[BuildOrder[i]] # NONE
<1>1. \A i \in 1 .. 13 : X[i] = IF named(i) THEN <<BuildOrder[i]>> \o m.hdrs[BuildOrder[i]] ELSE <<>>
  BY OrderIs DEF OfMessage
<1>2. ASSUME NEW i \in 1 .. 13, named(i)
      PROVE  /\ X[i] \in Text /\ Plain(X[i]) /\ X[i] # <<>> /\ ~Fails(X[i]) /\ ~Unknown(X[i])
             /\ X[i][1] = BuildOrder[i] /\ Tail(X[i]) = m.hdrs[BuildOrder[i]]
             /\ HeaderLine(BuildOrder[i], m.hdrs[BuildOrder[i]]) = X[i] \o CRLF
  <2>1. PICK f, v : f = BuildOrder[i] /\ v = m.hdrs[BuildOrder[i]]
    OBVIOUS
  <2>2. f \in Piece \ {CR, LF, BAD}
    BY <2>1, OrderIs
  <2>3. v \in Seq(ValuePiece)
    BY <1>2, <2>1 DEF Shape
  <2>4. Len(v) \in Nat /\ \A j \in 1 .. Len(v) : v[j] \in ValuePiece
    BY <2>3
  <2>5. v \in Seq(Piece)
    BY <2>3, ValuePieceIs
  <2>6. PICK x : x = <<f>> \o v
    OBVIOUS
  <2>7. /\ x \in Seq(Piece) /\ x # <<>> /\ x[1] = f /\ Tail(x) = v /\ Head(x) = f
        /\ Len(x) = Len(v) + 1
        /\ \A j \in 2 .. Len(x) : j - 1 \in 1 .. Len(v) /\ x[j] = v[j - 1]
    BY <2>2, <2>5, <2>6, NameThen
  <2>8. \A j \in 2 .. Len(x) : x[j] \notin {CR, CL, BAD}
    BY <2>4, <2>7, ValuePieceIs
  <2>9. \A j \in 1 .. Len(x) : j = 1 \/ j \in 2 .. Len(x)
    BY <2>4, <2>7
  <2>10. \A j \in 1 .. Len(x) : x[j] # CR /\ x[j] # BAD
    BY <2>2, <2>7, <2>8, <2>9
  <2>11. x[1] = CL => Len(x) = 2 /\ \E n \in BodyLengths : <<x[2]>> = Digits(n) /\ v = Digits(n)
    <3> SUFFICES ASSUME x[1] = CL
                 PROVE  Len(x) = 2 /\ \E n \in BodyLengths : <<x[2]>> = Digits(n) /\ v = Digits(n)
      OBVIOUS
    <3>1. v # NONE /\ f = CL
      BY <1>2, <2>1, <2>7
    <3>2. PICK n \in BodyLengths : v = Digits(n)
      BY <2>1, <3>1 DEF Shape
    <3>3. Len(v) = 1 /\ v = <<v[1]>>
      BY <3>2 DEF Digits
    <3>4. Len(x) = 2 /\ 2 \in 2 .. Len(x) /\ 2 - 1 = 1
      BY <2>7, <3>3
    <3>5. x[2] = v[1]
      BY <2>7, <3>4
    <3> QED
      BY <3>2, <3>3, <3>4, <3>5
  <2>12. Plain(x)
    <3>1. x[1] = CL => LengthPiece(x[2])
      BY <2>11 DEF LengthPiece, Says, Length
    <3> QED
      BY <2>7, <2>8, <2>10, <2>11, <3>1 DEF Plain, Text
  <2>16. ~Unknown(x)
    <3>1. f \in Field
      BY <1>2, <2>1
    <3>2. \A n \in BodyLengths, k \in Length : Digits(n) # Tight(k)
      BY DigitsAssumption DEF NumbersTell, Length
    <3>3. x[1] = "Content-Length" => \A k \in Length : Tail(x) # Tight(k)
      BY <2>7, <2>11, <3>2 DEF CL
    <3> QED
      BY <2>7, <3>1, <3>3 DEF Unknown
  <2>13. ~Fails(x)
    <3>1. DOMAIN x = 1 .. Len(x)
      BY <2>7
    <3>2. BAD \notin Range(x)
      BY <2>10, <3>1 DEF Range
    <3> QED
      BY <3>2 DEF Fails
  <2>14. X[i] = x
    BY <1>1, <1>2, <2>1, <2>6
  <2>15. HeaderLine(f, v) = x \o CRLF
    BY <2>6 DEF HeaderLine
  <2> QED
    BY <2>1, <2>7, <2>12, <2>13, <2>14, <2>15, <2>16 DEF Text
<1>3. ASSUME NEW i \in 1 .. 13, ~named(i) PROVE X[i] = <<>> /\ X[i] \in Text
  <2> HIDE DEF X, named
  <2>1. X[i] = <<>>
    BY <1>1, <1>3
  <2>2. <<>> \in Seq(Piece)
    BY EmptySeq
  <2> QED
    BY <2>1, <2>2 DEF Text
<1>4. Lines(X) /\ Len(X) = 13
  <2>1. X = [i \in 1 .. 13 |-> X[i]]
    BY OrderIs DEF OfMessage
  <2> HIDE DEF X, named
  <2>2. \A i \in 1 .. 13 : X[i] \in Text
    BY <1>2, <1>3
  <2>3. X \in Seq(Text) /\ Len(X) = 13
    BY <2>1, <2>2
  <2> QED
    BY <1>2, <1>3, <2>3 DEF Lines
<1>5. LinesOf(m) = MessageLines(Lined(X))
  <2>1. Lined(X) = [i \in 1 .. 13 |-> IF X[i] = <<>> THEN <<>> ELSE X[i] \o CRLF]
    BY <1>4 DEF Lined
  <2>2. ASSUME NEW i \in 1 .. 13
        PROVE  FieldLine(m, BuildOrder[i]) = IF X[i] = <<>> THEN <<>> ELSE X[i] \o CRLF
    <3>1. FieldLine(m, BuildOrder[i]) = IF named(i) THEN HeaderLine(BuildOrder[i], m.hdrs[BuildOrder[i]]) ELSE <<>>
      BY DEF FieldLine
    <3> HIDE DEF X, named
    <3> QED
      BY <1>2, <1>3, <3>1
  <2> HIDE DEF X
  <2>3. [i \in DOMAIN BuildOrder |-> FieldLine(m, BuildOrder[i])] = Lined(X)
    <3>1. DOMAIN BuildOrder = 1 .. 13
      BY OrderIs
    <3>2. [i \in 1 .. 13 |-> FieldLine(m, BuildOrder[i])] = Lined(X)
      BY <2>1, <2>2, Zenon
    <3> QED
      BY <3>1, <3>2
  <2> QED
    BY <2>3 DEF LinesOf
<1>6. ASSUME NEW f \in Field PROVE Say(X, 1, 13, f, m.hdrs[f])
  <2>1. PICK i \in 1 .. 13 : BuildOrder[i] = f
    BY OrderIs
  <2>2. ASSUME NEW j \in 1 .. 13, Names(X[j], f) PROVE j = i
    <3>1. named(j) /\ X[j][1] = BuildOrder[j]
      BY <1>2, <1>3, <2>2 DEF Names
    <3> QED
      BY <2>1, <2>2, <3>1, OrderIs DEF Names
  <2>3. CASE m.hdrs[f] = NONE
    <3>1. ~named(i)
      BY <2>1, <2>3
    <3>2. ~Names(X[i], f)
      BY <1>3, <3>1 DEF Names
    <3>3. \A j \in 1 .. 13 : ~Names(X[j], f)
      BY <2>2, <3>2
    <3> QED
      BY <2>3, <3>3 DEF Say
  <2>4. CASE m.hdrs[f] # NONE
    <3>1. named(i)
      BY <2>1, <2>4
    <3>2. Names(X[i], f) /\ Tail(X[i]) = m.hdrs[f]
      BY <1>2, <2>1, <3>1 DEF Names
    <3>3. \A j \in i + 1 .. 13 : j \in 1 .. 13 /\ j # i
      OBVIOUS
    <3>4. \A j \in i + 1 .. 13 : ~Names(X[j], f)
      BY <2>2, <3>3
    <3> HIDE DEF X
    <3> QED
      BY <3>2, <3>4 DEF Say
  <2> QED
    BY <2>3, <2>4
<1>7. ASSUME NEW f \in Field PROVE Say(Heard(X), 1, 13, f, m.hdrs[f])
  <2>1. PICK v, H : v = m.hdrs[f] /\ H = Heard(X)
    OBVIOUS
  <2>2. \A i \in 1 .. 13 : X[i] # <<>> => ~Unknown(X[i])
    BY <1>2, <1>3
  <2> HIDE DEF X, named
  <2>3. \A i \in 1 .. 13 : H[i] = X[i]
    <3>1. \A i \in 1 .. 13 : i \in Nat
      OBVIOUS
    <3> QED
      BY <2>1, <2>2, <3>1 DEF Heard
  <2>4. Say(X, 1, 13, f, v)
    BY <1>6, <2>1
  <2>5. \A i \in 1 .. 13 : \A j \in i + 1 .. 13 : j \in 1 .. 13
    OBVIOUS
  <2>6. Say(H, 1, 13, f, v)
    BY <2>3, <2>4, <2>5 DEF Say
  <2> QED
    BY <2>1, <2>6
<1> QED
  BY <1>2, <1>3, <1>4, <1>5, <1>6, <1>7

(* The name and the value of a client's line. *)
LEMMA ClientLineIs ==
    ASSUME NEW l \in ClientLine
    PROVE  /\ l[1] \in Piece \ {CR, LF, BAD}
           /\ \E c \in Piece : /\ l[2] = <<c>> /\ c # CR /\ c # CL
                               /\ l[1] = CL => LengthPiece(c)
<1>1. l[1] \in Piece \ {CR, LF, BAD}
  <2>1. \A f \in Field : f \in Piece \ {CR, LF, BAD}
    BY OrderIs
  <2>2. "Unknown" \in Piece \ {CR, LF, BAD}
    BY DEF Piece, CR, LF, BAD
  <2>3. CL \in Field
    BY FieldAssumption DEF CL
  <2> QED
    BY <2>1, <2>2, <2>3 DEF ClientLine
<1>2. {"a", "b", BAD} \subseteq Piece /\ {"a", "b", BAD} \cap {CR, CL} = {}
  BY DEF Piece, BAD, CR, CL
<1> DEFINE good(c) == /\ l[2] = <<c>> /\ c \in Piece /\ c # CR /\ c # CL
                      /\ l[1] = CL => LengthPiece(c)
<1>3. ASSUME l \in (Field \ {CL}) \X {<<"a">>, <<"b">>, <<BAD>>} PROVE \E c : good(c)
  <2>1. l[2] \in {<<"a">>, <<"b">>, <<BAD>>} /\ l[1] # CL
    BY <1>3
  <2>2. PICK c \in {"a", "b", BAD} : l[2] = <<c>>
    BY <2>1
  <2>3. good(c)
    BY <1>2, <2>1, <2>2
  <2> HIDE DEF good
  <2> QED
    BY <2>3
<1>4. ASSUME l \in {CL} \X ({<<BAD>>} \cup {Digits(n) : n \in Length} \cup {Tight(n) : n \in Length})
      PROVE  \E c : good(c)
  <2>1. CASE l[2] = <<BAD>>
    <3>1. good(BAD)
      BY <1>2, <2>1 DEF LengthPiece
    <3> HIDE DEF good
    <3> QED
      BY <3>1
  <2>2. ASSUME NEW n \in Length, NEW v \in {Digits(n), Tight(n)}, l[2] = v PROVE \E c : good(c)
    <3>1. PICK c : c = v[1]
      OBVIOUS
    <3>2. <<c>> = v
      BY <3>1 DEF Digits, Tight
    <3>3. c \in Piece /\ c # CR /\ c # CL
      BY <3>1, DigitsAssumption DEF NumbersTell, Piece, CL
    <3>4. Says(<<c>>, n)
      BY <2>2, <3>2 DEF Says
    <3>5. good(c)
      BY <2>2, <3>2, <3>3, <3>4 DEF LengthPiece
    <3> HIDE DEF good
    <3> QED
      BY <3>5
  <2>3. \/ l[2] = <<BAD>>
        \/ \E n \in Length : l[2] \in {Digits(n), Tight(n)}
    BY <1>4
  <2> QED
    BY <2>1, <2>2, <2>3
<1>5. ASSUME l \in {<<"Unknown", <<"a">> >>} PROVE \E c : good(c)
  <2>1. l[2] = <<"a">> /\ l[1] # CL
    BY <1>5 DEF CL
  <2>2. good("a")
    BY <1>2, <2>1
  <2> HIDE DEF good
  <2> QED
    BY <2>2
<1>6. \E c : good(c)
  BY <1>3, <1>4, <1>5 DEF ClientLine
<1> QED
  BY <1>1, <1>6

(* The lines of a client's message, and which of them are refused. *)
LEMMA ClientHas ==
    ASSUME NEW ls \in Seq(ClientLine)
    PROVE  /\ Lines(OfClient(ls)) /\ Len(OfClient(ls)) = Len(ls) /\ Len(ls) \in Nat
           /\ [i \in DOMAIN ls |-> HeaderLine(ls[i][1], ls[i][2])] = Lined(OfClient(ls))
           /\ \A i \in 1 .. Len(ls) :
                 /\ OfClient(ls)[i] # <<>>
                 /\ OfClient(ls)[i][1] = ls[i][1] /\ Tail(OfClient(ls)[i]) = ls[i][2]
                 /\ Fails(OfClient(ls)[i]) <=> ls[i][1] \in MayFail /\ ls[i][2] = <<BAD>>
<1> DEFINE X == OfClient(ls)
<1>1. Len(ls) \in Nat /\ DOMAIN ls = 1 .. Len(ls) /\ \A i \in 1 .. Len(ls) : ls[i] \in ClientLine
  OBVIOUS
<1>2. X = [i \in 1 .. Len(ls) |-> <<ls[i][1]>> \o ls[i][2]]
  BY DEF OfClient
<1>3. ASSUME NEW i \in 1 .. Len(ls)
      PROVE  /\ X[i] \in Text /\ Plain(X[i]) /\ X[i] # <<>>
             /\ X[i][1] = ls[i][1] /\ Tail(X[i]) = ls[i][2]
             /\ HeaderLine(ls[i][1], ls[i][2]) = X[i] \o CRLF
             /\ Fails(X[i]) <=> ls[i][1] \in MayFail /\ ls[i][2] = <<BAD>>
  <2>1. PICK f, v : f = ls[i][1] /\ v = ls[i][2]
    OBVIOUS
  <2>2. ls[i] \in ClientLine
    BY <1>1
  <2>3. f \in Piece \ {CR, LF, BAD}
    BY <2>1, <2>2, ClientLineIs
  <2>4. PICK c \in Piece : /\ v = <<c>> /\ c # CR /\ c # CL
                           /\ f = CL => LengthPiece(c)
    BY <2>1, <2>2, ClientLineIs
  <2>5. v \in Seq(Piece) /\ Len(v) = 1 /\ v[1] = c
    BY <2>4
  <2>6. PICK x : x = <<f>> \o v
    OBVIOUS
  <2>7. /\ x \in Seq(Piece) /\ x # <<>> /\ x[1] = f /\ Tail(x) = v /\ Head(x) = f
        /\ Len(x) = Len(v) + 1
        /\ \A j \in 2 .. Len(x) : j - 1 \in 1 .. Len(v) /\ x[j] = v[j - 1]
    <3>1. f \in Piece /\ v \in Seq(Piece) /\ x = <<f>> \o v
      BY <2>3, <2>5, <2>6
    <3> QED
      BY <3>1, NameThen
  <2>8. Len(x) = 2 /\ 2 \in 2 .. Len(x) /\ 2 - 1 = 1
    BY <2>5, <2>7
  <2>9. x[2] = c
    BY <2>5, <2>7, <2>8
  <2>10. \A j \in 1 .. Len(x) : j = 1 \/ j = 2
    BY <2>8
  <2>11. \A j \in 2 .. Len(x) : j = 2
    BY <2>8
  <2>12. Plain(x)
    <3>1. \A j \in 1 .. Len(x) : x[j] # CR
      BY <2>3, <2>4, <2>7, <2>9, <2>10
    <3>2. \A j \in 2 .. Len(x) : x[j] # CL
      BY <2>4, <2>9, <2>11
    <3> QED
      BY <2>4, <2>7, <2>8, <2>9, <3>1, <3>2 DEF Plain, Text
  <2>13. Fails(x) <=> f \in MayFail /\ v = <<BAD>>
    <3>1. DOMAIN x = 1 .. 2
      BY <2>7, <2>8
    <3>2. BAD \in Range(x) <=> c = BAD
      BY <2>3, <2>7, <2>9, <2>10, <2>8, <3>1 DEF Range
    <3>3. v = <<BAD>> <=> c = BAD
      BY <2>4
    <3> QED
      BY <2>7, <3>2, <3>3 DEF Fails
  <2>14. X[i] = x
    BY <1>2, <2>1, <2>6
  <2>15. HeaderLine(f, v) = x \o CRLF
    BY <2>6 DEF HeaderLine
  <2> QED
    BY <2>1, <2>7, <2>12, <2>13, <2>14, <2>15 DEF Text
<1>4. Lines(X) /\ Len(X) = Len(ls)
  <2>1. X = [i \in 1 .. Len(ls) |-> X[i]]
    BY <1>2
  <2> HIDE DEF X
  <2>2. \A i \in 1 .. Len(ls) : X[i] \in Text
    BY <1>3
  <2>3. X \in Seq(Text) /\ Len(X) = Len(ls)
    BY <1>1, <2>1, <2>2
  <2> QED
    BY <1>3, <2>3 DEF Lines
<1>5. [i \in DOMAIN ls |-> HeaderLine(ls[i][1], ls[i][2])] = Lined(X)
  <2>1. Lined(X) = [i \in 1 .. Len(ls) |-> IF X[i] = <<>> THEN <<>> ELSE X[i] \o CRLF]
    BY <1>4 DEF Lined
  <2> HIDE DEF X
  <2>2. \A i \in 1 .. Len(ls) : HeaderLine(ls[i][1], ls[i][2]) = IF X[i] = <<>> THEN <<>> ELSE X[i] \o CRLF
    BY <1>3
  <2>3. [i \in 1 .. Len(ls) |-> HeaderLine(ls[i][1], ls[i][2])] = Lined(X)
    BY <2>1, <2>2, Zenon
  <2> QED
    BY <1>1, <2>3
<1> QED
  BY <1>1, <1>3, <1>4, <1>5

(* The last line of a header says what there is to say of it. *)
NamedIn(Y, n, f) == {i \in 1 .. n : Names(Y[i], f)}
LastSaid(Y, n, f, last) ==
    /\ last \in NamedIn(Y, n, f) \cup {0}
    /\ Say(Y, 1, n, f, IF last = 0 THEN NONE ELSE Tail(Y[last]))

LEMMA LastSays ==
    ASSUME NEW n \in Nat, NEW Y, NEW f
    PROVE  LastSaid(Y, n, f, Max(NamedIn(Y, n, f) \cup {0}))
<1>0. PICK S, last : S = NamedIn(Y, n, f) /\ last = Max(S \cup {0})
  OBVIOUS
<1> SUFFICES /\ last \in S \cup {0}
             /\ Say(Y, 1, n, f, IF last = 0 THEN NONE ELSE Tail(Y[last]))
  BY <1>0 DEF LastSaid
<1>1. S \subseteq 1 .. n /\ \A i \in 1 .. n : Names(Y[i], f) <=> i \in S
  BY <1>0 DEF NamedIn
<1>4. CASE S = {}
  <2>1. Max({0}) = 0
    <3>1. {0} \in SUBSET Int /\ 0 \in {0} /\ \A j \in {0} : j <= 0
      OBVIOUS
    <3> QED
      BY <3>1, MaxIs
  <2>2. S \cup {0} = {0}
    BY <1>4
  <2>3. Say(Y, 1, n, f, NONE)
    BY <1>1, <1>4 DEF Say
  <2> QED
    BY <1>0, <2>1, <2>2, <2>3
<1>5. CASE S # {}
  <2>1. PICK k : k = Max(S)
    OBVIOUS
  <2>2. k \in S /\ \A j \in S : j <= k
    BY <1>1, <1>5, <2>1, LastOne
  <2>3. S \cup {0} \in SUBSET Int /\ k \in S \cup {0} /\ \A j \in S \cup {0} : j <= k
    BY <1>1, <2>2
  <2>4. Max(S \cup {0}) = k
    BY <2>3, MaxIs
  <2>5. k \in 1 .. n /\ k # 0
    BY <1>1, <2>2
  <2>6. \A j \in k + 1 .. n : j \in 1 .. n /\ ~(j <= k)
    BY <2>5
  <2>7. Say(Y, 1, n, f, Tail(Y[k]))
    BY <1>1, <2>2, <2>5, <2>6 DEF Say
  <2> QED
    BY <1>0, <2>2, <2>4, <2>5, <2>7
<1> QED
  BY <1>4, <1>5

(* What the last line of a header leaves in the message, and what the last of all says. *)
KnownLast(ls, f, k) ==
    /\ Say(Heard(OfClient(ls)), 1, Len(ls), f, IF k = 0 THEN NONE ELSE ls[k][2])
    /\ k = 0 \/ ls[k][2] # NONE
AnyLast(ls, f, h) ==
    /\ Say(OfClient(ls), 1, Len(ls), f, IF h = 0 THEN NONE ELSE ls[h][2])
    /\ h = 0 \/ ls[h][2] # NONE

LEMMA ClientSays ==
    ASSUME NEW ls \in Seq(ClientLine), NEW f
    PROVE  KnownLast(ls, f, Max({i \in DOMAIN ls : ls[i][1] = f /\ ~Unknown(<<f>> \o ls[i][2])} \cup {0}))
           /\ AnyLast(ls, f, Max({i \in DOMAIN ls : ls[i][1] = f} \cup {0}))
<1> DEFINE X == OfClient(ls)
           H == Heard(X)
<1>0. PICK k, h :
         /\ k = Max({i \in DOMAIN ls : ls[i][1] = f /\ ~Unknown(<<f>> \o ls[i][2])} \cup {0})
         /\ h = Max({i \in DOMAIN ls : ls[i][1] = f} \cup {0})
  OBVIOUS
<1> SUFFICES KnownLast(ls, f, k) /\ AnyLast(ls, f, h)
  BY <1>0
<1>1. /\ Len(ls) \in Nat /\ DOMAIN ls = 1 .. Len(ls)
      /\ \A i \in 1 .. Len(ls) : X[i] # <<>> /\ X[i][1] = ls[i][1] /\ Tail(X[i]) = ls[i][2]
  BY ClientHas
<1>2. \A i \in 1 .. Len(ls) : X[i] = <<ls[i][1]>> \o ls[i][2]
  BY <1>1 DEF OfClient
<1>3. \A i \in 1 .. Len(ls) : H[i] = IF Unknown(X[i]) THEN <<>> ELSE X[i]
  <2>1. \A i \in 1 .. Len(ls) : i \in Nat
    BY <1>1
  <2> QED
    BY <1>1, <2>1 DEF Heard
<1>4. \A i \in 1 .. Len(ls) : ls[i][2] # NONE
  <2> SUFFICES ASSUME NEW i \in 1 .. Len(ls) PROVE ls[i][2] # NONE
    OBVIOUS
  <2>1. ls[i] \in ClientLine
    OBVIOUS
  <2>2. PICK c : ls[i][2] = <<c>>
    BY <2>1, ClientLineIs
  <2> QED
    BY <2>2 DEF NONE
<1> HIDE DEF X, H
<1>5. PICK SH, SX : SH = NamedIn(H, Len(ls), f) /\ SX = NamedIn(X, Len(ls), f)
  OBVIOUS
<1>6. SX = {i \in DOMAIN ls : ls[i][1] = f}
  BY <1>1, <1>5 DEF Names, NamedIn
<1>7. SH = {i \in DOMAIN ls : ls[i][1] = f /\ ~Unknown(<<f>> \o ls[i][2])}
  <2>1. ASSUME NEW i \in 1 .. Len(ls)
        PROVE  Names(H[i], f) <=> ls[i][1] = f /\ ~Unknown(<<f>> \o ls[i][2])
    <3>1. PICK x, y, a, v : x = X[i] /\ y = H[i] /\ a = ls[i][1] /\ v = ls[i][2]
      OBVIOUS
    <3>2. x # <<>> /\ x[1] = a /\ x = <<a>> \o v /\ y = IF Unknown(x) THEN <<>> ELSE x
      BY <1>1, <1>2, <1>3, <3>1
    <3>3. y # <<>> /\ y[1] = f <=> a = f /\ ~Unknown(<<f>> \o v)
      BY <3>2
    <3> QED
      BY <3>1, <3>3 DEF Names
  <2> QED
    BY <1>1, <1>5, <2>1 DEF NamedIn
<1>8. /\ k \in SH \cup {0}
      /\ Say(H, 1, Len(ls), f, IF k = 0 THEN NONE ELSE Tail(H[k]))
  <2>1. k = Max(NamedIn(H, Len(ls), f) \cup {0})
    BY <1>0, <1>5, <1>7
  <2>2. LastSaid(H, Len(ls), f, k)
    BY <1>1, <2>1, LastSays
  <2> QED
    BY <1>5, <2>2 DEF LastSaid
<1>9. /\ h \in SX \cup {0}
      /\ Say(X, 1, Len(ls), f, IF h = 0 THEN NONE ELSE Tail(X[h]))
  <2>1. h = Max(NamedIn(X, Len(ls), f) \cup {0})
    BY <1>0, <1>5, <1>6
  <2>2. LastSaid(X, Len(ls), f, h)
    BY <1>1, <2>1, LastSays
  <2> QED
    BY <1>5, <2>2 DEF LastSaid
<1>10. k # 0 => k \in 1 .. Len(ls) /\ Tail(H[k]) = ls[k][2]
  <2> SUFFICES ASSUME k # 0 PROVE k \in 1 .. Len(ls) /\ Tail(H[k]) = ls[k][2]
    OBVIOUS
  <2>1. k \in 1 .. Len(ls) /\ Names(H[k], f)
    BY <1>5, <1>8 DEF NamedIn
  <2>2. H[k] = X[k]
    BY <1>3, <2>1 DEF Names
  <2> QED
    BY <1>1, <2>1, <2>2
<1>11. h # 0 => h \in 1 .. Len(ls) /\ Tail(X[h]) = ls[h][2]
  BY <1>1, <1>5, <1>9 DEF NamedIn
<1>12. Say(H, 1, Len(ls), f, IF k = 0 THEN NONE ELSE ls[k][2])
  BY <1>8, <1>10
<1>13. Say(X, 1, Len(ls), f, IF h = 0 THEN NONE ELSE ls[h][2])
  BY <1>9, <1>11
<1> QED
  BY <1>4, <1>10, <1>11, <1>12, <1>13 DEF H, X, KnownLast, AnyLast

(* What some lines say of the length tells one, unless one of them is bad. *)
LEMMA SaidLength ==
    ASSUME NEW X, Lines(X), NEW k \in Nat, k <= Len(X), NEW v, Say(Heard(X), 1, k, CL, v),
           \A i \in 1 .. k : X[i] # <<>> => ~Fails(X[i])
    PROVE  v = NONE \/ \E n \in Length : Says(v, n) /\ v # NONE /\ Number(v) = n
<1>1. CASE v = NONE
  BY <1>1
<1>2. ASSUME NEW i \in 1 .. k, Names(Heard(X)[i], CL), v = Tail(Heard(X)[i])
      PROVE  \E n \in Length : Says(v, n) /\ v # NONE /\ Number(v) = n
  <2>1. i \in Nat /\ i \in 1 .. Len(X)
    BY LinedIs
  <2>2. PICK x : x = X[i]
    OBVIOUS
  <2>3. x # <<>> /\ x[1] = CL /\ v = Tail(x)
    BY <1>2, <2>1, <2>2 DEF Heard, Names
  <2>4. Plain(x) /\ ~Fails(x)
    BY <2>1, <2>2, <2>3 DEF Lines
  <2>5. x \in Seq(Piece) /\ Len(x) = 2 /\ LengthPiece(x[2])
    BY <2>3, <2>4 DEF Plain, Text
  <2>6. v = <<x[2]>>
    BY <2>3, <2>5, TailOfTwo
  <2>7. x[2] # BAD
    BY <2>3, <2>4, BadFails
  <2>8. PICK n \in Length : Says(v, n)
    BY <2>5, <2>6, <2>7 DEF LengthPiece
  <2> QED
    BY <2>8, NumberOf DEF Says
<1> QED
  BY <1>1, <1>2 DEF Say

(* Beginnings. *)
LEMMA BeginsSame ==
    ASSUME NEW s \in Text, NEW t \in Text, Begins(s, t)
    PROVE  /\ Len(s) \in Nat /\ Len(t) \in Nat /\ Len(s) <= Len(t)
           /\ s = t <=> Len(s) = Len(t)
           /\ IsPrefix(s, t)
<1>1. s \in Seq(Piece) /\ t \in Seq(Piece) /\ Len(s) \in Nat /\ Len(t) \in Nat
  BY DEF Text
<1>2. Len(s) <= Len(t) /\ \A i \in 1 .. Len(s) : s[i] = t[i]
  BY DEF Begins
<1>3. Len(s) = Len(t) => s = t
  BY <1>1, <1>2, SeqEqual
<1>4. SubSeq(s, 1, Len(s)) = SubSeq(t, 1, Len(s))
  <2>1. /\ SubSeq(t, 1, Len(s)) \in Seq(Piece) /\ Len(SubSeq(t, 1, Len(s))) = Len(s)
        /\ \A i \in 1 .. Len(s) : SubSeq(t, 1, Len(s))[i] = t[i]
    BY <1>1, <1>2
  <2>2. \A i \in 1 .. Len(s) : s[i] = SubSeq(t, 1, Len(s))[i]
    BY <1>2, <2>1
  <2>3. s = SubSeq(t, 1, Len(s))
    BY <1>1, <2>1, <2>2, SeqEqual
  <2>4. SubSeq(s, 1, Len(s)) = s
    BY <1>1, SubSeqFull
  <2> QED
    BY <2>3, <2>4
<1> QED
  BY <1>1, <1>2, <1>3, <1>4 DEF IsPrefix

LEMMA BeginsMore ==
    ASSUME NEW s \in Text, NEW t \in Text, NEW u \in Text, Begins(t, u)
    PROVE  Begins(s \o t, s \o u) /\ s \o t \in Text /\ s \o u \in Text /\ Begins(s, s \o u)
<1>1. s \in Seq(Piece) /\ t \in Seq(Piece) /\ u \in Seq(Piece)
  BY DEF Text
<1>2. s \o t \in Seq(Piece) /\ Joined(s \o t, s, t)
  BY <1>1, ConcatPlaces
<1>3. s \o u \in Seq(Piece) /\ Joined(s \o u, s, u)
  BY <1>1, ConcatPlaces
<1>4. PICK a, b : a = s \o t /\ b = s \o u
  OBVIOUS
<1>5. /\ Len(s) \in Nat /\ Len(t) \in Nat /\ Len(u) \in Nat
      /\ Len(a) = Len(s) + Len(t) /\ Len(b) = Len(s) + Len(u)
      /\ \A i \in 1 .. Len(s) : a[i] = s[i] /\ b[i] = s[i]
      /\ \A i \in 1 .. Len(t) : a[Len(s) + i] = t[i]
      /\ \A i \in 1 .. Len(u) : b[Len(s) + i] = u[i]
  BY <1>2, <1>3, <1>4 DEF Joined
<1>6. Len(t) <= Len(u) /\ \A i \in 1 .. Len(t) : t[i] = u[i]
  BY DEF Begins
<1>7. ASSUME NEW i \in 1 .. Len(a) PROVE a[i] = b[i]
  <2>1. CASE i \in 1 .. Len(s)
    BY <1>5, <2>1
  <2>2. CASE i \notin 1 .. Len(s)
    <3>1. PICK j : j = i - Len(s)
      OBVIOUS
    <3>2. j \in 1 .. Len(t) /\ j \in 1 .. Len(u) /\ Len(s) + j = i
      BY <1>5, <1>6, <2>2, <3>1
    <3>3. a[Len(s) + j] = t[j] /\ b[Len(s) + j] = u[j] /\ t[j] = u[j]
      BY <1>5, <1>6, <3>2
    <3> QED
      BY <3>2, <3>3
  <2> QED
    BY <2>1, <2>2
<1>8. Begins(a, b)
  BY <1>5, <1>6, <1>7 DEF Begins
<1>9. Begins(s, b)
  BY <1>5 DEF Begins
<1> QED
  BY <1>2, <1>3, <1>4, <1>8, <1>9 DEF Text

LEMMA BeginsTrans ==
    ASSUME NEW s \in Text, NEW t \in Text, NEW u \in Text, Begins(s, t), Begins(t, u)
    PROVE  Begins(s, u)
<1>1. Len(s) \in Nat /\ Len(t) \in Nat /\ Len(u) \in Nat
  BY DEF Text
<1>2. \A i \in 1 .. Len(s) : i \in 1 .. Len(t)
  BY <1>1 DEF Begins
<1> QED
  BY <1>1, <1>2 DEF Begins

LEMMA BeginsPart ==
    ASSUME NEW s \in Text, NEW p \in 0 .. Len(s)
    PROVE  /\ SubSeq(s, 1, p) \in Text /\ Begins(SubSeq(s, 1, p), s) /\ Len(SubSeq(s, 1, p)) = p
           /\ p = Len(s) => SubSeq(s, 1, p) = s
<1>1. s \in Seq(Piece) /\ Len(s) \in Nat
  BY DEF Text
<1>2. /\ SubSeq(s, 1, p) \in Seq(Piece) /\ Len(SubSeq(s, 1, p)) = p
      /\ \A i \in 1 .. p : SubSeq(s, 1, p)[i] = s[i]
  BY <1>1
<1>3. SubSeq(s, 1, Len(s)) = s
  BY <1>1, SubSeqFull
<1>4. Begins(SubSeq(s, 1, p), s)
  BY <1>1, <1>2 DEF Begins
<1> QED
  BY <1>2, <1>3, <1>4 DEF Text

(* A line is added to those built, or a part of it. *)
LEMMA Grows ==
    ASSUME NEW L \in Seq(Text), NEW bd \in Text, NEW k \in Nat, k < Len(L), NEW p \in 0 .. Len(L[k + 1])
    PROVE  LET t == FlattenSeq(SubSeq(L, 1, k)) \o SubSeq(L[k + 1], 1, p)
           IN  /\ L[k + 1] \in Text /\ Len(SubSeq(L[k + 1], 1, p)) = p
               /\ t \in Text /\ FlattenSeq(L) \in Text /\ FlattenSeq(L) \o bd \in Text
               /\ Begins(t, FlattenSeq(L) \o bd)
               /\ p = Len(L[k + 1]) => t = FlattenSeq(SubSeq(L, 1, k + 1))
<1>1. L \in Seq(Seq(Piece)) /\ Len(L) \in Nat
  BY DEF Text
<1>2. /\ L[k + 1] \in Seq(Piece) /\ SubSeq(L, 1, k) \in Seq(Seq(Piece))
      /\ SubSeq(L, 1, k + 1) = Append(SubSeq(L, 1, k), L[k + 1])
  BY <1>1, OneMore
<1>3. FlattenSeq(SubSeq(L, 1, k)) \in Text
  BY <1>2, FlattenType DEF Text
<1>4. FlattenSeq(SubSeq(L, 1, k + 1)) = FlattenSeq(SubSeq(L, 1, k)) \o L[k + 1]
  BY <1>2, FlattenAppend
<1>5. /\ L[k + 1] \in Text /\ SubSeq(L[k + 1], 1, p) \in Text /\ Len(SubSeq(L[k + 1], 1, p)) = p
      /\ Begins(SubSeq(L[k + 1], 1, p), L[k + 1])
      /\ p = Len(L[k + 1]) => SubSeq(L[k + 1], 1, p) = L[k + 1]
  BY <1>2, BeginsPart DEF Text
<1>6. PICK t, u : t = FlattenSeq(SubSeq(L, 1, k)) \o SubSeq(L[k + 1], 1, p) /\ u = FlattenSeq(SubSeq(L, 1, k + 1))
  OBVIOUS
<1>7. t \in Text /\ u \in Text /\ Begins(t, u)
  BY <1>3, <1>4, <1>5, <1>6, BeginsMore, ZenonT(60)
<1>8. FlattenSeq(L) = u \o FlattenSeq(SubSeq(L, (k + 1) + 1, Len(L)))
  <2>1. 1 \in 1 .. Len(L) + 1 /\ k + 1 \in 1 - 1 .. Len(L) /\ Len(L) \in k + 1 .. Len(L)
    BY <1>1
  <2>2. SubSeq(L, 1, k + 1) \o SubSeq(L, (k + 1) + 1, Len(L)) = SubSeq(L, 1, Len(L))
    BY <1>1, <2>1, ConcatAdjacentSubSeq
  <2>3. SubSeq(L, 1, Len(L)) = L
    BY <1>1, SubSeqFull
  <2>4. SubSeq(L, 1, k + 1) \in Seq(Seq(Piece))
    BY <1>2
  <2>5. SubSeq(L, (k + 1) + 1, Len(L)) \in Seq(Seq(Piece))
    <3>1. \A i \in (k + 1) + 1 .. Len(L) : L[i] \in Seq(Piece)
      BY <1>1
    <3>2. (k + 1) + 1 \in Int /\ Len(L) \in Int
      BY <1>1
    <3> QED
      BY <3>1, <3>2, SubSeqProperties
  <2>6. FlattenSeq(SubSeq(L, 1, k + 1) \o SubSeq(L, (k + 1) + 1, Len(L)))
          = FlattenSeq(SubSeq(L, 1, k + 1)) \o FlattenSeq(SubSeq(L, (k + 1) + 1, Len(L)))
    BY <2>4, <2>5, FlattenConcat
  <2> QED
    BY <1>6, <2>2, <2>3, <2>6
<1>9. PICK r : r = FlattenSeq(SubSeq(L, (k + 1) + 1, Len(L)))
  OBVIOUS
<1>10. r \in Text
  <2>1. SubSeq(L, (k + 1) + 1, Len(L)) \in Seq(Seq(Piece))
    <3>1. \A i \in (k + 1) + 1 .. Len(L) : L[i] \in Seq(Piece)
      BY <1>1
    <3>2. (k + 1) + 1 \in Int /\ Len(L) \in Int
      BY <1>1
    <3> QED
      BY <3>1, <3>2, SubSeqProperties
  <2> QED
    BY <1>9, <2>1, FlattenType DEF Text
<1>11. \A s \in Text : Begins(s, s)
  BY DEF Begins, Text
<1>12. FlattenSeq(L) \in Text /\ Begins(u, FlattenSeq(L))
  BY <1>7, <1>8, <1>9, <1>10, <1>11, BeginsMore
<1>13. FlattenSeq(L) \o bd \in Text /\ Begins(FlattenSeq(L), FlattenSeq(L) \o bd)
  BY <1>11, <1>12, BeginsMore
<1>14. Begins(u, FlattenSeq(L) \o bd)
  BY <1>7, <1>12, <1>13, BeginsTrans
<1>15. Begins(t, FlattenSeq(L) \o bd)
  BY <1>7, <1>13, <1>14, BeginsTrans
<1> QED
  BY <1>4, <1>5, <1>6, <1>7, <1>12, <1>13, <1>15

(* The text of a message that is put together. *)
LEMMA TextOfIs ==
    ASSUME NEW m, Shape(m), NEW n \in BodyLengths, m.body = Body(n)
    PROVE  /\ TextOf(m) = Whole(OfMessage(m), Body(n)) /\ TextOf(m) \in Text
           /\ LinesOf(m) \in Seq(Text) /\ Len(LinesOf(m)) \in Nat
           /\ ~BadIn(TextOf(m), n) /\ LengthIn(TextOf(m), n) = n
<1> DEFINE X == OfMessage(m)
           b == Whole(X, Body(n))
<1>1. /\ Lines(X) /\ Len(X) = 13
      /\ LinesOf(m) = MessageLines(Lined(X))
      /\ \A i \in 1 .. 13 : X[i] # <<>> => ~Fails(X[i])
      /\ \A f \in Field : Say(X, 1, 13, f, m.hdrs[f])
  BY MessageHas
<1>2. TextOf(m) = b
  BY <1>1 DEF TextOf, Whole
<1>3. /\ b \in Text /\ Say(X, 1, Len(X), CL, Given(b, n))
      /\ BadIn(b, n) <=> \E i \in 1 .. Len(X) : Names(X[i], CL) /\ X[i][2] = BAD
  <2> HIDE DEF X
  <2> QED
    BY <1>1, WholeLeft
<1>4. LinesOf(m) \in Seq(Text)
  <2>1. Lined(X) \in Seq(Seq(Piece))
    BY <1>1, LinedIs
  <2>2. <<StartLine>> \in Seq(Seq(Piece)) /\ <<CRLF>> \in Seq(Seq(Piece))
    <3>1. StartLine \in Seq(Piece) /\ CRLF \in Seq(Piece)
      BY StartIs, CrlfIs DEF Text
    <3> QED
      BY <3>1
  <2> HIDE DEF X
  <2>3. <<StartLine>> \o Lined(X) \in Seq(Seq(Piece))
    BY <2>1, <2>2, ConcatProperties
  <2>4. (<<StartLine>> \o Lined(X)) \o <<CRLF>> \in Seq(Seq(Piece))
    BY <2>2, <2>3, ConcatProperties
  <2> QED
    BY <1>1, <2>4 DEF MessageLines, Text
<1>5. Len(LinesOf(m)) \in Nat
  BY <1>4
<1> HIDE DEF X, b
<1>6. ~BadIn(b, n)
  <2> SUFFICES ASSUME NEW i \in 1 .. Len(X), Names(X[i], CL), X[i][2] = BAD PROVE FALSE
    BY <1>3
  <2>1. Plain(X[i])
    BY <1>1 DEF Lines, Names
  <2> QED
    BY <1>1, <2>1, BadFails DEF Names
<1>7. LengthIn(b, n) = n
  <2>1. CL \in Field
    BY FieldAssumption DEF CL
  <2>2. Given(b, n) = m.hdrs[CL]
    <3>1. Say(X, 1, 13, CL, Given(b, n)) /\ Say(X, 1, 13, CL, m.hdrs[CL])
      BY <1>1, <1>3, <2>1
    <3> QED
      BY <3>1, SayOne
  <2>3. PICK k \in BodyLengths : m.body = Body(k) /\ (m.hdrs[CL] = Digits(k) \/ (m.hdrs[CL] = NONE /\ k = 0))
    BY DEF Shape
  <2>4. Len(Body(k)) = k /\ Len(Body(n)) = n
    BY BodyIs
  <2>5. k = n
    BY <2>3, <2>4
  <2> QED
    BY <2>2, <2>3, <2>5, NumberOf DEF LengthIn, Length
<1> QED
  BY <1>2, <1>3, <1>4, <1>5, <1>6, <1>7 DEF X, b

-----------------------------------------------------------------------------
(* The lines of the text, and whether the last length in some lines is negative. *)
TheLines == IF lines = <<>> THEN OfMessage(msg) ELSE OfClient(lines)
SaysNegative(Y, n) == \E v : Say(Y, 1, n, CL, v) /\ v # NONE /\ Number(v) < 0

(* Before the text is there. *)
Begun ==
    /\ phase \in {"set", "build"} => lines = <<>>
    /\ phase \in {"set", "build", "text"} => got = Empty
    /\ phase = "set" => text = <<>>
    /\ phase = "build" =>
          /\ size >= 1
          /\ \E k \in 0 .. Len(LinesOf(msg)) :
                /\ line = SubSeq(LinesOf(msg), k + 1, Len(LinesOf(msg)))
                /\ text = FlattenSeq(SubSeq(LinesOf(msg), 1, k))

(* A text that was built. *)
Cut ==
    Built => /\ text \in Text /\ Begins(text, TextOf(msg))
             /\ size > 1 => text = TextOf(msg)
             /\ text # TextOf(msg) => phase \in {"text", "incomplete"}

(* How far the parser is, in a text with a body of n bytes. *)
Read(n) ==
    /\ IF lines = <<>> THEN msg.body = Body(n) ELSE text = Whole(TheLines, Body(n))
    /\ phase = "lines" =>
          /\ FrameSize(text) > 0
          /\ got.body = <<>>
          /\ \E k \in 0 .. Len(TheLines) :
                rest = Rest(TheLines, k, Body(n)) /\ ReadSoFar(TheLines, k, got)
    /\ phase = "parsed" =>
          /\ ReadSoFar(TheLines, Len(TheLines), got)
          /\ LengthOf(got) \in Nat /\ Len(got.body) = LengthOf(got)
          /\ LengthIn(text, n) = LengthOf(got) => got.body = Body(LengthOf(got))

(* Nothing is refused but for one of its lines, or for a negative length, which the
   framing or the parser has read. *)
Refused ==
    phase = "refused" =>
        \/ \E i \in 1 .. Len(TheLines) : TheLines[i] # <<>> /\ Fails(TheLines[i])
        \/ SaysNegative(TheLines, Len(TheLines))
        \/ SaysNegative(Heard(TheLines), Len(TheLines))

(* The invariant: where builder and parser are in the text, and what they have
   written and read so far. *)
MessageInv ==
    /\ phase \in {"set", "build", "text", "lines", "parsed", "incomplete", "refused"}
    /\ Shape(msg)
    /\ lines \in Seq(ClientLine)
    /\ size \in Nat
    /\ Begun
    /\ Cut
    /\ \E n \in BodyLengths : Read(n)
    /\ Refused

-----------------------------------------------------------------------------
(* No message that is put together has a negative length. *)
LEMMA NeverNegative ==
    ASSUME NEW m, Shape(m)
    PROVE  ~SaysNegative(OfMessage(m), 13) /\ ~SaysNegative(Heard(OfMessage(m)), 13)
<1>1. PICK X : X = OfMessage(m)
  OBVIOUS
<1>2. PICK H, w : H = Heard(X) /\ w = m.hdrs[CL]
  OBVIOUS
<1>3. CL \in Field
  BY FieldAssumption DEF CL
<1>4. /\ Lines(X) /\ Len(X) = 13
      /\ Say(X, 1, 13, CL, w) /\ Say(H, 1, 13, CL, w)
  BY <1>1, <1>2, <1>3, MessageHas
<1>6. w = NONE \/ ~(Number(w) < 0)
  <2>1. PICK n \in BodyLengths : w = Digits(n) \/ w = NONE
    BY <1>2 DEF Shape
  <2>2. Number(Digits(n)) = n /\ n \in Nat
    BY NumberOf, BoundsAssumption DEF Length
  <2> QED
    BY <2>1, <2>2
<1>7. ASSUME NEW v, Say(X, 1, 13, CL, v) PROVE v = w
  BY <1>4, <1>7, SayOne
<1>8. ASSUME NEW v, Say(H, 1, 13, CL, v) PROVE v = w
  BY <1>4, <1>8, SayOne
<1> QED
  BY <1>1, <1>2, <1>6, <1>7, <1>8 DEF SaysNegative

(* The lines are lines, of a message or of a client. *)
LEMMA LinesKnown ==
    ASSUME Shape(msg), lines \in Seq(ClientLine)
    PROVE  Lines(TheLines) /\ Len(TheLines) \in Nat
<1>1. CASE lines = <<>>
  BY <1>1, MessageHas DEF TheLines
<1>2. CASE lines # <<>>
  BY <1>2, ClientHas DEF TheLines
<1> QED
  BY <1>1, <1>2

(* The text, unless it was cut, is that of the lines. *)
LEMMA WholeKnown ==
    ASSUME Shape(msg), NEW n \in BodyLengths, Read(n), lines = <<>> => text = TextOf(msg)
    PROVE  text = Whole(TheLines, Body(n))
<1>1. CASE lines = <<>>
  BY <1>1, TextOfIs DEF Read, TheLines
<1>2. CASE lines # <<>>
  BY <1>2 DEF Read
<1> QED
  BY <1>1, <1>2

LEMMA EmptyShape == Shape(Empty) /\ Empty.body = Body(0) /\ 0 \in BodyLengths
<1>1. Message(Empty)
  BY DEF Message, Empty
<1>2. \A f \in Field : Empty.hdrs[f] = NONE
  BY DEF Empty
<1>3. NONE \in Seq(ValuePiece)
  BY EmptySeq DEF NONE
<1>4. Empty.body = Body(0)
  <2>1. Body(0) = <<>>
    BY DEF Body
  <2> QED
    BY <2>1 DEF Empty
<1>5. CL \in Field /\ 0 \in BodyLengths
  BY FieldAssumption, BoundsAssumption DEF CL
<1> QED
  BY <1>1, <1>2, <1>3, <1>4, <1>5 DEF Shape

LEMMA MessageInit == Init => MessageInv
<1> SUFFICES ASSUME Init PROVE MessageInv
  OBVIOUS
<1>1. msg = Empty /\ line = <<>> /\ size = 0 /\ rest = <<>> /\ got = Empty
  BY DEF Init
<1>2. Shape(msg) /\ msg.body = Body(0) /\ 0 \in BodyLengths
  BY <1>1, EmptyShape
<1>3. CASE phase = "set" /\ text = <<>> /\ lines = <<>>
  <2>1. lines \in Seq(ClientLine)
    BY <1>3, EmptySeq
  <2>2. Begun /\ Cut /\ Refused
    BY <1>1, <1>3 DEF Begun, Cut, Refused, Built
  <2>3. Read(0)
    BY <1>2, <1>3 DEF Read
  <2> QED
    BY <1>1, <1>2, <1>3, <2>1, <2>2, <2>3 DEF MessageInv
<1>4. CASE phase # "set"
  <2>1. /\ phase = "text"
        /\ lines \in BoundedSeq(ClientLine, MaxLines) \ {<<>>}
        /\ \E n \in BodyLengths :
                text = FlattenSeq(MessageLines([i \in DOMAIN lines |-> HeaderLine(lines[i][1], lines[i][2])]))
                       \o Body(n)
    BY <1>4 DEF Init, ClientLine, CL
  <2>2. lines \in Seq(ClientLine) /\ lines # <<>>
    <3>1. PICK k \in 0 .. MaxLines : lines \in [1 .. k -> ClientLine]
      BY <2>1 DEF BoundedSeq, SeqOf
    <3>2. k \in Nat
      BY <3>1, BoundsAssumption
    <3> QED
      BY <2>1, <3>1, <3>2
  <2>3. PICK n \in BodyLengths :
                text = FlattenSeq(MessageLines([i \in DOMAIN lines |-> HeaderLine(lines[i][1], lines[i][2])]))
                       \o Body(n)
    BY <2>1
  <2>4. text = Whole(TheLines, Body(n))
    <3>1. PICK ls : ls = lines
      OBVIOUS
    <3>2. [i \in DOMAIN ls |-> HeaderLine(ls[i][1], ls[i][2])] = Lined(OfClient(ls))
      BY <2>2, <3>1, ClientHas
    <3>3. text = FlattenSeq(MessageLines(Lined(OfClient(ls)))) \o Body(n)
      BY <2>3, <3>1, <3>2
    <3> QED
      BY <2>2, <3>1, <3>3 DEF TheLines, Whole
  <2>5. Begun /\ Cut /\ Refused
    BY <1>1, <2>1, <2>2 DEF Begun, Cut, Refused, Built
  <2>6. Read(n)
    BY <2>1, <2>2, <2>4 DEF Read
  <2> QED
    BY <1>1, <1>2, <2>1, <2>2, <2>5, <2>6 DEF MessageInv
<1> QED
  BY <1>3, <1>4 DEF Init

-----------------------------------------------------------------------------
(* The set functions keep a message one that can be put together. *)
LEMMA SetShape ==
    ASSUME Shape(msg), Set
    PROVE  Shape(msg')
<1>0. CL \in Field /\ CL \notin Unstored /\ "Transport" # CL /\ "Content-Type" # CL
  BY FieldAssumption DEF CL, Unstored
<1>1. PICK m : m = msg
  OBVIOUS
<1>2. /\ Message(m)
      /\ \A f \in Field : m.hdrs[f] \in Seq(ValuePiece) /\ (f \in Unstored => m.hdrs[f] = NONE)
  BY <1>1 DEF Shape
<1>3. PICK n \in BodyLengths : /\ m.body = Body(n)
                               /\ m.hdrs[CL] = Digits(n) \/ (m.hdrs[CL] = NONE /\ n = 0)
  BY <1>1 DEF Shape
<1>4. ASSUME NEW f \in Field, f \notin Unstored, f # CL, NEW v \in Seq(ValuePiece),
             NEW q, q = [m EXCEPT !.hdrs[f] = v]
      PROVE  Shape(q)
  <2>1. /\ Message(q) /\ q.body = m.body
        /\ \A g \in Field : q.hdrs[g] = IF g = f THEN v ELSE m.hdrs[g]
    BY <1>2, <1>4 DEF Message
  <2>2. \A g \in Field : q.hdrs[g] \in Seq(ValuePiece) /\ (g \in Unstored => q.hdrs[g] = NONE)
    BY <1>2, <1>4, <2>1
  <2>3. q.hdrs[CL] = m.hdrs[CL]
    BY <1>0, <1>4, <2>1
  <2> QED
    BY <1>3, <2>1, <2>2, <2>3 DEF Shape
<1>50. \A x \in ValuePiece : <<x>> \in Seq(ValuePiece)
  OBVIOUS
<1>51. {"a", "b", "tcp", "udp", ";port", ";interleaved"} \subseteq ValuePiece
  BY DEF ValuePiece
<1>5. CASE \E f \in Field \ (Unstored \cup {"Transport", "Content-Type", "Content-Length"}), v \in Value :
             msg' = [msg EXCEPT !.hdrs[f] = v]
  <2>1. PICK f \in Field \ (Unstored \cup {"Transport", "Content-Type", "Content-Length"}), v \in Value :
             msg' = [msg EXCEPT !.hdrs[f] = v]
    BY <1>5
  <2>2. v \in Seq(ValuePiece)
    BY <1>50, <1>51 DEF Value
  <2>3. PICK q : q = [m EXCEPT !.hdrs[f] = v]
    OBVIOUS
  <2>4. Shape(q)
    BY <1>4, <2>2, <2>3 DEF CL
  <2> QED
    BY <1>1, <2>1, <2>3, <2>4
<1>6. CASE "Transport" \in Field /\ \E type \in {"tcp", "udp"} :
             msg' = [msg EXCEPT !.hdrs["Transport"] = TransportSet(@, type)]
  <2>1. PICK type \in {"tcp", "udp"} : msg' = [msg EXCEPT !.hdrs["Transport"] = TransportSet(@, type)]
    BY <1>6
  <2>2. PICK v : v = TransportSet(m.hdrs["Transport"], type)
    OBVIOUS
  <2>3. v \in Seq(ValuePiece)
    <3>1. \A x \in {";port", ";interleaved"} : <<x>> \in Seq(ValuePiece)
      BY <1>50, <1>51
    <3>2. <<type>> \in Seq(ValuePiece)
      BY <1>50, <1>51
    <3>3. \E a, b, c \in Seq(ValuePiece) : v = (a \o b) \o c
      <4> DEFINE own == IF type = "tcp" THEN ";interleaved" ELSE ";port"
                 kept(x) == IF x = own \/ x \in Range(m.hdrs["Transport"]) THEN <<x>> ELSE <<>>
      <4>1. v = (<<type>> \o kept(";port")) \o kept(";interleaved")
        BY <2>2 DEF TransportSet
      <4>2. kept(";port") \in Seq(ValuePiece) /\ kept(";interleaved") \in Seq(ValuePiece)
        BY <3>1, EmptySeq
      <4> HIDE DEF kept
      <4> QED
        BY <3>2, <4>1, <4>2
    <3>4. PICK a \in Seq(ValuePiece), b \in Seq(ValuePiece), c \in Seq(ValuePiece) : v = (a \o b) \o c
      BY <3>3
    <3>5. a \o b \in Seq(ValuePiece)
      BY ConcatPlaces
    <3> QED
      BY <3>4, <3>5, ConcatPlaces
  <2>4. PICK q : q = [m EXCEPT !.hdrs["Transport"] = v]
    OBVIOUS
  <2>5. "Transport" \in Field /\ "Transport" \notin Unstored
    BY <1>6 DEF Unstored
  <2>6. Shape(q)
    BY <1>0, <1>4, <2>3, <2>4, <2>5
  <2> QED
    BY <1>1, <2>1, <2>2, <2>4, <2>6
<1>7. CASE \E k \in BodyLengths : msg' = WithBody(msg, k)
  <2>1. PICK k \in BodyLengths : msg' = WithBody(msg, k)
    BY <1>7
  <2>2. PICK q : q = WithBody(m, k)
    OBVIOUS
  <2>3. /\ Message(q) /\ q.body = Body(k)
        /\ \A f \in Field : q.hdrs[f] = CASE f = CL -> Digits(k) [] f = "Content-Type" -> <<"a">> [] OTHER -> m.hdrs[f]
    BY <2>2 DEF WithBody, Message, CL
  <2>4. Digits(k) \in Seq(ValuePiece) /\ <<"a">> \in Seq(ValuePiece)
    <3>1. Digits(k)[1] \in ValuePiece /\ "a" \in ValuePiece
      BY DEF ValuePiece
    <3>2. Digits(k) = <<Digits(k)[1]>>
      BY DEF Digits
    <3> HIDE DEF Digits
    <3>3. PICK c : c = Digits(k)[1]
      OBVIOUS
    <3>4. <<c>> \in Seq(ValuePiece) /\ <<"a">> \in Seq(ValuePiece)
      BY <3>1, <3>3
    <3> QED
      BY <3>2, <3>3, <3>4
  <2>5. ASSUME NEW f \in Field
        PROVE  q.hdrs[f] \in Seq(ValuePiece) /\ (f \in Unstored => q.hdrs[f] = NONE)
    <3>1. CASE f = CL
      BY <1>0, <2>3, <2>4, <3>1
    <3>2. CASE f = "Content-Type"
      BY <1>0, <2>3, <2>4, <3>2 DEF Unstored
    <3>3. CASE f # CL /\ f # "Content-Type"
      BY <1>2, <2>3, <3>3
    <3> QED
      BY <3>1, <3>2, <3>3
  <2>6. q.hdrs[CL] = Digits(k)
    BY <1>0, <2>3
  <2>7. Shape(q)
    BY <2>3, <2>5, <2>6 DEF Shape
  <2> QED
    BY <1>1, <2>1, <2>2, <2>7
<1> QED
  BY <1>5, <1>6, <1>7 DEF Set

LEMMA StepSet == MessageInv /\ Set => MessageInv'
<1> SUFFICES ASSUME MessageInv, Set PROVE MessageInv'
  OBVIOUS
<1>1. Shape(msg')
  BY SetShape DEF MessageInv
<1>2. phase = "set" /\ UNCHANGED <<phase, line, size, text, rest, got, lines>>
  BY DEF Set
<1>3. phase' = "set" /\ lines' = <<>> /\ text' = <<>> /\ got' = Empty /\ size' \in Nat /\ lines' \in Seq(ClientLine)
  BY <1>2 DEF MessageInv, Begun
<1>4. PICK n \in BodyLengths : msg'.body = Body(n)
  BY <1>1 DEF Shape
<1>5. Begun' /\ Cut' /\ Refused' /\ Read(n)'
  BY <1>3, <1>4 DEF Begun, Cut, Refused, Read, Built
<1> QED
  BY <1>1, <1>3, <1>5 DEF MessageInv

LEMMA StepBuild == MessageInv /\ Build => MessageInv'
<1> SUFFICES ASSUME MessageInv, Build PROVE MessageInv'
  OBVIOUS
<1>1. /\ phase = "set" /\ phase' = "build" /\ line' = LinesOf(msg) /\ size' \in 1 .. MaxSize
      /\ UNCHANGED <<msg, text, rest, got, lines>>
  BY DEF Build
<1>2. lines' = <<>> /\ text' = <<>> /\ got' = Empty /\ Shape(msg') /\ lines' \in Seq(ClientLine)
  BY <1>1 DEF MessageInv, Begun
<1>3. size' \in Nat /\ size' >= 1
  BY <1>1, BoundsAssumption
<1>4. PICK n \in BodyLengths : msg'.body = Body(n)
  BY <1>2 DEF Shape
<1>5. PICK L : L = LinesOf(msg')
  OBVIOUS
<1>6. L \in Seq(Text) /\ Len(L) \in Nat
  BY <1>2, <1>4, <1>5, TextOfIs
<1>7. line' = SubSeq(L, 0 + 1, Len(L)) /\ text' = FlattenSeq(SubSeq(L, 1, 0)) /\ 0 \in 0 .. Len(L)
  <2>1. SubSeq(L, 1, Len(L)) = L
    BY <1>6, SubSeqFull
  <2>2. SubSeq(L, 1, 0) = <<>>
    BY SubSeqEmpty
  <2>3. 0 + 1 = 1 /\ 0 \in 0 .. Len(L) /\ line' = L
    BY <1>1, <1>5, <1>6
  <2> QED
    BY <1>2, <2>1, <2>2, <2>3, FlattenEmpty
<1>8. Begun'
  BY <1>1, <1>2, <1>3, <1>5, <1>7 DEF Begun
<1>9. Cut' /\ Refused' /\ Read(n)'
  BY <1>1, <1>2, <1>4 DEF Cut, Refused, Read, Built
<1> QED
  BY <1>1, <1>2, <1>3, <1>8, <1>9 DEF MessageInv

LEMMA StepBuildLine == MessageInv /\ BuildLine => MessageInv'
<1> SUFFICES ASSUME MessageInv, BuildLine PROVE MessageInv'
  OBVIOUS
<1>1. /\ phase = "build" /\ line # <<>>
      /\ text' = text \o Written(Head(line))
      /\ size' = size - Len(Written(Head(line)))
      /\ phase' = IF size' > 1 THEN "build" ELSE "text"
      /\ line' = Tail(line)
      /\ UNCHANGED <<msg, rest, got, lines>>
  BY DEF BuildLine, GoesOn
<1>2. /\ lines' = <<>> /\ lines = <<>> /\ got' = Empty /\ Shape(msg) /\ msg' = msg
      /\ size \in Nat /\ size >= 1 /\ lines' \in Seq(ClientLine)
  BY <1>1 DEF MessageInv, Begun
<1>3. PICK n \in BodyLengths : msg.body = Body(n)
  BY <1>2 DEF Shape
<1>4. PICK L : L = LinesOf(msg)
  OBVIOUS
<1>5. /\ L \in Seq(Text) /\ Len(L) \in Nat /\ TextOf(msg) = FlattenSeq(L) \o Body(n)
      /\ Body(n) \in Text
  <2>1. L \in Seq(Text) /\ Len(L) \in Nat
    BY <1>2, <1>3, <1>4, TextOfIs
  <2> QED
    BY <1>3, <1>4, <2>1, BodyIs DEF TextOf
<1>6. PICK k \in 0 .. Len(L) :
                /\ line = SubSeq(L, k + 1, Len(L))
                /\ text = FlattenSeq(SubSeq(L, 1, k))
  BY <1>1, <1>4 DEF MessageInv, Begun
<1>7. k \in Nat /\ k < Len(L)
  <2>1. ~(k < Len(L)) => SubSeq(L, k + 1, Len(L)) = <<>>
    <3> SUFFICES ASSUME ~(k < Len(L)) PROVE SubSeq(L, k + 1, Len(L)) = <<>>
      OBVIOUS
    <3>1. k + 1 \in Int /\ Len(L) \in Int /\ Len(L) < k + 1
      BY <1>5, <1>6
    <3> QED
      BY <3>1, SubSeqEmpty
  <2> QED
    BY <1>1, <1>5, <1>6, <2>1
<1>8. Head(line) = L[k + 1] /\ Tail(line) = SubSeq(L, (k + 1) + 1, Len(L)) /\ L[k + 1] \in Text
  <2>1. L[k + 1] \in Text /\ k + 1 \in 1 .. Len(L) /\ Len(L) \in k + 1 .. Len(L)
    BY <1>5, <1>7
  <2>2. SubSeq(L, k + 1, Len(L)) = <<L[k + 1]>> \o SubSeq(L, (k + 1) + 1, Len(L))
    BY <1>5, <2>1, SubSeqRecursiveFirst
  <2>3. SubSeq(L, (k + 1) + 1, Len(L)) \in Seq(Text)
    <3>1. \A i \in (k + 1) + 1 .. Len(L) : L[i] \in Text
      BY <1>5, <1>7
    <3>2. (k + 1) + 1 \in Int /\ Len(L) \in Int
      BY <1>5, <1>7
    <3> QED
      BY <3>1, <3>2, SubSeqProperties
  <2>4. PICK f, v : f = L[k + 1] /\ v = SubSeq(L, (k + 1) + 1, Len(L))
    OBVIOUS
  <2>5. PICK x : x = <<f>> \o v
    OBVIOUS
  <2>6. Head(x) = f /\ Tail(x) = v
    BY <2>1, <2>3, <2>4, <2>5, NameThen
  <2> QED
    BY <1>6, <2>1, <2>2, <2>4, <2>5, <2>6
<1>9. PICK p : p = Fits(Len(L[k + 1]), size - 1)
  OBVIOUS
<1>10. /\ p \in 0 .. Len(L[k + 1]) /\ p <= size - 1
       /\ p < size - 1 => p = Len(L[k + 1])
  <2>1. Len(L[k + 1]) \in Nat
    BY <1>8 DEF Text
  <2> QED
    BY <1>2, <1>9, <2>1 DEF Fits
<1>11. Written(Head(line)) = SubSeq(L[k + 1], 1, p)
  BY <1>8, <1>9 DEF Written
<1>12. /\ Len(SubSeq(L[k + 1], 1, p)) = p
       /\ text' = FlattenSeq(SubSeq(L, 1, k)) \o SubSeq(L[k + 1], 1, p)
       /\ text' \in Text /\ Begins(text', FlattenSeq(L) \o Body(n))
       /\ p = Len(L[k + 1]) => text' = FlattenSeq(SubSeq(L, 1, k + 1))
  <2>1. text' = FlattenSeq(SubSeq(L, 1, k)) \o SubSeq(L[k + 1], 1, p)
    BY <1>1, <1>6, <1>11
  <2>2. PICK t : t = FlattenSeq(SubSeq(L, 1, k)) \o SubSeq(L[k + 1], 1, p)
    OBVIOUS
  <2>3. /\ Len(SubSeq(L[k + 1], 1, p)) = p
        /\ t \in Text /\ Begins(t, FlattenSeq(L) \o Body(n))
        /\ p = Len(L[k + 1]) => t = FlattenSeq(SubSeq(L, 1, k + 1))
    <3>1. PICK bd : bd = Body(n)
      OBVIOUS
    <3>2. bd \in Text
      BY <1>5, <3>1
    <3>3. LET u == FlattenSeq(SubSeq(L, 1, k)) \o SubSeq(L[k + 1], 1, p)
          IN  /\ L[k + 1] \in Text /\ Len(SubSeq(L[k + 1], 1, p)) = p
              /\ u \in Text /\ FlattenSeq(L) \in Text /\ FlattenSeq(L) \o bd \in Text
              /\ Begins(u, FlattenSeq(L) \o bd)
              /\ p = Len(L[k + 1]) => u = FlattenSeq(SubSeq(L, 1, k + 1))
      BY <1>5, <1>7, <1>10, <3>2, Grows
    <3> QED
      BY <2>2, <3>1, <3>3
  <2> QED
    BY <2>1, <2>2, <2>3
<1>13. size' = size - p /\ size' \in Nat /\ size' >= 1
  <2>1. size' = size - p
    BY <1>1, <1>11, <1>12
  <2>2. p \in Nat
    BY <1>8, <1>10 DEF Text
  <2> QED
    BY <1>2, <1>10, <2>1, <2>2
<1>14. CASE size' > 1
  <2>1. p = Len(L[k + 1])
    <3>1. p \in Nat
      BY <1>8, <1>10 DEF Text
    <3> QED
      BY <1>2, <1>10, <1>13, <1>14, <3>1
  <2>2. phase' = "build" /\ line' = SubSeq(L, (k + 1) + 1, Len(L)) /\ text' = FlattenSeq(SubSeq(L, 1, k + 1))
    BY <1>1, <1>8, <1>12, <1>14, <2>1
  <2>3. k + 1 \in 0 .. Len(L) /\ L = LinesOf(msg')
    BY <1>2, <1>4, <1>5, <1>7
  <2>4. Begun'
    BY <1>2, <1>13, <2>2, <2>3 DEF Begun
  <2>5. Cut' /\ Refused' /\ Read(n)'
    BY <1>2, <1>3, <2>2 DEF Cut, Refused, Read, Built
  <2> QED
    BY <1>2, <1>13, <2>2, <2>4, <2>5 DEF MessageInv
<1>15. CASE ~(size' > 1)
  <2>1. phase' = "text"
    BY <1>1, <1>15
  <2>2. Begun' /\ Refused' /\ Read(n)'
    BY <1>2, <1>3, <2>1 DEF Begun, Refused, Read
  <2>3. Cut'
    BY <1>2, <1>5, <1>12, <1>15, <2>1 DEF Cut
  <2> QED
    BY <1>2, <1>13, <2>1, <2>2, <2>3 DEF MessageInv
<1> QED
  BY <1>14, <1>15

LEMMA StepBuildBody == MessageInv /\ BuildBody => MessageInv'
<1> SUFFICES ASSUME MessageInv, BuildBody PROVE MessageInv'
  OBVIOUS
<1>1. /\ phase = "build" /\ line = <<>>
      /\ text' = text \o BodyWritten
      /\ size' = size - Len(BodyWritten)
      /\ phase' = "text"
      /\ UNCHANGED <<msg, line, rest, got, lines>>
  BY DEF BuildBody
<1>2. /\ lines' = <<>> /\ lines = <<>> /\ got' = Empty /\ Shape(msg) /\ msg' = msg
      /\ size \in Nat /\ lines' \in Seq(ClientLine)
  BY <1>1 DEF MessageInv, Begun
<1>3. PICK n \in BodyLengths : msg.body = Body(n)
  BY <1>2 DEF Shape
<1>4. PICK L : L = LinesOf(msg)
  OBVIOUS
<1>5. /\ L \in Seq(Text) /\ Len(L) \in Nat /\ TextOf(msg) = FlattenSeq(L) \o Body(n)
      /\ Body(n) \in Text /\ Len(Body(n)) = n /\ n \in Nat /\ TextOf(msg) \in Text
  <2>1. L \in Seq(Text) /\ Len(L) \in Nat /\ TextOf(msg) \in Text
    BY <1>2, <1>3, <1>4, TextOfIs
  <2> QED
    BY <1>3, <1>4, <2>1, BodyIs DEF TextOf
<1>6. PICK k \in 0 .. Len(L) :
                /\ line = SubSeq(L, k + 1, Len(L))
                /\ text = FlattenSeq(SubSeq(L, 1, k))
  BY <1>1, <1>4 DEF MessageInv, Begun
<1>7. k = Len(L)
  <2> SUFFICES ASSUME k < Len(L) PROVE FALSE
    BY <1>5, <1>6
  <2>1. k + 1 \in 1 .. Len(L) /\ Len(L) \in k + 1 .. Len(L)
    BY <1>5, <1>6
  <2>2. SubSeq(L, k + 1, Len(L)) = <<L[k + 1]>> \o SubSeq(L, (k + 1) + 1, Len(L))
    BY <1>5, <2>1, SubSeqRecursiveFirst
  <2>3. SubSeq(L, (k + 1) + 1, Len(L)) \in Seq(Text) /\ L[k + 1] \in Text
    <3>1. \A i \in (k + 1) + 1 .. Len(L) : L[i] \in Text
      BY <1>5, <1>6
    <3>2. (k + 1) + 1 \in Int /\ Len(L) \in Int
      BY <1>5, <1>6
    <3>3. L[k + 1] \in Text
      BY <1>5, <2>1
    <3> QED
      BY <3>1, <3>2, <3>3, SubSeqProperties
  <2>4. PICK f, v : f = L[k + 1] /\ v = SubSeq(L, (k + 1) + 1, Len(L))
    OBVIOUS
  <2>5. PICK x : x = <<f>> \o v
    OBVIOUS
  <2>6. x # <<>>
    BY <2>3, <2>4, <2>5, NameThen
  <2> QED
    BY <1>1, <1>6, <2>2, <2>4, <2>5, <2>6
<1>8. text = FlattenSeq(L) /\ text \in Text
  <2>1. SubSeq(L, 1, Len(L)) = L
    BY <1>5, SubSeqFull
  <2>2. FlattenSeq(L) \in Text
    BY <1>5, FlattenType DEF Text
  <2> QED
    BY <1>6, <1>7, <2>1, <2>2
<1>9. PICK p : p = Fits(n, size)
  OBVIOUS
<1>10. /\ p \in 0 .. Len(Body(n)) /\ p <= size /\ (p < size => p = n)
  BY <1>2, <1>5, <1>9 DEF Fits
<1>11. BodyWritten = SubSeq(Body(n), 1, p)
  BY <1>3, <1>5, <1>9 DEF BodyWritten
<1>12. /\ SubSeq(Body(n), 1, p) \in Text /\ Begins(SubSeq(Body(n), 1, p), Body(n))
       /\ Len(SubSeq(Body(n), 1, p)) = p
       /\ p = n => SubSeq(Body(n), 1, p) = Body(n)
  BY <1>5, <1>10, BeginsPart
<1>13. size' = size - p /\ size' \in Nat /\ (size' > 1 => p = n)
  <2>1. size' = size - p
    BY <1>1, <1>11, <1>12
  <2>2. p \in Nat
    BY <1>10, <1>5
  <2> QED
    BY <1>2, <1>10, <2>1, <2>2
<1>14. text' \in Text /\ Begins(text', TextOf(msg)) /\ (size' > 1 => text' = TextOf(msg))
  <2>1. PICK t, w : t = text /\ w = SubSeq(Body(n), 1, p)
    OBVIOUS
  <2>2. t \o w \in Text /\ Begins(t \o w, t \o Body(n))
    BY <1>5, <1>8, <1>12, <2>1, BeginsMore
  <2>3. text' = t \o w /\ TextOf(msg) = t \o Body(n)
    BY <1>1, <1>5, <1>8, <1>11, <2>1
  <2> QED
    BY <1>12, <1>13, <2>1, <2>2, <2>3
<1>15. Begun' /\ Refused' /\ Read(n)'
  BY <1>1, <1>2, <1>3 DEF Begun, Refused, Read
<1>16. Cut'
  BY <1>1, <1>2, <1>14 DEF Cut
<1> QED
  BY <1>1, <1>2, <1>13, <1>15, <1>16 DEF MessageInv

LEMMA StepParseStart == MessageInv /\ ParseStart => MessageInv'
<1> SUFFICES ASSUME MessageInv, ParseStart PROVE MessageInv'
  OBVIOUS
<1>1. /\ phase = "text"
      /\ IF FrameSize(text) <= 0
         THEN phase' = (IF FrameSize(text) = 0 THEN "incomplete" ELSE "refused") /\ UNCHANGED rest
         ELSE phase' = "lines" /\ rest' = AfterLine(text)
      /\ UNCHANGED <<msg, line, size, text, got, lines>>
  BY DEF ParseStart
<1>2. Shape(msg) /\ lines \in Seq(ClientLine) /\ size \in Nat /\ got = Empty
  BY <1>1 DEF MessageInv, Begun
<1>3. PICK n \in BodyLengths : Read(n)
  BY DEF MessageInv
<1>4. PICK X : X = TheLines
  OBVIOUS
<1>5. Lines(X) /\ Len(X) \in Nat
  BY <1>2, <1>4, LinesKnown
<1>6. TheLines' = X
  BY <1>1, <1>4 DEF TheLines
<1>7. Built' /\ phase' = "incomplete" => Cut'
  BY <1>1 DEF MessageInv, Cut, Built
<1>8. CASE lines = <<>> /\ text # TextOf(msg)
  <2>1. FrameSize(text) = 0
    <3>1. msg.body = Body(n)
      BY <1>3, <1>8 DEF Read
    <3>2. PICK b : b = TextOf(msg)
      OBVIOUS
    <3>3. b \in Text /\ ~BadIn(b, n) /\ LengthIn(b, n) = n /\ b = Whole(X, Body(n))
      BY <1>2, <1>4, <1>8, <3>1, <3>2, TextOfIs DEF TheLines
    <3>4. Left(b, n) /\ Len(b) > n + 2
      BY <1>5, <3>3, WholeLeft
    <3>5. text \in Text /\ Begins(text, b) /\ text # b
      BY <1>1, <1>8, <3>2 DEF MessageInv, Cut, Built
    <3>6. Len(text) < Len(b)
      <4>1. PICK t : t = text
        OBVIOUS
      <4>2. /\ Len(t) \in Nat /\ Len(b) \in Nat /\ Len(t) <= Len(b) /\ (t = b <=> Len(t) = Len(b))
        BY <3>3, <3>5, <4>1, BeginsSame
      <4> QED
        BY <3>5, <4>1, <4>2
    <3>7. PICK t : t = text
      OBVIOUS
    <3>8. FrameSize(t) = 0
      BY <3>3, <3>4, <3>5, <3>6, <3>7, PartFrame
    <3> QED
      BY <3>7, <3>8
  <2>2. phase' = "incomplete"
    BY <1>1, <2>1
  <2>3. Begun' /\ Refused'
    BY <2>2 DEF Begun, Refused
  <2>4. Cut'
    BY <1>1, <1>7, <2>2 DEF Cut
  <2>5. Read(n)'
    BY <1>1, <1>3, <1>8, <2>2 DEF Read
  <2> QED
    BY <1>1, <1>2, <2>2, <2>3, <2>4, <2>5 DEF MessageInv
<1>9. CASE lines # <<>> \/ text = TextOf(msg)
  <2>1. PICK b : b = text
    OBVIOUS
  <2>2. b = Whole(X, Body(n))
    BY <1>2, <1>3, <1>4, <1>9, <2>1, WholeKnown
  <2>3. /\ Left(b, n) /\ Len(b) > n + 2
        /\ Say(X, 1, Len(X), CL, Given(b, n))
        /\ BadIn(b, n) <=> \E i \in 1 .. Len(X) : Names(X[i], CL) /\ X[i][2] = BAD
        /\ AfterLine(b) = Rest(X, 0, Body(n))
    BY <1>5, <2>2, WholeLeft
  <2>4. /\ FrameSize(b) \in Int
        /\ FrameSize(b) < 0 => BadIn(b, n) \/ LengthIn(b, n) < 0
        /\ LengthIn(b, n) = n /\ ~BadIn(b, n) => FrameSize(b) > 0
    BY <2>3, WholeFrame
  <2>5. lines = <<>> => FrameSize(b) > 0
    <3> SUFFICES ASSUME lines = <<>> PROVE FrameSize(b) > 0
      OBVIOUS
    <3>1. msg.body = Body(n)
      BY <1>3 DEF Read
    <3>2. ~BadIn(b, n) /\ LengthIn(b, n) = n
      BY <1>2, <1>9, <2>1, <3>1, TextOfIs
    <3> QED
      BY <2>4, <3>2
  <2>6. CASE FrameSize(b) > 0
    <3>1. phase' = "lines" /\ rest' = Rest(X, 0, Body(n)) /\ text' = text /\ lines' = lines /\ msg' = msg /\ got' = Empty
      BY <1>1, <1>2, <2>1, <2>3, <2>4, <2>6
    <3>2. Begun' /\ Refused'
      BY <3>1 DEF Begun, Refused
    <3>3. Cut'
      BY <1>1, <1>9, <3>1 DEF MessageInv, Cut, Built
    <3>4. ReadSoFar(X, 0, Empty) /\ Empty.body = <<>> /\ 0 \in 0 .. Len(X)
      BY <1>5, ReadStart DEF Empty
    <3>5. Read(n)'
      <4>1. IF lines = <<>> THEN msg.body = Body(n) ELSE text = Whole(X, Body(n))
        BY <1>3, <1>4 DEF Read
      <4>2. FrameSize(text') > 0
        BY <2>1, <2>6, <3>1
      <4>3. got'.body = <<>> /\ rest' = Rest(X, 0, Body(n)) /\ ReadSoFar(X, 0, got')
        BY <3>1, <3>4
      <4> QED
        BY <1>6, <3>1, <3>4, <4>1, <4>2, <4>3 DEF Read
    <3> QED
      BY <1>1, <1>2, <3>1, <3>2, <3>3, <3>5 DEF MessageInv
  <2>7. CASE FrameSize(b) = 0
    <3>1. phase' = "incomplete" /\ lines # <<>>
      BY <1>1, <2>1, <2>5, <2>7
    <3>2. Begun' /\ Refused'
      BY <3>1 DEF Begun, Refused
    <3>3. Cut'
      BY <1>1, <3>1 DEF Cut, Built
    <3>4. Read(n)'
      BY <1>1, <1>3, <1>4, <1>6, <3>1 DEF Read
    <3> QED
      BY <1>1, <1>2, <3>1, <3>2, <3>3, <3>4 DEF MessageInv
  <2>8. CASE FrameSize(b) < 0
    <3>1. phase' = "refused" /\ lines # <<>>
      BY <1>1, <2>1, <2>4, <2>5, <2>8
    <3>2. ASSUME BadIn(b, n) PROVE Refused'
      <4>1. PICK i \in 1 .. Len(X) : Names(X[i], CL) /\ X[i][2] = BAD
        BY <2>3, <3>2
      <4>2. Plain(X[i])
        BY <1>5, <4>1 DEF Lines, Names
      <4>3. X[i] # <<>> /\ Fails(X[i])
        BY <4>1, <4>2, BadFails DEF Names
      <4> QED
        BY <1>6, <4>3 DEF Refused
    <3>3. ASSUME LengthIn(b, n) < 0 PROVE Refused'
      <4>1. Given(b, n) # NONE /\ Number(Given(b, n)) < 0
        BY <3>3 DEF LengthIn
      <4>2. SaysNegative(X, Len(X))
        BY <2>3, <4>1 DEF SaysNegative
      <4> QED
        BY <1>6, <4>2 DEF Refused
    <3>4. Begun'
      BY <3>1 DEF Begun
    <3>5. Refused'
      BY <2>4, <2>8, <3>2, <3>3
    <3>6. Cut'
      BY <1>1, <3>1 DEF Cut, Built
    <3>7. Read(n)'
      BY <1>1, <1>3, <1>4, <1>6, <3>1 DEF Read
    <3> QED
      BY <1>1, <1>2, <3>1, <3>4, <3>5, <3>6, <3>7 DEF MessageInv
  <2> QED
    BY <2>4, <2>6, <2>7, <2>8
<1> QED
  BY <1>8, <1>9

-----------------------------------------------------------------------------
(* Where the parser is, in both of its steps. *)
LEMMA AtLine ==
    ASSUME MessageInv, phase = "lines", NEW n \in BodyLengths, Read(n),
           NEW X, X = TheLines
    PROVE  /\ Lines(X) /\ Len(X) \in Nat
           /\ lines = <<>> => text = TextOf(msg)
           /\ text = Whole(X, Body(n))
           /\ FrameSize(text) > 0
           /\ got.body = <<>>
           /\ \E j \in 0 .. Len(X) :
                 /\ rest = Rest(X, j, Body(n)) /\ ReadSoFar(X, j, got)
                 /\ \/ j = Len(X) /\ NextLine(rest) = <<>> /\ AfterLine(rest) = Body(n)
                    \/ /\ j + 1 \in 1 .. Len(X) /\ X[j + 1] # <<>> /\ Plain(X[j + 1])
                       /\ NextLine(rest) = X[j + 1] /\ AfterLine(rest) = Rest(X, j + 1, Body(n))
<1>1. Shape(msg) /\ lines \in Seq(ClientLine)
  BY DEF MessageInv
<1>2. Lines(X) /\ Len(X) \in Nat
  BY <1>1, LinesKnown
<1>3. lines = <<>> => text = TextOf(msg)
  BY DEF MessageInv, Cut, Built
<1>4. text = Whole(X, Body(n))
  BY <1>1, <1>3, WholeKnown
<1>5. /\ FrameSize(text) > 0 /\ got.body = <<>>
      /\ \E k \in 0 .. Len(X) : rest = Rest(X, k, Body(n)) /\ ReadSoFar(X, k, got)
  BY DEF Read
<1>6. PICK k \in 0 .. Len(X) : rest = Rest(X, k, Body(n)) /\ ReadSoFar(X, k, got)
  BY <1>5
<1>7. PICK bd : bd = Body(n)
  OBVIOUS
<1>8. bd \in Text
  BY <1>7, BodyIs
<1>9. k \in Nat /\ k <= Len(X)
  BY <1>2, <1>6
<1>10. PICK j \in k .. Len(X) :
              /\ \A i \in k + 1 .. j : X[i] = <<>>
              /\ Rest(X, k, bd) = Rest(X, j, bd)
              /\ j = Len(X) \/ X[j + 1] # <<>>
  BY <1>2, <1>8, <1>9, Skip
<1>11. j \in Nat /\ k <= j /\ j \in 0 .. Len(X)
  BY <1>2, <1>9, <1>10
<1>12. ReadSoFar(X, j, got)
  <2>1. PICK g : g = got
    OBVIOUS
  <2>2. ReadSoFar(X, j, g)
    BY <1>6, <1>9, <1>10, <1>11, <2>1, ReadSkip
  <2> QED
    BY <2>1, <2>2
<1>13. rest = Rest(X, j, bd)
  BY <1>6, <1>7, <1>10
<1>14. CASE j = Len(X)
  <2>1. rest = CRLF \o bd
    BY <1>2, <1>8, <1>13, <1>14, RestEnd
  <2>2. NextLine(rest) = <<>> /\ AfterLine(rest) = bd
    BY <1>8, <2>1, LastRead
  <2> QED
    BY <1>2, <1>3, <1>4, <1>5, <1>7, <1>11, <1>12, <1>13, <1>14, <2>2
<1>15. CASE j # Len(X)
  <2>1. j < Len(X) /\ j + 1 \in 1 .. Len(X) /\ X[j + 1] # <<>>
    BY <1>2, <1>10, <1>11, <1>15
  <2>2. Plain(X[j + 1])
    BY <1>2, <2>1 DEF Lines
  <2>3. Rest(X, j + 1, bd) \in Text /\ Rest(X, j, bd) = (X[j + 1] \o CRLF) \o Rest(X, j + 1, bd)
    BY <1>2, <1>8, <1>11, <2>1, RestStep
  <2>4. NextLine(rest) = X[j + 1] /\ AfterLine(rest) = Rest(X, j + 1, bd)
    BY <1>13, <2>2, <2>3, LineRead
  <2> QED
    BY <1>2, <1>3, <1>4, <1>5, <1>7, <1>11, <1>12, <1>13, <2>1, <2>2, <2>4
<1> QED
  BY <1>14, <1>15

LEMMA StepParseLine == MessageInv /\ ParseLine => MessageInv'
<1> SUFFICES ASSUME MessageInv, ParseLine PROVE MessageInv'
  OBVIOUS
<1>1. /\ phase = "lines" /\ NextLine(rest) # <<>>
      /\ IF Fails(NextLine(rest))
         THEN phase' = "refused" /\ got' = Empty /\ UNCHANGED rest
         ELSE got' = Parsed(got, NextLine(rest)) /\ rest' = AfterLine(rest) /\ UNCHANGED phase
      /\ UNCHANGED <<msg, line, size, text, lines>>
  BY DEF ParseLine
<1>2. Shape(msg) /\ lines \in Seq(ClientLine) /\ size \in Nat
  BY DEF MessageInv
<1>3. PICK n \in BodyLengths : Read(n)
  BY DEF MessageInv
<1>4. PICK X : X = TheLines
  OBVIOUS
<1>5. /\ Lines(X) /\ Len(X) \in Nat
      /\ lines = <<>> => text = TextOf(msg)
      /\ FrameSize(text) > 0
      /\ got.body = <<>>
  BY <1>1, <1>3, <1>4, AtLine
<1>6. PICK j \in 0 .. Len(X) :
         /\ ReadSoFar(X, j, got)
         /\ j + 1 \in 1 .. Len(X) /\ X[j + 1] # <<>> /\ Plain(X[j + 1])
         /\ NextLine(rest) = X[j + 1] /\ AfterLine(rest) = Rest(X, j + 1, Body(n))
  BY <1>1, <1>3, <1>4, AtLine
<1>7. TheLines' = X
  BY <1>1, <1>4 DEF TheLines
<1>8. IF lines = <<>> THEN msg.body = Body(n) ELSE text = Whole(X, Body(n))
  BY <1>3, <1>4 DEF Read
<1>9. CASE Fails(NextLine(rest))
  <2>1. phase' = "refused"
    BY <1>1, <1>9
  <2>2. Refused'
    BY <1>6, <1>7, <1>9 DEF Refused
  <2>3. Begun' /\ Read(n)'
    BY <1>1, <1>7, <1>8, <2>1 DEF Begun, Read
  <2>4. Cut'
    BY <1>1, <1>5, <2>1 DEF MessageInv, Cut, Built
  <2> QED
    BY <1>1, <1>2, <2>1, <2>2, <2>3, <2>4 DEF MessageInv
<1>10. CASE ~Fails(NextLine(rest))
  <2>1. phase' = "lines" /\ got' = Parsed(got, X[j + 1]) /\ rest' = Rest(X, j + 1, Body(n))
    BY <1>1, <1>6, <1>10
  <2>2. ReadSoFar(X, j + 1, got') /\ got'.body = <<>>
    <3>1. PICK g : g = got
      OBVIOUS
    <3>2. j \in Nat /\ ReadSoFar(X, j, g) /\ Plain(X[j + 1]) /\ ~Fails(X[j + 1])
      BY <1>6, <1>10, <3>1
    <3>3. ReadSoFar(X, j + 1, Parsed(g, X[j + 1])) /\ Parsed(g, X[j + 1]).body = g.body
      BY <3>2, ReadOne
    <3> QED
      BY <1>5, <2>1, <3>1, <3>3
  <2>3. Begun' /\ Refused'
    BY <2>1 DEF Begun, Refused
  <2>4. Cut'
    BY <1>1, <1>5, <2>1 DEF MessageInv, Cut, Built
  <2>5. Read(n)'
    <3>1. j + 1 \in 0 .. Len(X) /\ FrameSize(text') > 0
      BY <1>1, <1>5, <1>6
    <3> QED
      BY <1>1, <1>7, <1>8, <2>1, <2>2, <3>1 DEF Read
  <2> QED
    BY <1>1, <1>2, <2>1, <2>3, <2>4, <2>5 DEF MessageInv
<1> QED
  BY <1>9, <1>10

LEMMA StepParseBody == MessageInv /\ ParseBody => MessageInv'
<1> SUFFICES ASSUME MessageInv, ParseBody PROVE MessageInv'
  OBVIOUS
<1>1. /\ phase = "lines" /\ NextLine(rest) = <<>>
      /\ IF LengthOf(got) < 0
         THEN phase' = "refused" /\ got' = Empty
         ELSE phase' = "parsed" /\ got' = [got EXCEPT !.body = BodyRead(LengthOf(got))]
      /\ UNCHANGED <<msg, line, size, text, rest, lines>>
  BY DEF ParseBody
<1>2. Shape(msg) /\ lines \in Seq(ClientLine) /\ size \in Nat
  BY DEF MessageInv
<1>3. PICK n \in BodyLengths : Read(n)
  BY DEF MessageInv
<1>4. PICK X : X = TheLines
  OBVIOUS
<1>5. /\ Lines(X) /\ Len(X) \in Nat
      /\ lines = <<>> => text = TextOf(msg)
      /\ text = Whole(X, Body(n))
      /\ FrameSize(text) > 0
      /\ got.body = <<>>
  BY <1>1, <1>3, <1>4, AtLine
<1>6. ReadSoFar(X, Len(X), got) /\ AfterLine(rest) = Body(n)
  BY <1>1, <1>3, <1>4, AtLine
<1>7. TheLines' = X
  BY <1>1, <1>4 DEF TheLines
<1>8. IF lines = <<>> THEN msg.body = Body(n) ELSE text = Whole(X, Body(n))
  BY <1>3, <1>4 DEF Read
<1>9. CL \in Field /\ CL \notin Unstored
  BY FieldAssumption DEF CL, Unstored
<1>10. PICK b : b = text
  OBVIOUS
<1>11. /\ Left(b, n) /\ Len(b) > n + 2 /\ Say(X, 1, Len(X), CL, Given(b, n))
  BY <1>5, <1>10, WholeLeft
<1>12. LengthIn(b, n) <= n
  BY <1>5, <1>10, <1>11, WholeFrame
<1>13. Say(Heard(X), 1, Len(X), CL, got.hdrs[CL])
  BY <1>6, <1>9 DEF ReadSoFar
<1>14. PICK c : c = LengthOf(got)
  OBVIOUS
<1>15. c \in Int
  BY <1>5, <1>13, <1>14, SaidLength, NumberOf DEF LengthOf, CL
<1>16. CASE c < 0
  <2>1. phase' = "refused" /\ got' = Empty
    BY <1>1, <1>14, <1>16
  <2>2. got.hdrs[CL] # NONE /\ Number(got.hdrs[CL]) < 0
    BY <1>14, <1>16 DEF LengthOf, CL
  <2>3. SaysNegative(Heard(X), Len(X))
    BY <1>13, <2>2 DEF SaysNegative
  <2>4. Begun' /\ Refused' /\ Read(n)'
    BY <1>1, <1>7, <1>8, <2>1, <2>3 DEF Begun, Refused, Read
  <2>5. Cut'
    BY <1>1, <1>5, <2>1 DEF MessageInv, Cut, Built
  <2> QED
    BY <1>1, <1>2, <2>1, <2>4, <2>5 DEF MessageInv
<1>17. CASE ~(c < 0)
  <2>1. phase' = "parsed" /\ got' = [got EXCEPT !.body = BodyRead(c)] /\ c \in Nat
    BY <1>1, <1>14, <1>15, <1>17
  <2>2. BodyRead(c) = [i \in 1 .. c |-> IF i <= n THEN Body(n)[i] ELSE "stale"]
    <3>1. BodyFrom(rest) = Body(n) /\ Len(Body(n)) = n
      BY <1>6, BodyIs DEF BodyFrom
    <3> QED
      BY <3>1 DEF BodyRead
  <2>3. Len(BodyRead(c)) = c
    BY <2>1, <2>2
  <2>4. c <= n => BodyRead(c) = Body(c)
    <3>1. \A i \in 1 .. n : Body(n)[i] = "body"
      BY DEF Body
    <3>2. n \in Nat
      BY BodyIs
    <3> QED
      BY <2>1, <2>2, <3>1, <3>2 DEF Body
  <2>5. Message(got') /\ got'.hdrs = got.hdrs /\ got'.body = BodyRead(c)
    BY <1>6, <2>1 DEF ReadSoFar, Message
  <2>6. ReadSoFar(X, Len(X), got') /\ LengthOf(got') = c
    <3>1. ReadSoFar(X, Len(X), got')
      BY <1>6, <2>5 DEF ReadSoFar
    <3> QED
      BY <1>14, <2>5, <3>1 DEF LengthOf
  <2>7. text' = text /\ LengthIn(text, n) <= n
    BY <1>1, <1>10, <1>12
  <2>8. Begun' /\ Refused'
    BY <2>1 DEF Begun, Refused
  <2>9. Cut'
    BY <1>1, <1>5, <2>1 DEF MessageInv, Cut, Built
  <2>10. Read(n)'
    BY <1>1, <1>7, <1>8, <2>1, <2>3, <2>4, <2>5, <2>6, <2>7 DEF Read
  <2> QED
    BY <1>1, <1>2, <2>1, <2>8, <2>9, <2>10 DEF MessageInv
<1> QED
  BY <1>16, <1>17

LEMMA MessageNext == MessageInv /\ [Next]_vars => MessageInv'
<1> SUFFICES ASSUME MessageInv, [Next]_vars PROVE MessageInv'
  OBVIOUS
<1>1. CASE UNCHANGED vars
  <2>1. /\ phase' = phase /\ msg' = msg /\ line' = line /\ size' = size
        /\ text' = text /\ rest' = rest /\ got' = got /\ lines' = lines
    BY <1>1 DEF vars
  <2>2. TheLines' = TheLines /\ Built' = Built
    BY <2>1 DEF TheLines, Built
  <2>3. Begun' = Begun /\ Cut' = Cut /\ Refused' = Refused /\ \A n : Read(n)' = Read(n)
    BY <2>1, <2>2 DEF Begun, Cut, Refused, Read
  <2> QED
    BY <2>1, <2>3 DEF MessageInv
<1> QED
  BY <1>1, StepSet, StepBuild, StepBuildLine, StepBuildBody, StepParseStart, StepParseLine,
     StepParseBody DEF Next

-----------------------------------------------------------------------------
(* MessageInv holds whenever the builder has written a line or the parser read one
   (rtsp_msg_build_to_array, rtsp_msg_parse_from_array). *)
THEOREM MessageInvariant == Spec => []MessageInv
<1>1. Init => MessageInv
  BY MessageInit
<1>2. MessageInv /\ [Next]_vars => MessageInv'
  BY MessageNext
<1> QED
  BY <1>1, <1>2, PTL DEF Spec

(* A message that did not fit is never mistaken for a complete one, and one that
   fit is complete, for every buffer and every message
   (rtsp_msg_build_to_array, rtsp_msg_frame_size). *)
THEOREM CutMessageIncomplete == Spec => []CutIsIncomplete
<1>1. MessageInv => CutIsIncomplete
  <2> SUFFICES ASSUME MessageInv, Built PROVE
        /\ IsPrefix(text, TextOf(msg)) /\ size >= 0
        /\ size > 1 => text = TextOf(msg)
        /\ text # TextOf(msg) => phase \in {"text", "incomplete"}
    BY DEF CutIsIncomplete
  <2>1. text \in Text /\ Begins(text, TextOf(msg))
    BY DEF MessageInv, Cut
  <2>2. PICK n \in BodyLengths : msg.body = Body(n)
    BY DEF MessageInv, Shape
  <2>3. TextOf(msg) \in Text
    BY <2>2, TextOfIs DEF MessageInv
  <2>4. PICK s, t : s = text /\ t = TextOf(msg)
    OBVIOUS
  <2>5. IsPrefix(s, t)
    BY <2>1, <2>3, <2>4, BeginsSame
  <2> QED
    BY <2>4, <2>5 DEF MessageInv, Cut
<1> QED
  BY <1>1, MessageInvariant, PTL

(* Every message that fit is read back as it was put together, whatever was set
   and however often (rtsp_msg_parse_from_array). *)
THEOREM WrittenReadsBack == Spec => []ReadsBack
<1>1. MessageInv => ReadsBack
  <2> SUFFICES ASSUME MessageInv, Built, phase \in {"parsed", "refused"}
               PROVE  phase = "parsed" /\ got = msg
    BY DEF ReadsBack
  <2>1. lines = <<>> /\ Shape(msg) /\ TheLines = OfMessage(msg)
    BY DEF Built, MessageInv, TheLines
  <2>2. PICK m, g : m = msg /\ g = got
    OBVIOUS
  <2>3. PICK X, H : X = OfMessage(m) /\ H = Heard(X)
    OBVIOUS
  <2>4. /\ Lines(X) /\ Len(X) = 13
        /\ \A i \in 1 .. 13 : X[i] # <<>> => ~Fails(X[i])
        /\ \A f \in Field : Say(H, 1, 13, f, m.hdrs[f])
    BY <2>1, <2>2, <2>3, MessageHas
  <2>5. phase = "parsed"
    <3>1. ~SaysNegative(X, 13) /\ ~SaysNegative(H, 13)
      BY <2>1, <2>2, <2>3, NeverNegative
    <3> QED
      BY <2>1, <2>2, <2>3, <2>4, <3>1 DEF MessageInv, Refused
  <2>12. PICK n \in BodyLengths : Read(n)
    BY DEF MessageInv
  <2>6. /\ ReadSoFar(X, 13, g)
        /\ msg.body = Body(n)
        /\ LengthIn(text, n) = LengthOf(g) => g.body = Body(LengthOf(g))
    BY <2>1, <2>2, <2>3, <2>4, <2>5, <2>12 DEF Read
  <2>7. /\ Message(m) /\ Message(g)
        /\ \A f \in Field : f \in Unstored => m.hdrs[f] = NONE
    BY <2>1, <2>2, <2>6 DEF Shape, ReadSoFar
  <2>8. ASSUME NEW f \in Field PROVE g.hdrs[f] = m.hdrs[f]
    <3>1. CASE f \in Unstored
      BY <2>6, <2>7, <3>1 DEF ReadSoFar
    <3>2. CASE f \notin Unstored
      <4>1. PICK v, w : v = g.hdrs[f] /\ w = m.hdrs[f]
        OBVIOUS
      <4>2. Say(H, 1, 13, f, v) /\ Say(H, 1, 13, f, w)
        BY <2>3, <2>4, <2>6, <3>2, <4>1 DEF ReadSoFar
      <4>3. v = w
        BY <4>2, SayOne
      <4> QED
        BY <4>1, <4>3
    <3> QED
      BY <3>1, <3>2
  <2>9. g.hdrs = m.hdrs
    BY <2>7, <2>8 DEF Message
  <2>10. g.body = m.body
    <3>1. PICK k \in BodyLengths : /\ m.body = Body(k)
                                   /\ m.hdrs[CL] = Digits(k) \/ (m.hdrs[CL] = NONE /\ k = 0)
      BY <2>1, <2>2 DEF Shape
    <3>2. k = n
      <4>1. Len(Body(k)) = k /\ Len(Body(n)) = n
        BY BodyIs
      <4> QED
        BY <2>2, <2>6, <3>1, <4>1
    <3>3. LengthOf(g) = k
      BY <2>9, <3>1, NumberOf DEF LengthOf, Length, CL
    <3>4. LengthIn(text, n) = n
      <4>1. text = TextOf(msg)
        BY <2>5 DEF MessageInv, Cut
      <4> QED
        BY <2>1, <2>6, <4>1, TextOfIs
    <3> QED
      BY <2>6, <3>1, <3>2, <3>3, <3>4
  <2>11. g = m
    BY <2>7, <2>9, <2>10 DEF Message
  <2> QED
    BY <2>2, <2>5, <2>11
<1> QED
  BY <1>1, MessageInvariant, PTL

(* A client's message is refused for a line that cannot be read or a negative
   length and for nothing else, and otherwise read as its last lines say, with a
   body as long as the parser's length, for any number of lines in any order and
   any lengths, however written (rtsp_msg_frame_size, rtsp_msg_parse_from_array). *)
THEOREM ClientServedAsWritten == Spec => []ServedAsWritten
<1>1. MessageInv => ServedAsWritten
  <2> DEFINE bad == \E i \in DOMAIN lines : lines[i][1] \in MayFail /\ lines[i][2] = <<BAD>>
  <2> SUFFICES ASSUME MessageInv, lines # <<>> PROVE
        /\ phase = "refused" => bad \/ LengthRead < 0 \/ LengthFramed < 0
        /\ phase = "parsed" =>
              /\ ~bad /\ LengthRead >= 0
              /\ Len(got.body) = LengthRead
              /\ LengthFramed = LengthRead => got.body = Body(LengthRead)
              /\ \A f \in Field \ Unstored :
                    got.hdrs[f] = IF LastOf(f) = 0 THEN NONE ELSE lines[LastOf(f)][2]
    BY DEF ServedAsWritten
  <2>1. lines \in Seq(ClientLine) /\ TheLines = OfClient(lines) /\ Shape(msg)
    BY DEF MessageInv, TheLines
  <2>2. PICK ls, X, H : ls = lines /\ X = OfClient(ls) /\ H = Heard(X)
    OBVIOUS
  <2>3. /\ Lines(X) /\ Len(X) = Len(ls) /\ Len(ls) \in Nat
        /\ \A i \in 1 .. Len(ls) : X[i] # <<>> /\ (Fails(X[i]) <=> ls[i][1] \in MayFail /\ ls[i][2] = <<BAD>>)
    BY <2>1, <2>2, ClientHas
  <2>4. DOMAIN lines = 1 .. Len(ls)
    BY <2>1, <2>2
  <2>5. bad <=> \E i \in 1 .. Len(X) : Fails(X[i])
    BY <2>2, <2>3, <2>4
  <2> HIDE DEF bad
  <2>7. ASSUME NEW f, NEW v, Say(H, 1, Len(X), f, v)
        PROVE  v = (IF LastOf(f) = 0 THEN NONE ELSE lines[LastOf(f)][2])
    <3>1. PICK k, w : k = LastOf(f) /\ w = IF k = 0 THEN NONE ELSE ls[k][2]
      OBVIOUS
    <3>2. KnownLast(ls, f, k)
      BY <2>1, <2>2, <3>1, ClientSays DEF LastOf
    <3>3. Say(H, 1, Len(X), f, w)
      BY <2>2, <2>3, <3>1, <3>2 DEF KnownLast
    <3>4. v = w
      BY <2>3, <2>7, <3>3, SayOne
    <3> QED
      BY <2>2, <3>1, <3>4
  <2>8. ASSUME NEW v, Say(H, 1, Len(X), CL, v)
        PROVE  LengthRead = IF v = NONE THEN 0 ELSE Number(v)
    <3>1. PICK k : k = LastOf(CL)
      OBVIOUS
    <3>2. KnownLast(ls, CL, k)
      BY <2>1, <2>2, <3>1, ClientSays DEF LastOf
    <3>3. k = 0 \/ ls[k][2] # NONE
      BY <3>2 DEF KnownLast
    <3>4. v = (IF k = 0 THEN NONE ELSE ls[k][2])
      BY <2>2, <2>7, <2>8, <3>1
    <3> QED
      BY <2>2, <3>1, <3>3, <3>4 DEF LengthRead, CL
  <2>9. ASSUME NEW v, Say(X, 1, Len(X), CL, v)
        PROVE  LengthFramed = IF v = NONE THEN 0 ELSE Number(v)
    <3>1. PICK h, w : h = LastLength /\ w = IF h = 0 THEN NONE ELSE ls[h][2]
      OBVIOUS
    <3>2. AnyLast(ls, CL, h)
      BY <2>1, <2>2, <3>1, ClientSays DEF LastLength, CL
    <3>3. Say(X, 1, Len(X), CL, w) /\ (h = 0 \/ ls[h][2] # NONE)
      BY <2>2, <2>3, <3>1, <3>2 DEF AnyLast
    <3>4. v = w
      BY <2>3, <2>9, <3>3, SayOne
    <3> QED
      BY <2>2, <3>1, <3>3, <3>4 DEF LengthFramed
  <2>10. ASSUME phase = "refused" PROVE bad \/ LengthRead < 0 \/ LengthFramed < 0
    <3>1. \/ \E i \in 1 .. Len(X) : X[i] # <<>> /\ Fails(X[i])
          \/ SaysNegative(X, Len(X))
          \/ SaysNegative(H, Len(X))
      BY <2>1, <2>2, <2>10 DEF MessageInv, Refused
    <3>2. SaysNegative(X, Len(X)) => LengthFramed < 0
      BY <2>9 DEF SaysNegative
    <3>3. SaysNegative(H, Len(X)) => LengthRead < 0
      BY <2>8 DEF SaysNegative
    <3> QED
      BY <2>5, <3>1, <3>2, <3>3
  <2>11. ASSUME phase = "parsed"
         PROVE  /\ ~bad /\ LengthRead >= 0
                /\ Len(got.body) = LengthRead
                /\ LengthFramed = LengthRead => got.body = Body(LengthRead)
                /\ \A f \in Field \ Unstored :
                      got.hdrs[f] = IF LastOf(f) = 0 THEN NONE ELSE lines[LastOf(f)][2]
    <3>1. PICK n \in BodyLengths : Read(n)
      BY DEF MessageInv
    <3>2. /\ ReadSoFar(X, Len(X), got)
          /\ LengthOf(got) \in Nat /\ Len(got.body) = LengthOf(got)
          /\ LengthIn(text, n) = LengthOf(got) => got.body = Body(LengthOf(got))
          /\ text = Whole(X, Body(n))
      BY <2>1, <2>2, <2>11, <3>1 DEF Read
    <3>3. ~bad
      BY <2>3, <2>5, <3>2 DEF ReadSoFar
    <3>4. \A f \in Field \ Unstored : Say(H, 1, Len(X), f, got.hdrs[f])
      BY <2>2, <3>2 DEF ReadSoFar
    <3>5. LengthOf(got) = LengthRead
      <4>1. CL \in Field \ Unstored
        BY FieldAssumption DEF CL, Unstored
      <4>2. Say(H, 1, Len(X), CL, got.hdrs[CL])
        BY <3>4, <4>1
      <4> QED
        BY <2>8, <4>2 DEF LengthOf, CL
    <3>6. LengthIn(text, n) = LengthFramed
      <4>1. PICK b : b = text
        OBVIOUS
      <4>2. Say(X, 1, Len(X), CL, Given(b, n))
        BY <2>3, <3>2, <4>1, WholeLeft
      <4> QED
        BY <2>9, <4>1, <4>2 DEF LengthIn
    <3>7. \A f \in Field \ Unstored :
             got.hdrs[f] = IF LastOf(f) = 0 THEN NONE ELSE lines[LastOf(f)][2]
      BY <2>7, <3>4
    <3>8. LengthRead >= 0
      BY <3>2, <3>5
    <3> QED
      BY <3>2, <3>3, <3>5, <3>6, <3>7, <3>8
  <2> QED
    BY <2>10, <2>11
<1> QED
  BY <1>1, MessageInvariant, PTL
=============================================================================
