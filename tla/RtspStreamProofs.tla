-------------------------- MODULE RtspStreamProofs --------------------------
(***************************************************************************)
(* Proofs about RtspStream and its ring, for any clients, any number of    *)
(* packets a frame may have, and any number of frames and requests.        *)
(***************************************************************************)
EXTENDS RtspStream, FiniteSetTheorems, WellFoundedInduction, TLAPS

-----------------------------------------------------------------------------
(* Taking the head of a queue. *)
LEMMA TakeHead ==
    ASSUME NEW S, NEW s \in Seq(S), s # <<>>
    PROVE  /\ Head(s) \in S
           /\ Tail(s) \in Seq(S)
           /\ ToSet(s) = ToSet(Tail(s)) \cup {Head(s)}
           /\ IsInjective(s) => IsInjective(Tail(s)) /\ Head(s) \notin ToSet(Tail(s))
<1>1. /\ Tail(s) \in Seq(S) /\ Len(Tail(s)) = Len(s) - 1 /\ Len(s) \in Nat \ {0}
      /\ \A i \in 1 .. Len(s) - 1 : Tail(s)[i] = s[i + 1]
      /\ Head(s) = s[1]
      /\ Head(s) \in S
  OBVIOUS
<1>2. DOMAIN s = 1 .. Len(s) /\ DOMAIN Tail(s) = 1 .. Len(s) - 1
  BY <1>1
<1>3. ToSet(s) \subseteq ToSet(Tail(s)) \cup {Head(s)}
  <2> SUFFICES ASSUME NEW i \in 1 .. Len(s), i # 1 PROVE s[i] \in ToSet(Tail(s))
    BY <1>1, <1>2 DEF ToSet
  <2>1. i - 1 \in 1 .. Len(s) - 1 /\ Tail(s)[i - 1] = s[i]
    BY <1>1
  <2> QED
    BY <2>1, <1>2 DEF ToSet
<1>4. ToSet(Tail(s)) \cup {Head(s)} \subseteq ToSet(s)
  <2>1. Head(s) \in ToSet(s)
    BY <1>1, <1>2 DEF ToSet
  <2>2. ASSUME NEW i \in 1 .. Len(s) - 1 PROVE Tail(s)[i] \in ToSet(s)
    <3>1. i + 1 \in 1 .. Len(s)
      BY <1>1
    <3> QED
      BY <1>1, <1>2, <3>1 DEF ToSet
  <2> QED
    BY <1>2, <2>1, <2>2 DEF ToSet
<1>5. IsInjective(s) => IsInjective(Tail(s)) /\ Head(s) \notin ToSet(Tail(s))
  BY <1>1, <1>2 DEF IsInjective, ToSet
<1> QED
  BY <1>1, <1>3, <1>4, <1>5

(* Adding at the end of a queue. *)
LEMMA AddLast ==
    ASSUME NEW S, NEW s \in Seq(S), NEW e \in S
    PROVE  /\ Append(s, e) \in Seq(S)
           /\ ToSet(Append(s, e)) = ToSet(s) \cup {e}
           /\ IsInjective(s) /\ e \notin ToSet(s) => IsInjective(Append(s, e))
<1>1. /\ Append(s, e) \in Seq(S) /\ Len(Append(s, e)) = Len(s) + 1 /\ Len(s) \in Nat
      /\ \A i \in 1 .. Len(s) : Append(s, e)[i] = s[i]
      /\ Append(s, e)[Len(s) + 1] = e
  OBVIOUS
<1>2. DOMAIN s = 1 .. Len(s) /\ DOMAIN Append(s, e) = 1 .. Len(s) + 1
  BY <1>1
<1>3. ToSet(Append(s, e)) = ToSet(s) \cup {e}
  BY <1>1, <1>2 DEF ToSet
<1>4. IsInjective(s) /\ e \notin ToSet(s) => IsInjective(Append(s, e))
  BY <1>1, <1>2 DEF IsInjective, ToSet
<1> QED
  BY <1>1, <1>3, <1>4

(* A set of natural numbers that is not empty has a least element: what is
   shown by induction elsewhere is shown here for the least counterexample. *)
LEMMA LeastElement ==
    ASSUME NEW T \in SUBSET Nat, T # {}
    PROVE  \E x \in T : \A y \in T : x <= y
<1>1. PICK x \in T : \A y \in T : ~ (<<y, x>> \in OpToRel(<, Nat))
  BY NatLessThanWellFounded, WFMin
<1>2. ASSUME NEW y \in T PROVE x <= y
  <2>1. <<y, x>> \notin OpToRel(<, Nat) /\ <<y, x>> \in Nat \X Nat
    BY <1>1
  <2>2. ~(y < x) /\ x \in Nat /\ y \in Nat
    BY <2>1 DEF OpToRel
  <2> QED
    BY <2>2
<1> QED
  BY <1>2

(* It is what Min chooses. *)
LEMMA LeastIsMin ==
    ASSUME NEW T \in SUBSET Nat, T # {}
    PROVE  Min(T) \in T /\ \A y \in T : Min(T) <= y
  BY LeastElement DEF Min

(* A list without the entry at place k. *)
LEMMA WithoutPlace ==
    ASSUME NEW S, NEW s \in Seq(S), NEW k \in 1 .. Len(s)
    PROVE  LET r == SubSeq(s, 1, k - 1) \o SubSeq(s, k + 1, Len(s))
           IN  /\ r \in Seq(S)
               /\ Len(r) = Len(s) - 1
               /\ DOMAIN r = 1 .. Len(s) - 1
               /\ \A j \in 1 .. k - 1 : r[j] = s[j]
               /\ \A j \in k .. Len(s) - 1 : r[j] = s[j + 1]
<1> DEFINE a == SubSeq(s, 1, k - 1)
           b == SubSeq(s, k + 1, Len(s))
<1>1. Len(s) \in Nat /\ \A j \in 1 .. Len(s) : s[j] \in S
  OBVIOUS
<1>2. a \in Seq(S) /\ Len(a) = k - 1 /\ \A j \in 1 .. k - 1 : a[j] = s[j]
  BY <1>1
<1>3. b \in Seq(S) /\ Len(b) = Len(s) - k /\ \A j \in 1 .. Len(s) - k : b[j] = s[j + k]
  BY <1>1
<1> HIDE DEF a, b
<1>4. /\ a \o b \in Seq(S) /\ Len(a \o b) = Len(s) - 1
      /\ \A j \in 1 .. k - 1 : (a \o b)[j] = a[j]
      /\ \A j \in k .. Len(s) - 1 : (a \o b)[j] = b[j - (k - 1)]
  BY <1>1, <1>2, <1>3
<1>5. \A j \in k .. Len(s) - 1 : b[j - (k - 1)] = s[j + 1]
  BY <1>1, <1>3
<1>6. DOMAIN (a \o b) = 1 .. Len(s) - 1
  BY <1>4
<1> QED
  BY <1>2, <1>4, <1>5, <1>6 DEF a, b

(* Taking the entry e out of a list leaves the others, and, if there was one
   entry e only, leaves no e. *)
LEMMA RemoveEntry ==
    ASSUME NEW S, NEW s \in Seq(S), NEW e
    PROVE  /\ RemoveFirst(s, e) \in Seq(S)
           /\ Range(s) \ {e} \subseteq Range(RemoveFirst(s, e))
           /\ Range(RemoveFirst(s, e)) \subseteq Range(s)
           /\ IsInjective(s) =>
                  /\ IsInjective(RemoveFirst(s, e))
                  /\ Range(RemoveFirst(s, e)) = Range(s) \ {e}
<1>1. Len(s) \in Nat /\ DOMAIN s = 1 .. Len(s)
  OBVIOUS
<1>2. CASE \E i \in 1 .. Len(s) : s[i] = e
  <2> DEFINE I == {i \in 1 .. Len(s) : s[i] = e}
             k == Min(I)
             r == SubSeq(s, 1, k - 1) \o SubSeq(s, k + 1, Len(s))
  <2>1. I \in SUBSET Nat /\ I # {}
    BY <1>2
  <2>2. k \in 1 .. Len(s) /\ s[k] = e
    <3> HIDE DEF I
    <3>1. Min(I) \in I
      BY <2>1, LeastIsMin
    <3> QED
      BY <3>1 DEF I
  <2>3. RemoveFirst(s, e) = r
    BY <1>2, <2>1 DEF RemoveFirst, RemoveAt, SelectInSeq
  <2> HIDE DEF k
  <2>4. /\ r \in Seq(S) /\ Len(r) = Len(s) - 1 /\ DOMAIN r = 1 .. Len(s) - 1
        /\ \A j \in 1 .. k - 1 : r[j] = s[j]
        /\ \A j \in k .. Len(s) - 1 : r[j] = s[j + 1]
    BY <2>2, WithoutPlace
  <2> HIDE DEF r
  <2>5. Range(s) \ {e} \subseteq Range(r)
    <3> SUFFICES ASSUME NEW j \in 1 .. Len(s), s[j] # e PROVE s[j] \in Range(r)
      BY <1>1 DEF Range
    <3>1. CASE j < k
      <4>1. j \in 1 .. k - 1 /\ j \in DOMAIN r
        BY <1>1, <2>2, <2>4, <3>1
      <4> QED
        BY <2>4, <4>1 DEF Range
    <3>2. CASE j > k
      <4>1. j - 1 \in k .. Len(s) - 1 /\ j - 1 \in DOMAIN r /\ (j - 1) + 1 = j
        BY <1>1, <2>2, <2>4, <3>2
      <4> QED
        BY <2>4, <4>1 DEF Range
    <3> QED
      BY <1>1, <2>2, <3>1, <3>2
  <2>6. \A j \in DOMAIN r : \E i \in DOMAIN s : i # k /\ r[j] = s[i]
    <3> SUFFICES ASSUME NEW j \in 1 .. Len(s) - 1 PROVE \E i \in 1 .. Len(s) : i # k /\ r[j] = s[i]
      BY <1>1, <2>4
    <3>1. CASE j < k
      BY <1>1, <2>2, <2>4, <3>1
    <3>2. CASE j >= k
      <4>1. r[j] = s[j + 1] /\ j + 1 \in 1 .. Len(s) /\ j + 1 # k
        BY <1>1, <2>2, <2>4, <3>2
      <4> QED
        BY <4>1
    <3> QED
      BY <2>2, <3>1, <3>2
  <2>7. Range(r) \subseteq Range(s)
    BY <2>6 DEF Range
  <2>8. ASSUME IsInjective(s) PROVE IsInjective(r) /\ e \notin Range(r)
    <3>1. e \notin Range(r)
      BY <1>1, <2>2, <2>6, <2>8 DEF IsInjective, Range
    <3>2. ASSUME NEW i \in 1 .. Len(s) - 1, NEW j \in 1 .. Len(s) - 1, r[i] = r[j] PROVE i = j
      <4> DEFINE place(m) == IF m < k THEN m ELSE m + 1
      <4>1. \A m \in 1 .. Len(s) - 1 : r[m] = s[place(m)] /\ place(m) \in 1 .. Len(s)
        BY <1>1, <2>2, <2>4
      <4>2. place(i) = place(j)
        BY <1>1, <2>8, <3>2, <4>1 DEF IsInjective
      <4> QED
        BY <1>1, <2>2, <4>2
    <3> QED
      BY <2>4, <3>1, <3>2 DEF IsInjective
  <2> QED
    BY <2>3, <2>4, <2>5, <2>7, <2>8
<1>3. CASE ~\E i \in 1 .. Len(s) : s[i] = e
  <2>1. RemoveFirst(s, e) = s
    BY <1>3 DEF RemoveFirst
  <2>2. e \notin Range(s)
    BY <1>1, <1>3 DEF Range
  <2> QED
    BY <2>1, <2>2
<1> QED
  BY <1>2, <1>3

-----------------------------------------------------------------------------
Connection == [state : {"closed", "INIT", "READY", "PLAYING"},
               bound : BOOLEAN, vrtp : Ring!Index \cup {NULL}]

Types ==
    /\ vstreamq \in Ring!Queue
    /\ buf \in [Ring!Index -> Nat]
    /\ seq \in Nat
    /\ cc \in [Client -> Connection]
    /\ conns \in Seq(Client)
    /\ phase \in {"idle", "send", "serve", "flush"}
    /\ todo \in Seq(Client)
    /\ vrtp \in {"null", "live", "freed"}
    /\ last \in [Client -> Nat]

(* Who is listed is open and listed once, and who is still to be visited is
   open. *)
Listed ==
    /\ \A c \in Client : cc[c].state # "closed" <=> c \in Range(conns)
    /\ IsInjective(conns)
    /\ \A c \in Range(todo) : cc[c].state # "closed"
    /\ IsInjective(todo)
    /\ \A c \in Client : cc[c].state \in {"READY", "PLAYING"} => cc[c].bound

(* A visit is to somebody; while the pointer read before its requests is good
   there is a transport, and who is flushed plays. *)
Visiting ==
    /\ phase \in {"serve", "flush"} => todo # <<>>
    /\ phase = "serve" /\ vrtp = "live" => cc[Head(todo)].vrtp # NULL
    /\ phase = "flush" => Playing(Head(todo))

-----------------------------------------------------------------------------
(* The ring, with the remainders written out: from here on its arithmetic is
   linear. Size is how many slots it has. *)
Size == 2 * VRTP_MAX_NBPKTS + 1
Ahead(i, a) == IF i + a < Size THEN i + a ELSE i + a - Size
Gap(j, i) == IF j <= i THEN i - j ELSE i - j + Size

LEMMA Remainders ==
    ASSUME NEW n \in Nat \ {0}, NEW a \in Int
    PROVE  /\ 0 <= a /\ a < n => a % n = a
           /\ n <= a /\ a < 2 * n => a % n = a - n
           /\ -n <= a /\ a < 0 => a % n = a + n
<1>1. 0 <= a /\ a < n => a % n = a
  OBVIOUS
<1>2. n <= a /\ a < 2 * n => a % n = a - n
  OBVIOUS
<1>3. -n <= a /\ a < 0 => a % n = a + n
  OBVIOUS
<1> QED
  BY <1>1, <1>2, <1>3

LEMMA RingArithmetic ==
    /\ Size \in Nat \ {0} /\ VRTP_MAX_NBPKTS \in Nat \ {0} /\ Size = 2 * VRTP_MAX_NBPKTS + 1
    /\ Ring!Index = 0 .. Size - 1
    /\ \A i \in 0 .. Size - 1, a \in 0 .. Size : (i + a) % Size = Ahead(i, a)
    /\ \A i \in 0 .. Size - 1 : Ring!NextIndex(i) = Ahead(i, 1)
    /\ \A i, j \in 0 .. Size - 1 : Ring!Distance(j, i) = Gap(j, i)
<1>1. Size \in Nat \ {0} /\ VRTP_MAX_NBPKTS \in Nat \ {0} /\ Size = 2 * VRTP_MAX_NBPKTS + 1
  BY NbpktsAssumption DEF Size
<1>2. Ring!Index = 0 .. Size - 1
  BY DEF Ring!Index, Size
<1>3. \A i \in 0 .. Size - 1, a \in 0 .. Size : (i + a) % Size = Ahead(i, a)
  <2> TAKE i \in 0 .. Size - 1, a \in 0 .. Size
  <2>1. i + a \in Int /\ 0 <= i + a /\ i + a < 2 * Size
    BY <1>1
  <2>2. ASSUME NEW x \in Int, 0 <= x, x < 2 * Size
        PROVE  (x < Size => x % Size = x) /\ (Size <= x => x % Size = x - Size)
    BY <1>1, <2>2, Remainders
  <2> QED
    BY <1>1, <2>1, <2>2 DEF Ahead
<1>4. \A i \in 0 .. Size - 1 : Ring!NextIndex(i) = Ahead(i, 1)
  <2> TAKE i \in 0 .. Size - 1
  <2>1. 1 \in 0 .. Size
    BY <1>1
  <2> QED
    BY <1>3, <2>1 DEF Ring!NextIndex, Size
<1>5. \A i, j \in 0 .. Size - 1 : Ring!Distance(j, i) = Gap(j, i)
  <2> TAKE i, j \in 0 .. Size - 1
  <2>1. i - j \in Int /\ -Size <= i - j /\ i - j < Size /\ Ring!Distance(j, i) = (i - j) % Size
    BY <1>1 DEF Ring!Distance, Size
  <2>2. /\ 0 <= i - j => (i - j) % Size = i - j
        /\ i - j < 0 => (i - j) % Size = i - j + Size
    BY <1>1, <2>1, Remainders
  <2> QED
    BY <1>1, <2>1, <2>2 DEF Gap
<1> QED
  BY <1>1, <1>2, <1>3, <1>4, <1>5

LEMMA GapIn ==
    \A x, y \in 0 .. Size - 1 : Gap(x, y) \in 0 .. Size - 1 /\ (Gap(x, y) = 0 <=> x = y)
<1>1. Size \in Nat \ {0}
  BY RingArithmetic
<1> QED
  BY <1>1 DEF Gap

(* Going round from x over y to z. *)
LEMMA Triangle ==
    \A x, y, z \in 0 .. Size - 1 :
       \/ Gap(x, z) = Gap(x, y) + Gap(y, z)
       \/ Gap(x, z) = Gap(x, y) + Gap(y, z) - Size
<1>1. Size \in Nat \ {0}
  BY RingArithmetic
<1> QED
  BY <1>1 DEF Gap

LEMMA GapAhead ==
    \A x \in 0 .. Size - 1, i \in 0 .. Size - 1 :
       /\ Ahead(x, i) \in 0 .. Size - 1
       /\ Gap(x, Ahead(x, i)) = i
<1>1. Size \in Nat \ {0}
  BY RingArithmetic
<1> QED
  BY <1>1 DEF Gap, Ahead

(* Of the slots from a to t, half of the ring is kept: those from h. *)
LEMMA Shortened ==
    ASSUME NEW a \in 0 .. Size - 1, NEW t \in 0 .. Size - 1,
           NEW h, h = IF Gap(a, t) <= VRTP_MAX_NBPKTS THEN a ELSE Ahead(t, VRTP_MAX_NBPKTS + 1)
    PROVE  /\ h \in 0 .. Size - 1
           /\ Gap(a, h) + Gap(h, t) = Gap(a, t)
           /\ Gap(h, t) <= VRTP_MAX_NBPKTS
           /\ Gap(a, t) > VRTP_MAX_NBPKTS => Gap(h, t) = VRTP_MAX_NBPKTS
<1>1. VRTP_MAX_NBPKTS \in Nat \ {0} /\ Size \in Nat \ {0} /\ Size = 2 * VRTP_MAX_NBPKTS + 1
  BY RingArithmetic
<1>2. Gap(a, t) \in Nat /\ Gap(a, a) = 0
  BY GapIn
<1>3. CASE Gap(a, t) <= VRTP_MAX_NBPKTS
  BY <1>1, <1>2, <1>3
<1>4. CASE Gap(a, t) > VRTP_MAX_NBPKTS
  BY <1>1, <1>4 DEF Gap, Ahead
<1> QED
  BY <1>1, <1>2, <1>3, <1>4

(* Of the slots from a to t those from h are kept: what that means for i. *)
LEMMA Kept ==
    ASSUME NEW a \in 0 .. Size - 1, NEW t \in 0 .. Size - 1, NEW h \in 0 .. Size - 1,
           Gap(a, h) + Gap(h, t) = Gap(a, t), Gap(h, t) <= VRTP_MAX_NBPKTS,
           NEW i \in 0 .. Size - 1
    PROVE  /\ Gap(h, i) <= Gap(h, t) => Gap(a, i) = Gap(a, h) + Gap(h, i) /\ Gap(a, i) <= Gap(a, t)
           /\ Gap(h, i) < Gap(h, t) => Gap(a, i) < Gap(a, t) /\ Gap(t, i) >= VRTP_MAX_NBPKTS
           /\ Gap(h, i) >= Gap(h, t) /\ Gap(a, i) <= Gap(a, t) /\ i # t => Gap(a, i) < Gap(a, h)
           /\ Gap(h, i) >= Gap(h, t) => Gap(t, i) = Gap(h, i) - Gap(h, t)
<1>1. VRTP_MAX_NBPKTS \in Nat \ {0} /\ Size \in Nat \ {0} /\ Size = 2 * VRTP_MAX_NBPKTS + 1
  BY RingArithmetic
<1> DEFINE ah == Gap(a, h)  hi == Gap(h, i)  ai == Gap(a, i)  at == Gap(a, t)
           ht == Gap(h, t)  ti == Gap(t, i)
<1>2. /\ ah \in 0 .. Size - 1 /\ hi \in 0 .. Size - 1 /\ ai \in 0 .. Size - 1
      /\ at \in 0 .. Size - 1 /\ ht \in 0 .. Size - 1 /\ ti \in 0 .. Size - 1
  BY GapIn
<1>3. /\ ai = ah + hi \/ ai = ah + hi - Size
      /\ hi = ht + ti \/ hi = ht + ti - Size
  BY Triangle
<1>4. ah + ht = at /\ ht <= VRTP_MAX_NBPKTS
  OBVIOUS
<1>5. ti = 0 <=> i = t
  BY GapIn
<1> HIDE DEF ah, hi, ai, at, ht, ti
<1>6. hi <= ht => ai = ah + hi /\ ai <= at
  BY <1>1, <1>2, <1>3, <1>4
<1>7. hi < ht => ai < at /\ ti >= VRTP_MAX_NBPKTS
  BY <1>1, <1>2, <1>3, <1>4
<1>8. hi >= ht /\ ai <= at /\ i # t => ai < ah
  BY <1>1, <1>2, <1>3, <1>4, <1>5
<1>9. hi >= ht => ti = hi - ht
  BY <1>1, <1>2, <1>3, <1>4
<1> QED
  BY <1>6, <1>7, <1>8, <1>9 DEF ah, hi, ai, at, ht, ti

(* A part no longer than half of the ring has room for k slots more. *)
LEMMA Extended ==
    ASSUME NEW h \in 0 .. Size - 1, NEW t \in 0 .. Size - 1, NEW k \in 0 .. VRTP_MAX_NBPKTS,
           Gap(h, t) <= VRTP_MAX_NBPKTS
    PROVE  Ahead(t, k) \in 0 .. Size - 1 /\ Gap(h, Ahead(t, k)) = Gap(h, t) + k
<1>1. VRTP_MAX_NBPKTS \in Nat \ {0} /\ Size \in Nat \ {0} /\ Size = 2 * VRTP_MAX_NBPKTS + 1
  BY RingArithmetic
<1> QED
  BY <1>1 DEF Gap, Ahead

(* A queue and its used slots. *)
LEMMA QueueFacts ==
    ASSUME NEW q \in Ring!Queue
    PROVE  /\ q.head \in 0 .. Size - 1 /\ q.tail \in 0 .. Size - 1
           /\ Ring!Used(q) = Gap(q.head, q.tail)
           /\ Ring!Free(q) = Size - 1 - Gap(q.head, q.tail)
           /\ \A h, t \in 0 .. Size - 1 : [q EXCEPT !.head = h] \in Ring!Queue
                                          /\ [q EXCEPT !.tail = t] \in Ring!Queue
           /\ \A i \in 0 .. Size - 1 : Ring!Inused(q, i) <=> Gap(q.head, i) < Gap(q.head, q.tail)
<1>1. q.head \in 0 .. Size - 1 /\ q.tail \in 0 .. Size - 1
  BY RingArithmetic DEF Ring!Queue
<1>2. Ring!Used(q) = Gap(q.head, q.tail)
  BY <1>1, RingArithmetic DEF Ring!Used
<1>3. Ring!Free(q) = Size - 1 - Gap(q.head, q.tail)
  BY <1>2 DEF Ring!Free, Size
<1>4. \A h, t \in 0 .. Size - 1 : [q EXCEPT !.head = h] \in Ring!Queue
                                  /\ [q EXCEPT !.tail = t] \in Ring!Queue
  BY RingArithmetic DEF Ring!Queue
<1>5. \A i \in 0 .. Size - 1 : Ring!Inused(q, i) <=> Gap(q.head, i) < Gap(q.head, q.tail)
  <2> TAKE i \in 0 .. Size - 1
  <2>1. Size \in Nat \ {0}
    BY RingArithmetic
  <2> QED
    BY <1>1, <2>1 DEF Ring!Inused, Gap
<1> QED
  BY <1>1, <1>2, <1>3, <1>4, <1>5

-----------------------------------------------------------------------------
(* One turn of the loop that pops: with i - 1 slots free it goes on to i
   (rtsp_demo.c:1789-1797). *)
LEMMA ReserveTurn ==
    ASSUME NEW q \in Ring!Queue, NEW i \in 1 .. VRTP_MAX_NBPKTS
    PROVE  LET r == Ring!Reserved(q, i - 1)
           IN  Ring!Reserved(q, i) = IF (q.tail + i - 1 + 1) % Size = r.head THEN Ring!Pop(r) ELSE r
<1> DEFINE h == q.head
           t == q.tail
           g == Gap(h, t)
           r == Ring!Reserved(q, i - 1)
<1>1. /\ VRTP_MAX_NBPKTS \in Nat \ {0} /\ Size \in Nat \ {0} /\ Size = 2 * VRTP_MAX_NBPKTS + 1
      /\ h \in 0 .. Size - 1 /\ t \in 0 .. Size - 1 /\ i \in Int /\ 1 <= i /\ i <= VRTP_MAX_NBPKTS
      /\ Ring!Free(q) = Size - 1 - g
  BY RingArithmetic, QueueFacts
<1>2. /\ (t + i - 1 + 1) % Size = Ahead(t, i)
      /\ (t + (i - 1) + 1) % Size = Ahead(t, i)
      /\ (t + i + 1) % Size = Ahead(t, i + 1)
  <2>1. i \in 0 .. Size /\ i + 1 \in 0 .. Size
    BY <1>1
  <2>2. t + i - 1 + 1 = t + i /\ t + (i - 1) + 1 = t + i /\ t + i + 1 = t + (i + 1)
    BY <1>1
  <2> QED
    BY <1>1, <2>1, <2>2, RingArithmetic
<1>3. /\ Ring!Reserved(q, i) = IF Size - 1 - g >= i THEN q ELSE [q EXCEPT !.head = Ahead(t, i + 1)]
      /\ r = IF Size - 1 - g >= i - 1 THEN q ELSE [q EXCEPT !.head = Ahead(t, i)]
  BY <1>1, <1>2 DEF Ring!Reserved, Size
<1>4. CASE Size - 1 - g >= i
  <2>1. Ahead(t, i) # h
    BY <1>1, <1>4 DEF Ahead, Gap
  <2>2. r = q /\ Ring!Reserved(q, i) = q
    <3>1. Size - 1 - g >= i - 1
      BY <1>1, <1>4 DEF Gap
    <3> QED
      BY <1>3, <1>4, <3>1
  <2> QED
    BY <1>2, <2>1, <2>2
<1>5. CASE Size - 1 - g = i - 1
  <2>1. Ahead(t, i) = h /\ h # t /\ Ahead(h, 1) = Ahead(t, i + 1)
    BY <1>1, <1>5 DEF Ahead, Gap
  <2>2. r = q /\ Ring!Reserved(q, i) = [q EXCEPT !.head = Ahead(t, i + 1)]
    BY <1>1, <1>3, <1>5
  <2>3. Ring!Pop(q) = [q EXCEPT !.head = Ahead(h, 1)]
    BY <1>1, <2>1, RingArithmetic DEF Ring!Pop, Ring!Queue
  <2> QED
    BY <1>2, <2>1, <2>2, <2>3
<1>6. CASE Size - 1 - g < i - 1
  <2> DEFINE k == Ahead(t, i)
  <2>1. k \in 0 .. Size - 1 /\ k # t /\ Ahead(k, 1) = Ahead(t, i + 1)
    BY <1>1 DEF Ahead
  <2>2. r = [q EXCEPT !.head = k] /\ Ring!Reserved(q, i) = [q EXCEPT !.head = Ahead(t, i + 1)]
    BY <1>1, <1>3, <1>6 DEF Gap
  <2>3. r.head = k /\ r.tail = t /\ [r EXCEPT !.head = Ahead(k, 1)] = [q EXCEPT !.head = Ahead(k, 1)]
    BY <2>2 DEF Ring!Queue
  <2>4. Ring!Pop(r) = [r EXCEPT !.head = Ahead(k, 1)]
    <3>1. Ring!NextIndex(k) = Ahead(k, 1)
      BY <2>1, RingArithmetic
    <3> QED
      BY <2>1, <2>2, <2>3, <3>1 DEF Ring!Pop, Ring!Queue
  <2> QED
    BY <1>2, <2>1, <2>2, <2>3, <2>4
<1> QED
  BY <1>1, <1>4, <1>5, <1>6 DEF Gap

(* The loop of rtsp_sever_tx_video that makes room pops exactly as much as
   that takes. *)
LEMMA ReserveIs ==
    ASSUME NEW q \in Ring!Queue
    PROVE  Ring!Reserve(q, VRTP_MAX_NBPKTS) = Ring!Reserved(q, VRTP_MAX_NBPKTS)
<1> DEFINE n == VRTP_MAX_NBPKTS
           Turn(f, i) == IF i = 0 THEN q
                         ELSE IF (q.tail + i - 1 + 1) % (2 * VRTP_MAX_NBPKTS + 1) = f[i - 1].head
                              THEN Ring!Pop(f[i - 1]) ELSE f[i - 1]
           turn == CHOOSE f : f = [i \in 0 .. n |-> Turn(f, i)]
           goal == [i \in 0 .. n |-> Ring!Reserved(q, i)]
<1>1. Ring!Reserve(q, n) = turn[n]
  BY DEF Ring!Reserve, Ring!PopAlong
<1>2. n \in Nat /\ Ring!Reserved(q, 0) = q
  <2>1. Ring!Free(q) >= 0
    BY QueueFacts, RingArithmetic DEF Gap
  <2> QED
    BY <2>1, RingArithmetic DEF Ring!Reserved
<1>3. \A i \in 1 .. n : Ring!Reserved(q, i) = Turn(goal, i)
  BY <1>2, ReserveTurn DEF Size
<1>4. goal = [i \in 0 .. n |-> Turn(goal, i)]
  BY <1>2, <1>3
<1>5. turn = [i \in 0 .. n |-> Turn(turn, i)]
  BY <1>4
<1>6. \A i \in 0 .. n : turn[i] = Ring!Reserved(q, i)
  <2> DEFINE T == {i \in 0 .. n : turn[i] # Ring!Reserved(q, i)}
  <2> SUFFICES ASSUME T # {}
               PROVE  FALSE
    OBVIOUS
  <2>1. PICK i \in T : \A j \in T : i <= j
    <3>1. T \in SUBSET Nat
      BY <1>2
    <3> HIDE DEF T
    <3> QED
      BY <3>1, LeastElement
  <2> HIDE DEF turn
  <2>2. i # 0
    BY <1>2, <1>5
  <2>3. turn[i - 1] = Ring!Reserved(q, i - 1)
    BY <1>2, <2>1, <2>2
  <2>4. Turn(turn, i) = Turn(goal, i)
    BY <1>2, <2>2, <2>3
  <2>5. turn[i] = Ring!Reserved(q, i)
    BY <1>2, <1>3, <1>5, <2>2, <2>4
  <2> QED
    BY <2>5
<1> QED
  BY <1>1, <1>2, <1>6

(* The loop that pushes, into a queue with room for what a frame may have,
   moves the tail by as many (rtsp_demo.c:1870-1873). *)
LEMMA PushManyIs ==
    ASSUME NEW q \in Ring!Queue, NEW k \in 0 .. VRTP_MAX_NBPKTS,
           Gap(q.head, q.tail) <= VRTP_MAX_NBPKTS
    PROVE  Ring!PushMany(q, k) = [q EXCEPT !.tail = Ahead(q.tail, k)]
<1> DEFINE h == q.head
           t == q.tail
           Pushed(i) == [q EXCEPT !.tail = Ahead(t, i)]
           Turn(f, i) == IF i = 0 THEN q ELSE Ring!Push(f[i - 1])
           turn == CHOOSE f : f = [i \in 0 .. k |-> Turn(f, i)]
           goal == [i \in 0 .. k |-> Pushed(i)]
<1>1. Ring!PushMany(q, k) = turn[k]
  BY DEF Ring!PushMany, Ring!PushTurns
<1>2. /\ VRTP_MAX_NBPKTS \in Nat \ {0} /\ Size \in Nat \ {0} /\ Size = 2 * VRTP_MAX_NBPKTS + 1
      /\ k \in Nat /\ k <= VRTP_MAX_NBPKTS /\ h \in 0 .. Size - 1 /\ t \in 0 .. Size - 1
  BY RingArithmetic, QueueFacts
<1>3. Pushed(0) = q
  BY <1>2 DEF Ahead, Ring!Queue
<1>4. ASSUME NEW i \in 1 .. k
      PROVE  Pushed(i) = Ring!Push(Pushed(i - 1))
  <2> DEFINE x == Ahead(t, i - 1)
  <2>1. x \in 0 .. Size - 1 /\ Ahead(x, 1) = Ahead(t, i) /\ Ahead(x, 1) # h
    BY <1>2 DEF Ahead, Gap
  <2>2. Ring!NextIndex(x) = Ahead(t, i)
    BY <2>1, RingArithmetic
  <2> HIDE DEF x
  <2>3. [q EXCEPT !.tail = x].head = h /\ [q EXCEPT !.tail = x].tail = x
    BY DEF Ring!Queue
  <2>4. Ring!Push([q EXCEPT !.tail = x]) = [[q EXCEPT !.tail = x] EXCEPT !.tail = Ahead(t, i)]
    BY <2>1, <2>2, <2>3 DEF Ring!Push
  <2>5. [[q EXCEPT !.tail = x] EXCEPT !.tail = Ahead(t, i)] = Pushed(i)
    BY DEF Ring!Queue
  <2> QED
    BY <2>4, <2>5 DEF x
<1>5. goal = [i \in 0 .. k |-> Turn(goal, i)]
  BY <1>2, <1>3, <1>4
<1>6. turn = [i \in 0 .. k |-> Turn(turn, i)]
  BY <1>5
<1>7. \A i \in 0 .. k : turn[i] = Pushed(i)
  <2> DEFINE T == {i \in 0 .. k : turn[i] # Pushed(i)}
  <2> SUFFICES ASSUME T # {}
               PROVE  FALSE
    OBVIOUS
  <2>1. PICK i \in T : \A j \in T : i <= j
    <3>1. T \in SUBSET Nat
      BY <1>2
    <3> HIDE DEF T
    <3> QED
      BY <3>1, LeastElement
  <2> HIDE DEF turn, Pushed
  <2>2. i # 0
    BY <1>2, <1>3, <1>6
  <2>3. turn[i - 1] = Pushed(i - 1)
    BY <1>2, <2>1, <2>2
  <2>4. turn[i] = Ring!Push(turn[i - 1])
    BY <1>2, <1>6, <2>2
  <2>5. turn[i] = Pushed(i)
    BY <1>2, <1>4, <2>2, <2>3, <2>4
  <2> QED
    BY <2>5
<1>8. turn[k] = Pushed(k)
  <2> HIDE DEF turn, Pushed
  <2> QED
    BY <1>2, <1>7
<1> QED
  BY <1>1, <1>8

-----------------------------------------------------------------------------
(* The invariant on the ring, by how far from its head a slot is. *)
Place(i) == Gap(vstreamq.head, i)
Held == Place(vstreamq.tail)

(* No number is above that of the newest packet, and the ring is in order. *)
Ordered ==
    /\ \A j \in Ring!Index : buf[j] <= seq
    /\ \A i, j \in Ring!Index : Place(i) < Place(j) /\ Place(j) < Held => buf[i] < buf[j]

(* Who plays is inside the ring, and what it has had is behind it. *)
InPlace(c) ==
    Playing(c) =>
        /\ Place(cc[c].vrtp) <= Held
        /\ \A j \in Ring!Index : Place(cc[c].vrtp) <= Place(j) /\ Place(j) < Held => last[c] < buf[j]
Progress == \A c \in Client : last[c] <= seq /\ InPlace(c)

StreamInv == Types /\ Listed /\ Visiting /\ Ordered /\ Progress

-----------------------------------------------------------------------------
(* What sending a frame does to the state: the ring keeps its newest packets,
   VRTP_MAX_NBPKTS of them at most, and gets k more, or none if the frame fails
   (rtsp_demo.c:1788-1873). *)
Frame(h, k, failed) ==
    /\ phase = "idle"
    /\ h = IF Held <= VRTP_MAX_NBPKTS THEN vstreamq.head ELSE Ahead(vstreamq.tail, VRTP_MAX_NBPKTS + 1)
    /\ cc' = CatchUp([head |-> h, tail |-> vstreamq.tail])
    /\ buf' = Encoded(k)
    /\ seq' = seq + k
    /\ vstreamq' = [head |-> h, tail |-> IF failed THEN vstreamq.tail ELSE Ahead(vstreamq.tail, k)]
    /\ phase' = IF failed THEN "idle" ELSE "send"
    /\ todo' = IF failed THEN <<>> ELSE conns
    /\ UNCHANGED <<conns, vrtp, last>>

LEMMA TxVideoIsFrame ==
    ASSUME Types, TxVideo
    PROVE  \E h \in 0 .. Size - 1, k \in 0 .. VRTP_MAX_NBPKTS, failed \in BOOLEAN :
               Frame(h, k, failed)
<1> DEFINE q == vstreamq
           n == VRTP_MAX_NBPKTS
           reserved == Ring!Reserve(q, n)
           h == IF Held <= n THEN q.head ELSE Ahead(q.tail, n + 1)
           r == [head |-> h, tail |-> q.tail]
<1>1. /\ q \in Ring!Queue /\ q.head \in 0 .. Size - 1 /\ q.tail \in 0 .. Size - 1
      /\ Ring!Free(q) = Size - 1 - Held
      /\ n \in Nat \ {0} /\ Size \in Nat \ {0} /\ Size = 2 * n + 1
  BY QueueFacts, RingArithmetic DEF Types, Held, Place
<1>2. h \in 0 .. Size - 1 /\ Gap(h, q.tail) <= n
  BY <1>1 DEF Held, Place, Gap, Ahead
<1>3. reserved = r
  <2>1. reserved = IF Size - 1 - Held >= n THEN q ELSE [q EXCEPT !.head = (q.tail + n + 1) % Size]
    BY <1>1, ReserveIs DEF Ring!Reserved, Size
  <2>2. (q.tail + n + 1) % Size = Ahead(q.tail, n + 1)
    <3>1. n + 1 \in 0 .. Size /\ q.tail + n + 1 = q.tail + (n + 1)
      BY <1>1
    <3> QED
      BY <1>1, <3>1, RingArithmetic
  <2>3. Size - 1 - Held >= n <=> Held <= n
    BY <1>1 DEF Held, Place, Gap
  <2> QED
    BY <1>1, <2>1, <2>2, <2>3 DEF Ring!Queue
<1>4. r \in Ring!Queue
  BY <1>1, <1>2, RingArithmetic DEF Ring!Queue
<1> HIDE DEF reserved
<1>5. PICK k \in 0 .. n, failed \in BOOLEAN :
        /\ cc' = CatchUp(reserved)
        /\ buf' = Encoded(k)
        /\ seq' = seq + k
        /\ vstreamq' = IF failed THEN reserved ELSE Ring!PushMany(reserved, k)
        /\ phase' = IF failed THEN "idle" ELSE "send"
        /\ todo' = IF failed THEN <<>> ELSE conns
  BY DEF TxVideo, reserved
<1>6. Ring!PushMany(r, k) = [head |-> h, tail |-> Ahead(q.tail, k)]
  <2> HIDE DEF h
  <2>1. r.head = h /\ r.tail = q.tail
    OBVIOUS
  <2>2. Ring!PushMany(r, k) = [r EXCEPT !.tail = Ahead(r.tail, k)]
    <3> HIDE DEF r
    <3> QED
      BY <1>2, <1>4, <2>1, PushManyIs
  <2> QED
    BY <2>2
<1>7. Frame(h, k, failed)
  <2>1. phase = "idle" /\ UNCHANGED <<conns, vrtp, last>>
    BY DEF TxVideo
  <2>2. vstreamq' = [head |-> h, tail |-> IF failed THEN q.tail ELSE Ahead(q.tail, k)]
    BY <1>3, <1>5, <1>6
  <2> HIDE DEF h
  <2>3. h = IF Held <= n THEN vstreamq.head ELSE Ahead(vstreamq.tail, n + 1)
    BY DEF h
  <2> QED
    BY <1>3, <1>5, <2>1, <2>2, <2>3 DEF Frame
<1> HIDE DEF h
<1> QED
  BY <1>2, <1>5, <1>7

(* Where the slots are after a frame: Old of them are held still, in the order
   they had, and the packets of the frame follow. *)
LEMMA FramePlaces ==
    ASSUME Types, NEW h \in 0 .. Size - 1, NEW k \in 0 .. VRTP_MAX_NBPKTS,
           NEW failed \in BOOLEAN, Frame(h, k, failed)
    PROVE  LET Old == Gap(h, vstreamq.tail)
           IN  /\ Old \in Nat /\ Held \in Nat /\ Held' \in Nat
               /\ Held' = IF failed THEN Old ELSE Old + k
               /\ \A i \in Ring!Index :
                     /\ Place(i) \in 0 .. Size - 1 /\ Place(i)' = Gap(h, i) /\ Place(i)' \in 0 .. Size - 1
                     /\ Place(i)' <= Old => Place(i) = Place(h) + Place(i)' /\ Place(i) <= Held
                     /\ Place(i)' < Old => Place(i) < Held /\ buf'[i] = buf[i]
                     /\ Place(i)' >= Old /\ Place(i) <= Held /\ i # vstreamq.tail => Place(i) < Place(h)
                     /\ Place(i)' >= Old /\ Place(i)' < Held' => buf'[i] = seq + Place(i)' - Old + 1
               /\ Place(h)' = 0 /\ Place(h) \in Nat /\ Place(h) <= Held /\ Old <= VRTP_MAX_NBPKTS
<1> DEFINE q == vstreamq
           n == VRTP_MAX_NBPKTS
           Old == Gap(h, q.tail)
<1>0. PICK a \in 0 .. Size - 1, t \in 0 .. Size - 1 : a = q.head /\ t = q.tail
  BY QueueFacts DEF Types
<1>1. Old = Gap(h, t) /\ n \in Nat \ {0} /\ Size \in Nat \ {0}
  BY <1>0, RingArithmetic
<1>2. h = IF Gap(a, t) <= n THEN a ELSE Ahead(t, n + 1)
  BY <1>0 DEF Frame, Held, Place
<1>3. vstreamq'.head = h /\ vstreamq'.tail = IF failed THEN t ELSE Ahead(t, k)
  BY <1>0 DEF Frame
<1>4. Held = Gap(a, t) /\ Held' = Gap(h, IF failed THEN t ELSE Ahead(t, k))
  BY <1>0, <1>3 DEF Held, Place
<1>5. \A i \in Ring!Index : Place(i) = Gap(a, i) /\ Place(i)' = Gap(h, i)
  BY <1>0, <1>3 DEF Place
<1>6. Gap(a, h) + Old = Gap(a, t) /\ Old <= n
  BY <1>1, <1>2, Shortened
<1>7. /\ Old \in Nat /\ Held \in Nat /\ Held' \in Nat
      /\ Held' = IF failed THEN Old ELSE Old + k
  <2>1. Old \in Nat /\ Held \in Nat
    BY <1>1, <1>4, GapIn
  <2>2. Gap(h, Ahead(t, k)) = Old + k
    BY <1>1, <1>6, Extended
  <2>3. CASE failed
    BY <1>1, <1>4, <2>1, <2>3
  <2>4. CASE ~failed
    BY <1>4, <2>1, <2>2, <2>4
  <2> QED
    BY <2>3, <2>4
<1>8. Place(h)' = 0 /\ Place(h) \in Nat /\ Place(h) <= Held
  <2>1. Place(h)' = Gap(h, h) /\ Place(h) = Gap(a, h)
    BY <1>5, RingArithmetic
  <2>2. Gap(a, h) \in Nat /\ Gap(h, h) = 0
    BY GapIn
  <2> QED
    BY <1>4, <1>6, <1>7, <2>1, <2>2
<1>9. ASSUME NEW i \in Ring!Index
      PROVE  /\ Place(i) \in 0 .. Size - 1 /\ Place(i)' = Gap(h, i) /\ Place(i)' \in 0 .. Size - 1
             /\ Place(i)' <= Old => Place(i) = Place(h) + Place(i)' /\ Place(i) <= Held
             /\ Place(i)' < Old => Place(i) < Held /\ buf'[i] = buf[i]
             /\ Place(i)' >= Old /\ Place(i) <= Held /\ i # t => Place(i) < Place(h)
             /\ Place(i)' >= Old /\ Place(i)' < Held' => buf'[i] = seq + Place(i)' - Old + 1
  <2>1. Place(i) = Gap(a, i) /\ Place(i)' = Gap(h, i) /\ Place(h) = Gap(a, h) /\ i \in 0 .. Size - 1
    BY <1>5, RingArithmetic
  <2>2. buf'[i] = IF Gap(t, i) + 1 <= k THEN seq + (Gap(t, i) + 1) ELSE buf[i]
    <3>1. Ring!Index = 0 .. Size - 1 /\ Ring!Distance(t, i) = Gap(t, i)
      BY <1>1, <2>1, RingArithmetic
    <3> QED
      BY <1>0, <3>1 DEF Frame, Encoded
  <2>3. Place(i) \in 0 .. Size - 1 /\ Place(i)' \in 0 .. Size - 1
    BY <1>1, <2>1 DEF Gap
  <2>4. /\ Gap(h, i) <= Old => Gap(a, i) = Gap(a, h) + Gap(h, i) /\ Gap(a, i) <= Gap(a, t)
        /\ Gap(h, i) < Old => Gap(a, i) < Gap(a, t) /\ Gap(t, i) >= n
        /\ Gap(h, i) >= Old /\ Gap(a, i) <= Gap(a, t) /\ i # t => Gap(a, i) < Gap(a, h)
        /\ Gap(h, i) >= Old => Gap(t, i) = Gap(h, i) - Old
    BY <1>1, <1>6, <2>1, Kept
  <2>8. Gap(h, i) < Old => buf'[i] = buf[i]
    <3>1. Gap(t, i) \in Nat
      BY <1>1, <2>1, GapIn
    <3> QED
      BY <1>1, <2>2, <2>4, <3>1
  <2>9. Gap(h, i) >= Old /\ Gap(h, i) < Held' => buf'[i] = seq + Gap(h, i) - Old + 1
    <3>1. seq \in Nat /\ Gap(h, i) \in Nat
      BY <1>1, <2>1 DEF Types, Gap
    <3>2. Held' <= Old + k
      BY <1>6, <1>7
    <3> HIDE DEF Old
    <3> QED
      BY <1>6, <1>7, <2>2, <2>4, <3>1, <3>2
  <2> QED
    BY <1>4, <2>1, <2>3, <2>4, <2>8, <2>9
<1> QED
  BY <1>0, <1>6, <1>7, <1>8, <1>9

(* What a frame does to a connection: one that plays and is left outside the
   ring goes on with the oldest packet (rtsp_demo.c:1801-1811). *)
LEMMA FrameCatchesUp ==
    ASSUME Types, Listed, NEW h \in 0 .. Size - 1, NEW k \in 0 .. VRTP_MAX_NBPKTS,
           NEW failed \in BOOLEAN, Frame(h, k, failed), NEW c \in Client
    PROVE  LET left == Playing(c) /\ Gap(h, cc[c].vrtp) >= Gap(h, vstreamq.tail)
                       /\ cc[c].vrtp # vstreamq.tail
           IN  /\ cc'[c] = IF left THEN [cc[c] EXCEPT !.vrtp = h] ELSE cc[c]
               /\ cc'[c] \in Connection /\ cc'[c].state = cc[c].state /\ cc'[c].bound = cc[c].bound
               /\ Playing(c)' <=> Playing(c)
               /\ cc'[c].vrtp = IF left THEN h ELSE cc[c].vrtp
<1> DEFINE r == [head |-> h, tail |-> vstreamq.tail]
           v == cc[c].vrtp
           left == Playing(c) /\ Gap(h, v) >= Gap(h, vstreamq.tail) /\ v # vstreamq.tail
<1>1. cc[c] \in Connection
  BY DEF Types
<1>2. r \in Ring!Queue /\ r.head = h /\ r.tail = vstreamq.tail
  BY QueueFacts, RingArithmetic DEF Types, Ring!Queue
<1>3. ASSUME Playing(c)
      PROVE  cc[c].bound /\ (~Ring!Inused(r, v) <=> Gap(h, v) >= Gap(h, vstreamq.tail))
  <2>1. v \in 0 .. Size - 1
    BY <1>1, <1>3, RingArithmetic DEF Playing, Connection
  <2>2. PICK u \in 0 .. Size - 1, t \in 0 .. Size - 1 : u = v /\ t = vstreamq.tail
    BY <2>1, QueueFacts DEF Types
  <2>3. Gap(h, u) \in 0 .. Size - 1 /\ Gap(h, t) \in 0 .. Size - 1
    BY GapIn
  <2>4. Ring!Inused(r, u) <=> Gap(h, u) < Gap(h, t)
    <3> HIDE DEF r
    <3> QED
      BY <1>2, <2>2, QueueFacts
  <2>5. Size \in Nat
    BY RingArithmetic
  <2> QED
    BY <1>3, <2>2, <2>3, <2>4, <2>5 DEF Playing, Listed
<1>4. cc'[c] = IF left THEN [cc[c] EXCEPT !.vrtp = h] ELSE cc[c]
  <2>1. cc'[c] = IF cc[c].bound /\ Playing(c) /\ ~Ring!Inused(r, v) /\ v # r.tail
                 THEN [cc[c] EXCEPT !.vrtp = r.head] ELSE cc[c]
    BY DEF Frame, CatchUp
  <2> QED
    BY <1>2, <1>3, <2>1
<1>5. h \in Ring!Index /\ h # NULL
  BY RingArithmetic DEF NULL
<1>6. CASE left
  BY <1>1, <1>4, <1>5, <1>6 DEF Connection, Playing
<1>7. CASE ~left
  BY <1>1, <1>4, <1>7 DEF Connection, Playing
<1> QED
  BY <1>4, <1>6, <1>7

LEMMA FrameKeepsInv ==
    ASSUME StreamInv, NEW h \in 0 .. Size - 1, NEW k \in 0 .. VRTP_MAX_NBPKTS,
           NEW failed \in BOOLEAN, Frame(h, k, failed)
    PROVE  StreamInv'
<1> DEFINE Old == Gap(h, vstreamq.tail)
<1>0. Types /\ Listed /\ Ordered /\ Progress
  BY DEF StreamInv
<1>1. /\ Old \in Nat /\ Held \in Nat /\ Held' \in Nat
      /\ Held' = IF failed THEN Old ELSE Old + k
      /\ \A i \in Ring!Index :
            /\ Place(i) \in 0 .. Size - 1 /\ Place(i)' = Gap(h, i) /\ Place(i)' \in 0 .. Size - 1
            /\ Place(i)' <= Old => Place(i) = Place(h) + Place(i)' /\ Place(i) <= Held
            /\ Place(i)' < Old => Place(i) < Held /\ buf'[i] = buf[i]
            /\ Place(i)' >= Old /\ Place(i) <= Held /\ i # vstreamq.tail => Place(i) < Place(h)
            /\ Place(i)' >= Old /\ Place(i)' < Held' => buf'[i] = seq + Place(i)' - Old + 1
      /\ Place(h)' = 0 /\ Place(h) \in Nat /\ Place(h) <= Held /\ Old <= VRTP_MAX_NBPKTS
  BY <1>0, FramePlaces
<1>2. /\ seq \in Nat /\ seq' = seq + k /\ k \in Nat /\ k <= VRTP_MAX_NBPKTS
      /\ buf \in [Ring!Index -> Nat] /\ buf' = Encoded(k)
      /\ UNCHANGED <<conns, last>> /\ last \in [Client -> Nat]
  <2>1. k \in Nat /\ k <= VRTP_MAX_NBPKTS
    BY RingArithmetic
  <2> QED
    BY <1>0, <2>1 DEF Types, Frame
<1> HIDE DEF Old
<1>3. \A i \in Ring!Index : buf'[i] \in Nat /\ buf'[i] <= seq'
  <2> TAKE i \in Ring!Index
  <2>1. Ring!Distance(vstreamq.tail, i) \in Nat
    <3>1. PICK t \in 0 .. Size - 1, j \in 0 .. Size - 1 : t = vstreamq.tail /\ j = i
      BY <1>0, QueueFacts, RingArithmetic DEF Types
    <3>2. Gap(t, j) \in Nat
      BY GapIn
    <3> QED
      BY <3>1, <3>2, RingArithmetic
  <2>2. buf'[i] = IF Ring!Distance(vstreamq.tail, i) + 1 <= k
                  THEN seq + (Ring!Distance(vstreamq.tail, i) + 1) ELSE buf[i]
    BY <1>2 DEF Encoded
  <2>3. buf[i] \in Nat /\ buf[i] <= seq
    BY <1>0, <1>2 DEF Ordered
  <2> QED
    BY <1>2, <2>1, <2>2, <2>3
<1>4. \A i \in Ring!Index : Place(i)' >= Old /\ Place(i)' < Held' => buf'[i] > seq
  BY <1>1, <1>2
<1>5. Ordered'
  <2>1. ASSUME NEW i \in Ring!Index, NEW j \in Ring!Index,
               Place(i)' < Place(j)', Place(j)' < Held'
        PROVE  buf'[i] < buf'[j]
    <3>1. /\ Place(i) \in Nat /\ Place(j) \in Nat /\ Place(i)' \in Nat /\ Place(j)' \in Nat
          /\ buf[i] \in Nat /\ buf[j] \in Nat /\ buf[i] <= seq
      BY <1>0, <1>1, <1>2 DEF Ordered
    <3>2. CASE Place(j)' < Old
      <4>1. Place(i) < Place(j) /\ Place(j) < Held /\ buf'[i] = buf[i] /\ buf'[j] = buf[j]
        BY <1>1, <2>1, <3>1, <3>2
      <4> QED
        BY <1>0, <4>1 DEF Ordered
    <3>3. CASE Place(i)' < Old /\ Place(j)' >= Old
      BY <1>1, <1>2, <1>3, <1>4, <2>1, <3>1, <3>3
    <3>4. CASE Place(i)' >= Old
      <4>1. Place(i)' < Held' /\ Place(j)' >= Old
        BY <1>1, <2>1, <3>1, <3>4
      <4>2. buf'[i] = seq + Place(i)' - Old + 1 /\ buf'[j] = seq + Place(j)' - Old + 1
        BY <1>1, <2>1, <3>4, <4>1
      <4> QED
        BY <1>1, <1>2, <2>1, <3>1, <4>2
    <3> QED
      BY <1>1, <3>1, <3>2, <3>3, <3>4
  <2> QED
    BY <1>3, <2>1 DEF Ordered
<1>6. Progress'
  <2> SUFFICES ASSUME NEW c \in Client
               PROVE  last'[c] <= seq' /\ InPlace(c)'
    BY DEF Progress
  <2>1. last'[c] = last[c] /\ last[c] \in Nat /\ last[c] <= seq
    BY <1>0, <1>2 DEF Progress
  <2>2. InPlace(c)'
    <3> SUFFICES ASSUME Playing(c)'
                 PROVE  /\ Gap(h, cc'[c].vrtp) <= Held'
                        /\ \A j \in Ring!Index :
                              Gap(h, cc'[c].vrtp) <= Gap(h, j) /\ Gap(h, j) < Held' => last[c] < buf'[j]
      <4>1. vstreamq'.head = h
        BY DEF Frame
      <4> QED
        BY <2>1, <4>1 DEF InPlace, Place
    <3>1. Playing(c) /\ cc[c].vrtp \in Ring!Index
      <4>1. Playing(c)
        BY <1>0, FrameCatchesUp
      <4> QED
        BY <1>0, <4>1 DEF Types, Connection, Playing
    <3>2. PICK v \in Ring!Index : v = cc[c].vrtp
      BY <3>1
    <3> DEFINE left == Gap(h, v) >= Old /\ v # vstreamq.tail
    <3>3. cc'[c].vrtp = IF left THEN h ELSE v
      BY <1>0, <3>1, <3>2, FrameCatchesUp DEF Old
    <3>4. Place(v) <= Held /\ \A j \in Ring!Index : Place(v) <= Place(j) /\ Place(j) < Held => last[c] < buf[j]
      BY <1>0, <3>1, <3>2 DEF Progress, InPlace
    <3>5. \A j \in Ring!Index : Gap(h, j) >= Old /\ Gap(h, j) < Held' => last[c] < buf'[j]
      BY <1>1, <1>2, <1>3, <1>4, <2>1
    <3>6. \A j \in Ring!Index : Gap(h, j) < Old /\ Place(j) >= Place(v) => last[c] < buf'[j]
      BY <1>1, <3>4
    <3>7. \A j \in Ring!Index : Gap(h, j) \in Nat /\ (Gap(h, j) < Old => Place(j) = Place(h) + Gap(h, j))
      BY <1>1
    <3>8. CASE left
      <4>1. Place(v) < Place(h) /\ Place(v) \in Nat /\ Place(h) \in Nat /\ Gap(h, h) = 0
        <5>1. h \in Ring!Index
          BY RingArithmetic
        <5> QED
          BY <1>1, <3>4, <3>8, <5>1
      <4>2. \A j \in Ring!Index : Gap(h, j) < Old => last[c] < buf'[j]
        BY <3>6, <3>7, <4>1
      <4>3. Gap(h, cc'[c].vrtp) = 0
        BY <3>3, <3>8, <4>1
      <4> QED
        BY <1>1, <3>5, <3>7, <4>2, <4>3
    <3>9. CASE ~left
      <4>1. Gap(h, v) <= Old /\ cc'[c].vrtp = v /\ Gap(h, v) \in Nat
        BY <1>1, <3>3, <3>7, <3>9 DEF Old
      <4>2. Place(v) = Place(h) + Gap(h, v)
        BY <1>1, <4>1
      <4>3. \A j \in Ring!Index : Gap(h, j) < Old /\ Gap(h, v) <= Gap(h, j) => Place(v) <= Place(j)
        BY <1>1, <3>7, <4>1, <4>2
      <4>4. Gap(h, v) <= Held'
        BY <1>1, <1>2, <4>1
      <4> QED
        BY <1>1, <3>5, <3>6, <3>7, <4>1, <4>3, <4>4
    <3> QED
      BY <3>8, <3>9
  <2> QED
    BY <1>2, <2>1, <2>2
<1>7. Types'
  <2>1. vstreamq' \in Ring!Queue
    <3>1. /\ h \in Ring!Index /\ vstreamq.tail \in 0 .. Size - 1 /\ vstreamq.tail \in Ring!Index
          /\ Ahead(vstreamq.tail, k) \in Ring!Index
      <4>1. PICK t \in 0 .. Size - 1 : t = vstreamq.tail
        BY <1>0, QueueFacts DEF Types
      <4>2. Size \in Nat /\ Size = 2 * VRTP_MAX_NBPKTS + 1 /\ VRTP_MAX_NBPKTS \in Nat
        BY RingArithmetic
      <4>3. Ahead(t, k) \in 0 .. Size - 1
        BY <1>2, <4>2 DEF Ahead
      <4> QED
        BY <4>1, <4>3, RingArithmetic
    <3> QED
      BY <3>1 DEF Frame, Ring!Queue
  <2>2. buf' \in [Ring!Index -> Nat] /\ seq' \in Nat /\ last' \in [Client -> Nat]
    BY <1>2, <1>3 DEF Encoded
  <2>3. cc' \in [Client -> Connection]
    <3>1. \A c \in Client : cc'[c] \in Connection
      BY <1>0, FrameCatchesUp
    <3> QED
      BY <3>1 DEF Frame, CatchUp
  <2>4. conns' \in Seq(Client) /\ phase' \in {"idle", "send"} /\ todo' \in Seq(Client)
        /\ vrtp' \in {"null", "live", "freed"}
    BY <1>0 DEF Types, Frame
  <2> QED
    BY <2>1, <2>2, <2>3, <2>4 DEF Types
<1>8. Listed'
  <2>1. \A c \in Client : cc'[c].state = cc[c].state /\ cc'[c].bound = cc[c].bound
    BY <1>0, FrameCatchesUp
  <2>2. conns' = conns /\ (todo' = <<>> \/ todo' = conns) /\ phase' \in {"idle", "send"}
    BY DEF Frame
  <2>3. Range(conns) \subseteq Client /\ IsInjective(conns)
    BY <1>0 DEF Listed, Types, Range
  <2>4. IsInjective(todo') /\ Range(todo') \subseteq Range(conns)
    BY <2>2, <2>3 DEF IsInjective, Range
  <2> QED
    BY <1>0, <2>1, <2>2, <2>3, <2>4 DEF Listed
<1>9. Visiting'
  <2>1. phase' \in {"idle", "send"}
    BY DEF Frame
  <2> QED
    BY <2>1 DEF Visiting
<1> QED
  BY <1>5, <1>6, <1>7, <1>8, <1>9 DEF StreamInv

-----------------------------------------------------------------------------
(* A step that leaves the ring alone and moves one connection. *)
LEMMA OneMoves ==
    ASSUME Ordered, Progress, UNCHANGED streamVars, NEW c \in Client,
           \A d \in Client \ {c} : cc'[d] = cc[d] /\ last'[d] = last[d],
           last'[c] <= seq, InPlace(c)'
    PROVE  Ordered' /\ Progress'
<1>1. vstreamq' = vstreamq /\ buf' = buf /\ seq' = seq
  BY DEF streamVars
<1>2. Ordered'
  BY <1>1 DEF Ordered, Place, Held
<1>3. Progress'
  <2> SUFFICES ASSUME NEW d \in Client
               PROVE  last'[d] <= seq' /\ InPlace(d)'
    BY DEF Progress
  <2>1. CASE d = c
    BY <1>1, <2>1
  <2>2. CASE d # c
    <3>1. cc'[d] = cc[d] /\ last'[d] = last[d] /\ last[d] <= seq /\ InPlace(d)
      BY <2>2 DEF Progress
    <3> QED
      BY <1>1, <3>1 DEF InPlace, Playing, Place, Held
  <2> QED
    BY <2>1, <2>2
<1> QED
  BY <1>2, <1>3

(* A step that moves none. *)
LEMMA NoneMoves ==
    ASSUME Ordered, Progress, UNCHANGED <<streamVars, cc, last>>
    PROVE  Ordered' /\ Progress'
<1>1. vstreamq' = vstreamq /\ buf' = buf /\ seq' = seq /\ cc' = cc /\ last' = last
  BY DEF streamVars
<1>2. Ordered'
  BY <1>1 DEF Ordered, Place, Held
<1>3. Progress'
  BY <1>1 DEF Progress, InPlace, Playing, Place, Held
<1> QED
  BY <1>2, <1>3

(* A packet is sent to a client that plays (rtsp_demo.c:1400-1433). *)
LEMMA TransmitMoves ==
    ASSUME Types, Ordered, Progress, NEW c \in Client, Playing(c), Transmit(c)
    PROVE  /\ Ordered' /\ Progress' /\ Playing(c)'
           /\ cc' \in [Client -> Connection] /\ last' \in [Client -> Nat]
           /\ \A d \in Client : cc'[d].state = cc[d].state /\ cc'[d].bound = cc[d].bound
<1>1. PICK v \in 0 .. Size - 1, h \in 0 .. Size - 1, t \in 0 .. Size - 1 :
         v = cc[c].vrtp /\ h = vstreamq.head /\ t = vstreamq.tail
  BY QueueFacts, RingArithmetic DEF Types, Connection, Playing
<1> DEFINE w == Ahead(v, 1)
<1>2. /\ last' = [last EXCEPT ![c] = buf[v]]
      /\ cc' = [cc EXCEPT ![c].vrtp = w]
      /\ UNCHANGED streamVars
  BY <1>1, RingArithmetic DEF Transmit, streamVars
<1>3. Gap(h, v) < Gap(h, t)
  <2>1. vstreamq \in Ring!Queue /\ Ring!Inused(vstreamq, v)
    BY <1>1 DEF Transmit, HasPacket, Types
  <2> QED
    BY <1>1, <2>1, QueueFacts
<1>4. w \in 0 .. Size - 1 /\ Gap(h, w) = Gap(h, v) + 1
  <2>1. Size \in Nat \ {0}
    BY RingArithmetic
  <2> QED
    BY <1>3, <2>1 DEF Gap, Ahead
<1>5. Gap(h, v) \in Nat /\ Gap(h, t) \in Nat /\ \A j \in Ring!Index : Gap(h, j) \in Nat
  <2>1. \A j \in 0 .. Size - 1 : Gap(h, j) \in 0 .. Size - 1
    BY GapIn
  <2>2. Size \in Nat /\ Ring!Index = 0 .. Size - 1
    BY RingArithmetic
  <2> QED
    BY <2>1, <2>2
<1>6. v \in Ring!Index /\ w \in Ring!Index /\ w # NULL
  <2>1. NULL \notin 0 .. Size - 1
    BY DEF NULL
  <2> QED
    BY <1>4, <2>1, RingArithmetic
<1> HIDE DEF w
<1>7. buf[v] \in Nat /\ buf[v] <= seq
  BY <1>6 DEF Types, Ordered
<1>8. cc[c] \in Connection /\ cc'[c] = [cc[c] EXCEPT !.vrtp = w] /\ last'[c] = buf[v]
  BY <1>2 DEF Types
<1>9. cc'[c] \in Connection /\ cc'[c].state = cc[c].state /\ cc'[c].bound = cc[c].bound /\ cc'[c].vrtp = w
  BY <1>6, <1>8 DEF Connection
<1>10. \A j \in Ring!Index : Gap(h, w) <= Gap(h, j) /\ Gap(h, j) < Gap(h, t) => buf[v] < buf[j]
  <2>1. \A j \in Ring!Index : Gap(h, v) < Gap(h, j) /\ Gap(h, j) < Gap(h, t) => buf[v] < buf[j]
    BY <1>1, <1>6 DEF Ordered, Place, Held
  <2> QED
    BY <1>4, <1>5, <2>1
<1>11. InPlace(c)'
  <2>1. vstreamq'.head = h /\ vstreamq'.tail = t /\ buf' = buf
    BY <1>1, <1>2 DEF streamVars
  <2>2. Gap(h, w) <= Gap(h, t)
    BY <1>3, <1>4, <1>5
  <2> QED
    BY <1>8, <1>9, <1>10, <2>1, <2>2 DEF InPlace, Place, Held
<1>12. \A d \in Client \ {c} : cc'[d] = cc[d] /\ last'[d] = last[d]
  BY <1>2 DEF Types
<1>13. Ordered' /\ Progress'
  BY <1>2, <1>7, <1>8, <1>11, <1>12, OneMoves
<1>14. cc' \in [Client -> Connection] /\ last' \in [Client -> Nat]
  BY <1>2, <1>7, <1>8, <1>9 DEF Types
<1> QED
  BY <1>6, <1>9, <1>12, <1>13, <1>14 DEF Playing

-----------------------------------------------------------------------------
LEMMA HeadAndTail ==
    ASSUME NEW S, NEW s \in Seq(S), s # <<>>
    PROVE  /\ Head(s) \in S /\ Head(s) \in Range(s)
           /\ Tail(s) \in Seq(S)
           /\ Range(Tail(s)) \subseteq Range(s)
           /\ IsInjective(s) => IsInjective(Tail(s)) /\ Head(s) \notin Range(Tail(s))
<1>1. \A q : ToSet(q) = Range(q)
  BY DEF ToSet, Range
<1>2. /\ Head(s) \in S /\ Tail(s) \in Seq(S)
      /\ ToSet(s) = ToSet(Tail(s)) \cup {Head(s)}
      /\ IsInjective(s) => IsInjective(Tail(s)) /\ Head(s) \notin ToSet(Tail(s))
  BY TakeHead
<1>3. Range(s) = Range(Tail(s)) \cup {Head(s)} /\ ToSet(Tail(s)) = Range(Tail(s))
  BY <1>1, <1>2
<1> QED
  BY <1>2, <1>3

(* The visit of the first of the clients left to be visited begins. *)
LEMMA VisitBegins ==
    ASSUME NEW s \in Seq(Client), IsInjective(s), Visit(s),
           \A c \in Range(s) : cc'[c].state # "closed" /\ cc'[c] = cc[c]
    PROVE  /\ todo' = s /\ phase' \in {"idle", "serve"} /\ vrtp' \in {"null", "live"}
           /\ \A c \in Range(todo') : cc'[c].state # "closed"
           /\ IsInjective(todo')
           /\ Visiting'
<1>1. todo' = s /\ phase' \in {"idle", "serve"} /\ vrtp' \in {"null", "live"}
  BY DEF Visit
<1>2. phase' = "serve" => s # <<>>
  BY DEF Visit
<1>3. ASSUME phase' = "serve", vrtp' = "live"
      PROVE  cc'[Head(s)].vrtp # NULL
  <2>1. Head(s) \in Range(s)
    BY <1>2, <1>3, HeadAndTail
  <2>2. cc[Head(s)].vrtp # NULL
    BY <1>3 DEF Visit
  <2> QED
    BY <2>1, <2>2
<1> QED
  BY <1>1, <1>2, <1>3 DEF Visiting

(* What a request does to the connection it comes in on. *)
Serves(c, new) ==
    /\ cc' = [cc EXCEPT ![c] = new]
    /\ new \in Connection /\ new.state # "closed" /\ new.bound
    /\ \/ new.state # "PLAYING" \/ new.vrtp = NULL \/ new.vrtp = vstreamq.tail
       \/ cc[c].state = "PLAYING" /\ new.vrtp = cc[c].vrtp
    /\ \/ vrtp' = vrtp /\ (new.vrtp = NULL => cc[c].vrtp = NULL)
       \/ vrtp' = IF cc[c].vrtp # NULL /\ vrtp = "live" THEN "freed" ELSE vrtp

LEMMA RequestServes ==
    ASSUME Types, NEW c \in Client, cc[c].state # "closed",
           Answer(c) \/ SETUP(c) \/ PAUSE(c) \/ PLAY(c) \/ TEARDOWN(c)
    PROVE  \E new \in Connection : Serves(c, new)
<1> DEFINE old == cc[c]
           Bound(r) == [r EXCEPT !.bound = TRUE]
<1>1. old \in Connection
  BY DEF Types
<1>2. 0 \in Ring!Index /\ vstreamq.tail \in Ring!Index /\ NULL # 0
  BY QueueFacts, RingArithmetic DEF Types, NULL
<1>3. CASE Answer(c)
  <2>1. cc' = [cc EXCEPT ![c] = Bound(old)] /\ vrtp' = vrtp
    BY <1>3 DEF Answer, Handled
  <2>2. Bound(old) \in Connection /\ Bound(old).bound /\ Bound(old).state = old.state
        /\ Bound(old).vrtp = old.vrtp
    BY <1>1 DEF Connection
  <2> QED
    BY <2>1, <2>2 DEF Serves
<1>4. CASE SETUP(c)
  <2> DEFINE lost == [old EXCEPT !.vrtp = NULL]
             made == [old EXCEPT !.vrtp = IF old.state = "PLAYING" THEN vstreamq.tail ELSE 0,
                                 !.state = IF @ = "INIT" THEN "READY" ELSE @]
  <2>1. vrtp' = IF cc[c].vrtp # NULL /\ vrtp = "live" THEN "freed" ELSE vrtp
    BY <1>4 DEF SETUP, DelRtp
  <2>2. CASE cc' = [cc EXCEPT ![c] = Bound(lost)]
    <3>1. Bound(lost) \in Connection /\ Bound(lost).bound /\ Bound(lost).state = old.state
          /\ Bound(lost).vrtp = NULL
      BY <1>1 DEF Connection
    <3> QED
      BY <2>1, <2>2, <3>1 DEF Serves
  <2>3. CASE cc' = [cc EXCEPT ![c] = Bound(made)]
    <3> DEFINE i == IF old.state = "PLAYING" THEN vstreamq.tail ELSE 0
               st == IF old.state = "INIT" THEN "READY" ELSE old.state
    <3>1. i \in Ring!Index /\ st \in {"closed", "INIT", "READY", "PLAYING"} /\ st # "closed"
          /\ (st = "PLAYING" => i = vstreamq.tail)
      BY <1>1, <1>2 DEF Connection
    <3>2. made = [old EXCEPT !.vrtp = i, !.state = st]
      BY DEF Connection
    <3> HIDE DEF i, st, made
    <3>3. Bound(made) \in Connection /\ Bound(made).bound /\ Bound(made).state = st
          /\ Bound(made).vrtp = i
      BY <1>1, <3>1, <3>2 DEF Connection
    <3> QED
      BY <2>1, <2>3, <3>1, <3>3 DEF Serves
  <2> QED
    BY <1>4, <2>2, <2>3 DEF SETUP, Handled
<1>5. CASE PAUSE(c)
  <2> DEFINE new == Bound([old EXCEPT !.state = "READY"])
  <2>1. cc' = [cc EXCEPT ![c] = new] /\ vrtp' = vrtp
    BY <1>5 DEF PAUSE, Handled
  <2>2. new \in Connection /\ new.bound /\ new.state = "READY" /\ new.vrtp = old.vrtp
    BY <1>1 DEF Connection
  <2> QED
    BY <2>1, <2>2 DEF Serves
<1>6. CASE PLAY(c)
  <2> DEFINE i == IF old.vrtp # NULL /\ old.state = "READY" THEN vstreamq.tail ELSE old.vrtp
             played == [old EXCEPT !.state = "PLAYING", !.vrtp = i]
  <2>1. cc' = [cc EXCEPT ![c] = Bound(played)] /\ vrtp' = vrtp /\ old.state \in {"READY", "PLAYING"}
    BY <1>6 DEF PLAY, Handled
  <2>2. /\ i \in Ring!Index \cup {NULL} /\ (i = NULL => old.vrtp = NULL)
        /\ i = NULL \/ i = vstreamq.tail \/ (old.state = "PLAYING" /\ i = old.vrtp)
    <3>1. NULL \notin Ring!Index
      <4>1. NULL \notin 0 .. Size - 1
        BY DEF NULL
      <4> QED
        BY <4>1, RingArithmetic
    <3> QED
      BY <1>1, <1>2, <2>1, <3>1 DEF Connection
  <2> HIDE DEF i
  <2>3. Bound(played) \in Connection /\ Bound(played).bound /\ Bound(played).state = "PLAYING"
        /\ Bound(played).vrtp = i
    BY <1>1, <2>2 DEF Connection
  <2> QED
    BY <2>1, <2>2, <2>3 DEF Serves
<1>7. CASE TEARDOWN(c)
  <2> DEFINE new == Bound([old EXCEPT !.vrtp = NULL, !.state = "INIT"])
  <2>1. cc' = [cc EXCEPT ![c] = new]
        /\ vrtp' = IF cc[c].vrtp # NULL /\ vrtp = "live" THEN "freed" ELSE vrtp
    BY <1>7 DEF TEARDOWN, Handled, DelRtp
  <2>2. new \in Connection /\ new.bound /\ new.state = "INIT" /\ new.vrtp = NULL
    BY <1>1 DEF Connection
  <2> QED
    BY <2>1, <2>2 DEF Serves
<1> QED
  BY <1>3, <1>4, <1>5, <1>6, <1>7

LEMMA ServeRequestKeepsInv ==
    ASSUME StreamInv, ServeRequest
    PROVE  StreamInv'
<1>0. Types /\ Listed /\ Visiting /\ Ordered /\ Progress
  BY DEF StreamInv
<1>1. PICK c \in Client : c = Head(todo) /\ c \in Range(todo)
  BY <1>0, HeadAndTail DEF ServeRequest, Visiting, Types
<1>2. cc[c].state # "closed" /\ cc[c] \in Connection
  BY <1>0, <1>1 DEF Listed, Types
<1>3. /\ phase = "serve" /\ todo # <<>>
      /\ UNCHANGED <<streamVars, conns, phase, todo, last>>
      /\ Answer(c) \/ SETUP(c) \/ PAUSE(c) \/ PLAY(c) \/ TEARDOWN(c)
  BY <1>0, <1>1 DEF ServeRequest, Visiting
<1>4. PICK new \in Connection : Serves(c, new)
  BY <1>0, <1>2, <1>3, RequestServes
<1>5. /\ cc' \in [Client -> Connection] /\ cc'[c] = new
      /\ \A d \in Client \ {c} : cc'[d] = cc[d]
  BY <1>0, <1>4 DEF Serves, Types
<1>6. InPlace(c)'
  <2> SUFFICES ASSUME Playing(c)'
               PROVE  /\ Gap(vstreamq.head, new.vrtp) <= Held
                      /\ \A j \in Ring!Index :
                            Gap(vstreamq.head, new.vrtp) <= Place(j) /\ Place(j) < Held => last[c] < buf[j]
    BY <1>3, <1>5 DEF InPlace, Place, Held, streamVars
  <2>1. new.state = "PLAYING" /\ new.vrtp # NULL
    BY <1>5 DEF Playing
  <2>2. CASE new.vrtp = vstreamq.tail
    <3>1. Gap(vstreamq.head, new.vrtp) = Held
      BY <2>2 DEF Held, Place
    <3>2. Held \in Nat /\ \A j \in Ring!Index : Place(j) \in Nat
      <4>1. PICK h \in 0 .. Size - 1, t \in 0 .. Size - 1 : h = vstreamq.head /\ t = vstreamq.tail
        BY <1>0, QueueFacts DEF Types
      <4>2. \A j \in 0 .. Size - 1 : Gap(h, j) \in 0 .. Size - 1
        BY GapIn
      <4>3. Size \in Nat /\ Ring!Index = 0 .. Size - 1
        BY RingArithmetic
      <4>4. \A j \in Ring!Index : Gap(h, j) \in Nat
        BY <4>2, <4>3
      <4>5. t \in Ring!Index
        BY RingArithmetic
      <4> QED
        BY <4>1, <4>4, <4>5 DEF Held, Place
    <3> QED
      BY <3>1, <3>2
  <2>3. CASE cc[c].state = "PLAYING" /\ new.vrtp = cc[c].vrtp
    BY <1>0, <2>1, <2>3 DEF Progress, InPlace, Playing, Place
  <2> QED
    BY <1>4, <2>1, <2>2, <2>3 DEF Serves
<1>7. Ordered' /\ Progress'
  <2>1. last' = last /\ last[c] <= seq
    BY <1>0, <1>3 DEF Progress
  <2> QED
    BY <1>0, <1>3, <1>5, <1>6, <2>1, OneMoves
<1>8. Types'
  BY <1>0, <1>3, <1>4, <1>5 DEF Types, streamVars, Serves
<1>9. Listed'
  <2>1. new.state # "closed" /\ new.bound
    BY <1>4 DEF Serves
  <2>2. \A d \in Client : (cc'[d].state # "closed" <=> cc[d].state # "closed")
    BY <1>2, <1>5, <2>1
  <2>3. \A d \in Client : cc'[d].state \in {"READY", "PLAYING"} => cc'[d].bound
    BY <1>0, <1>5, <2>1 DEF Listed
  <2>4. Range(todo) \subseteq Client
    BY <1>0 DEF Types, Range
  <2> QED
    BY <1>0, <1>3, <2>2, <2>3, <2>4 DEF Listed
<1>10. Visiting'
  <2>1. vrtp' = "live" => new.vrtp # NULL
    BY <1>0, <1>1, <1>3, <1>4 DEF Visiting, Serves
  <2> QED
    BY <1>0, <1>1, <1>3, <1>5, <2>1 DEF Visiting
<1> QED
  BY <1>7, <1>8, <1>9, <1>10 DEF StreamInv

LEMMA ServeClosedKeepsInv ==
    ASSUME StreamInv, ServeClosed
    PROVE  StreamInv'
<1>0. Types /\ Listed /\ Visiting /\ Ordered /\ Progress
  BY DEF StreamInv
<1>1. PICK c \in Client : c = Head(todo) /\ c \in Range(todo)
  BY <1>0, HeadAndTail DEF ServeClosed, Visiting, Types
<1>2. /\ cc' = [cc EXCEPT ![c] = Closed]
      /\ conns' = RemoveFirst(conns, c)
      /\ last' = [last EXCEPT ![c] = 0]
      /\ Visit(Tail(todo)) /\ UNCHANGED streamVars
  BY <1>1 DEF ServeClosed
<1>3. Closed \in Connection /\ Closed.state = "closed" /\ Closed.vrtp = NULL
  BY DEF Closed, Connection
<1>4. /\ cc' \in [Client -> Connection] /\ cc'[c] = Closed /\ last' \in [Client -> Nat] /\ last'[c] = 0
      /\ \A d \in Client \ {c} : cc'[d] = cc[d] /\ last'[d] = last[d]
  BY <1>0, <1>2, <1>3 DEF Types
<1>5. /\ conns' \in Seq(Client) /\ IsInjective(conns') /\ Range(conns') = Range(conns) \ {c}
  BY <1>0, <1>2, RemoveEntry DEF Types, Listed
<1>6. /\ Tail(todo) \in Seq(Client) /\ IsInjective(Tail(todo))
      /\ Range(Tail(todo)) \subseteq Range(todo) /\ c \notin Range(Tail(todo)) /\ Range(todo) \subseteq Client
  <2>1. todo # <<>> /\ todo \in Seq(Client) /\ IsInjective(todo)
    BY <1>0 DEF ServeClosed, Visiting, Types, Listed
  <2>2. Range(todo) \subseteq Client
    BY <2>1 DEF Range
  <2> QED
    BY <1>1, <2>1, <2>2, HeadAndTail
<1>7. \A d \in Range(Tail(todo)) : cc'[d].state # "closed" /\ cc'[d] = cc[d]
  BY <1>0, <1>4, <1>6 DEF Listed
<1>8. /\ todo' = Tail(todo) /\ phase' \in {"idle", "serve"} /\ vrtp' \in {"null", "live"}
      /\ \A d \in Range(todo') : cc'[d].state # "closed"
      /\ IsInjective(todo') /\ Visiting'
  BY <1>2, <1>6, <1>7, VisitBegins
<1>9. InPlace(c)'
  BY <1>3, <1>4 DEF InPlace, Playing
<1>10. Ordered' /\ Progress'
  <2>1. last'[c] <= seq
    BY <1>0, <1>4 DEF Types
  <2> QED
    BY <1>0, <1>2, <1>4, <1>9, <2>1, OneMoves
<1>11. Types'
  BY <1>0, <1>2, <1>4, <1>5, <1>6, <1>8 DEF Types, streamVars
<1>12. Listed'
  BY <1>0, <1>3, <1>4, <1>5, <1>8 DEF Listed
<1> QED
  BY <1>8, <1>10, <1>11, <1>12 DEF StreamInv

LEMMA InitStreamInv == Init => StreamInv
<1> SUFFICES ASSUME Init
             PROVE  StreamInv
  OBVIOUS
<1>1. /\ vstreamq = [head |-> 0, tail |-> 0] /\ buf = [j \in Ring!Index |-> 0] /\ seq = 0
      /\ cc = [c \in Client |-> Closed] /\ conns = <<>> /\ phase = "idle" /\ todo = <<>>
      /\ vrtp = "null" /\ last = [c \in Client |-> 0]
  BY DEF Init, Ring!EmptyQueue
<1>2. 0 \in 0 .. Size - 1 /\ 0 \in Ring!Index
  BY RingArithmetic
<1>3. Closed \in Connection /\ Closed.state = "closed" /\ Closed.vrtp = NULL
  BY DEF Closed, Connection
<1>4. Types
  BY <1>1, <1>2, <1>3 DEF Types, Ring!Queue
<1>5. Listed /\ Visiting
  <2>1. Range(<<>>) = {} /\ IsInjective(<<>>)
    BY DEF Range, IsInjective
  <2> QED
    BY <1>1, <1>3, <2>1 DEF Listed, Visiting
<1>6. Held = 0 /\ \A j \in Ring!Index : Place(j) >= 0
  <2>1. Gap(0, 0) = 0 /\ \A j \in 0 .. Size - 1 : Gap(0, j) \in 0 .. Size - 1
    BY <1>2, GapIn
  <2>2. \A j \in Ring!Index : Gap(0, j) \in 0 .. Size - 1
    BY <2>1, RingArithmetic
  <2>3. \A j \in Ring!Index : Gap(0, j) >= 0
    <3>1. Size \in Nat
      BY RingArithmetic
    <3> QED
      BY <2>2, <3>1
  <2> QED
    BY <1>1, <2>1, <2>3 DEF Held, Place
<1>7. Ordered
  <2>1. \A j \in Ring!Index : buf[j] <= seq
    BY <1>1
  <2>2. \A j \in Ring!Index : Place(j) \in Int
    <3>1. \A j \in 0 .. Size - 1 : Gap(0, j) \in 0 .. Size - 1
      BY <1>2, GapIn
    <3>2. \A j \in Ring!Index : Gap(0, j) \in Int
      BY <3>1, RingArithmetic
    <3> QED
      BY <1>1, <3>2 DEF Place
  <2> QED
    BY <1>6, <2>1, <2>2 DEF Ordered
<1>8. Progress
  BY <1>1, <1>3 DEF Progress, InPlace, Playing
<1> QED
  BY <1>4, <1>5, <1>7, <1>8 DEF StreamInv

LEMMA StepStreamInv == StreamInv /\ [Next]_vars => StreamInv'
<1> SUFFICES ASSUME StreamInv, [Next]_vars
             PROVE  StreamInv'
  OBVIOUS
<1>0. Types /\ Listed /\ Visiting /\ Ordered /\ Progress
  BY DEF StreamInv
<1>1. CASE TxVideo
  BY <1>0, <1>1, TxVideoIsFrame, FrameKeepsInv
<1>2. CASE FirstSend \/ Flush
  <2>1. PICK c \in Client : c = Head(todo)
    BY <1>0, <1>2, HeadAndTail DEF FirstSend, Flush, Visiting, Types
  <2>2. Playing(c) /\ Transmit(c) /\ UNCHANGED <<streamVars, conns, phase, todo, vrtp>>
    BY <1>0, <1>2, <2>1 DEF FirstSend, Flush, Visiting, Transmit
  <2>3. /\ Ordered' /\ Progress' /\ Playing(c)'
        /\ cc' \in [Client -> Connection] /\ last' \in [Client -> Nat]
        /\ \A d \in Client : cc'[d].state = cc[d].state /\ cc'[d].bound = cc[d].bound
    BY <1>0, <2>2, TransmitMoves
  <2>4. Types'
    BY <1>0, <2>2, <2>3 DEF Types, streamVars
  <2>5. Listed'
    <3>1. Range(todo) \subseteq Client
      BY <1>0 DEF Types, Range
    <3> QED
      BY <1>0, <2>2, <2>3, <3>1 DEF Listed
  <2>6. Visiting'
    BY <1>0, <1>2, <2>1, <2>2, <2>3 DEF Visiting, FirstSend, Flush
  <2> QED
    BY <2>3, <2>4, <2>5, <2>6 DEF StreamInv
<1>3. CASE FirstSendDone
  <2>1. /\ phase = "send" /\ todo # <<>> /\ todo' = Tail(todo)
        /\ UNCHANGED <<streamVars, cc, conns, phase, vrtp, last>>
    BY <1>3 DEF FirstSendDone, VisitNext
  <2>2. /\ todo' \in Seq(Client) /\ IsInjective(todo') /\ Range(todo') \subseteq Range(todo)
    BY <1>0, <2>1, HeadAndTail DEF Types, Listed
  <2>3. Types' /\ Listed' /\ Visiting'
    BY <1>0, <2>1, <2>2 DEF Types, Listed, Visiting, streamVars
  <2>4. Ordered' /\ Progress'
    BY <1>0, <2>1, NoneMoves
  <2> QED
    BY <2>3, <2>4 DEF StreamInv
<1>4. CASE Select
  <2>1. Visit(conns) /\ UNCHANGED streamVars
    BY <1>4 DEF Select
  <2>2. CASE UNCHANGED <<cc, conns, last>>
    <3>1. /\ todo' = conns /\ phase' \in {"idle", "serve"} /\ vrtp' \in {"null", "live"}
          /\ \A d \in Range(todo') : cc'[d].state # "closed"
          /\ IsInjective(todo') /\ Visiting'
      <4>1. \A d \in Range(conns) : d \in Client
        BY <1>0 DEF Types, Range
      <4> QED
        BY <1>0, <2>1, <2>2, <4>1, VisitBegins DEF Types, Listed
    <3>2. Types' /\ Listed'
      BY <1>0, <2>1, <2>2, <3>1 DEF Types, Listed, streamVars
    <3>3. Ordered' /\ Progress'
      BY <1>0, <2>1, <2>2, NoneMoves
    <3> QED
      BY <3>1, <3>2, <3>3 DEF StreamInv
  <2>3. CASE \E c \in Client :
               /\ cc[c].state = "closed"
               /\ cc' = [cc EXCEPT ![c].state = "INIT"]
               /\ conns' = Append(conns, c)
               /\ last' = [last EXCEPT ![c] = 0]
    <3>1. PICK c \in Client :
               /\ cc[c].state = "closed"
               /\ cc' = [cc EXCEPT ![c].state = "INIT"]
               /\ conns' = Append(conns, c)
               /\ last' = [last EXCEPT ![c] = 0]
      BY <2>3
    <3>2. /\ cc' \in [Client -> Connection] /\ cc'[c].state = "INIT"
          /\ last' \in [Client -> Nat] /\ last'[c] = 0
          /\ \A d \in Client \ {c} : cc'[d] = cc[d] /\ last'[d] = last[d]
      <4>1. cc[c] \in Connection
        BY <1>0 DEF Types
      <4>2. [cc[c] EXCEPT !.state = "INIT"] \in Connection /\ [cc[c] EXCEPT !.state = "INIT"].state = "INIT"
        BY <4>1 DEF Connection
      <4> QED
        BY <1>0, <3>1, <4>2 DEF Types
    <3>3. Range(conns) \subseteq Client \ {c}
      BY <1>0, <3>1 DEF Types, Listed, Range
    <3>4. conns' \in Seq(Client) /\ IsInjective(conns') /\ Range(conns') = Range(conns) \cup {c}
      <4>1. \A q : ToSet(q) = Range(q)
        BY DEF ToSet, Range
      <4>2. conns \in Seq(Client) /\ IsInjective(conns) /\ c \notin ToSet(conns)
        BY <1>0, <3>3, <4>1 DEF Types, Listed
      <4>3. conns' \in Seq(Client) /\ IsInjective(conns') /\ ToSet(conns') = ToSet(conns) \cup {c}
        BY <3>1, <4>2, AddLast
      <4> QED
        BY <4>1, <4>3
    <3>5. /\ todo' = conns /\ phase' \in {"idle", "serve"} /\ vrtp' \in {"null", "live"}
          /\ \A d \in Range(todo') : cc'[d].state # "closed"
          /\ IsInjective(todo') /\ Visiting'
      BY <1>0, <2>1, <3>2, <3>3, VisitBegins DEF Types, Listed
    <3>6. Types'
      BY <1>0, <2>1, <3>2, <3>4, <3>5 DEF Types, streamVars
    <3>7. Listed'
      BY <1>0, <3>2, <3>4, <3>5 DEF Listed
    <3>8. Ordered' /\ Progress'
      <4>1. InPlace(c)'
        BY <3>2 DEF InPlace, Playing
      <4>2. last'[c] <= seq
        BY <1>0, <3>2 DEF Types
      <4> QED
        BY <1>0, <2>1, <3>2, <4>1, <4>2, OneMoves
    <3> QED
      BY <3>5, <3>6, <3>7, <3>8 DEF StreamInv
  <2> QED
    BY <1>4, <2>2, <2>3 DEF Select
<1>5. CASE ServeRequest
  BY <1>5, ServeRequestKeepsInv
<1>6. CASE ServeClosed
  BY <1>6, ServeClosedKeepsInv
<1>7. CASE ServeDone \/ FlushDone
  <2>1. UNCHANGED <<streamVars, cc, conns, last>>
    BY <1>7 DEF ServeDone, FlushDone
  <2>2. Ordered' /\ Progress'
    BY <1>0, <2>1, NoneMoves
  <2>3. todo # <<>> /\ todo \in Seq(Client) /\ IsInjective(todo) /\ Range(todo) \subseteq Client
    BY <1>0, <1>7 DEF ServeDone, FlushDone, Visiting, Types, Listed, Range
  <2>4. CASE Visit(Tail(todo))
    <3>1. /\ Tail(todo) \in Seq(Client) /\ IsInjective(Tail(todo))
          /\ Range(Tail(todo)) \subseteq Range(todo)
      BY <2>3, HeadAndTail
    <3>2. \A d \in Range(Tail(todo)) : cc'[d].state # "closed" /\ cc'[d] = cc[d]
      BY <1>0, <2>1, <2>3, <3>1 DEF Listed
    <3>3. /\ todo' = Tail(todo) /\ phase' \in {"idle", "serve"} /\ vrtp' \in {"null", "live"}
          /\ \A d \in Range(todo') : cc'[d].state # "closed"
          /\ IsInjective(todo') /\ Visiting'
      BY <2>4, <3>1, <3>2, VisitBegins
    <3>4. Types' /\ Listed'
      BY <1>0, <2>1, <3>1, <3>3 DEF Types, Listed, streamVars
    <3> QED
      BY <2>2, <3>3, <3>4 DEF StreamInv
  <2>5. CASE UNCHANGED <<phase, todo, vrtp>>
    <3>1. Types' /\ Listed' /\ Visiting'
      BY <1>0, <2>1, <2>5 DEF Types, Listed, Visiting, Playing, streamVars
    <3> QED
      BY <2>2, <3>1 DEF StreamInv
  <2>6. CASE /\ phase = "serve" /\ cc[Head(todo)].state = "PLAYING" /\ vrtp \notin {"null", "freed"}
             /\ phase' = "flush" /\ UNCHANGED <<todo, vrtp>>
    <3>1. Playing(Head(todo))
      BY <1>0, <2>6 DEF Visiting, Types, Playing
    <3>2. Types' /\ Listed' /\ Visiting'
      BY <1>0, <2>1, <2>3, <2>6, <3>1 DEF Types, Listed, Visiting, Playing, streamVars
    <3> QED
      BY <2>2, <3>2 DEF StreamInv
  <2> QED
    BY <1>7, <2>4, <2>5, <2>6 DEF ServeDone, FlushDone
<1>8. CASE UNCHANGED vars
  <2>1. UNCHANGED <<streamVars, cc, conns, phase, todo, vrtp, last>>
    BY <1>8 DEF vars, streamVars
  <2>2. Types' /\ Listed' /\ Visiting'
    BY <1>0, <2>1 DEF Types, Listed, Visiting, Playing, streamVars
  <2>3. Ordered' /\ Progress'
    BY <1>0, <2>1, NoneMoves
  <2> QED
    BY <2>2, <2>3 DEF StreamInv
<1> QED
  BY <1>1, <1>2, <1>3, <1>4, <1>5, <1>6, <1>7, <1>8 DEF Next, Leave


LEMMA StreamInvHolds == Spec => []StreamInv
<1> QED
  BY InitStreamInv, StepStreamInv, PTL DEF Spec

-----------------------------------------------------------------------------
LEMMA Between ==
    ASSUME NEW h \in 0 .. Size - 1, NEW t \in 0 .. Size - 1, NEW v \in 0 .. Size - 1,
           NEW j \in 0 .. Size - 1, Gap(h, v) <= Gap(h, t)
    PROVE  /\ Gap(h, j) < Gap(h, t) /\ Gap(v, j) < Gap(v, t)
              <=> Gap(h, v) <= Gap(h, j) /\ Gap(h, j) < Gap(h, t)
           /\ Gap(h, v) = Gap(h, t) => v = t
<1>1. Size \in Nat \ {0}
  BY RingArithmetic
<1> DEFINE hv == Gap(h, v)  ht == Gap(h, t)  hj == Gap(h, j)  vj == Gap(v, j)  vt == Gap(v, t)
<1>2. /\ hv \in 0 .. Size - 1 /\ ht \in 0 .. Size - 1 /\ hj \in 0 .. Size - 1
      /\ vj \in 0 .. Size - 1 /\ vt \in 0 .. Size - 1
  BY GapIn
<1>3. /\ hj = hv + vj \/ hj = hv + vj - Size
      /\ ht = hv + vt \/ ht = hv + vt - Size
  BY Triangle
<1>4. hv <= ht /\ (vt = 0 <=> v = t)
  BY GapIn
<1> HIDE DEF hv, ht, hj, vj, vt
<1>5. hj < ht /\ vj < vt <=> hv <= hj /\ hj < ht
  BY <1>1, <1>2, <1>3, <1>4
<1>6. hv = ht => v = t
  BY <1>1, <1>2, <1>3, <1>4
<1> QED
  BY <1>5, <1>6 DEF hv, ht, hj, vj, vt

(* The slots from v up to the tail are those that are as far from the head as
   v, or farther, and held. *)
LEMMA SlotsBetween ==
    ASSUME NEW q \in Ring!Queue, NEW v \in Ring!Index, Gap(q.head, v) <= Gap(q.head, q.tail)
    PROVE  /\ {j \in Ring!Index : Ring!Inused(q, j) /\ Ring!Distance(v, j) < Ring!Distance(v, q.tail)}
                = {j \in Ring!Index : Gap(q.head, v) <= Gap(q.head, j) /\ Gap(q.head, j) < Gap(q.head, q.tail)}
           /\ Ring!Inused(q, v) \/ v = q.tail
<1>1. PICK h \in 0 .. Size - 1, t \in 0 .. Size - 1, u \in 0 .. Size - 1 : h = q.head /\ t = q.tail /\ u = v
  BY QueueFacts, RingArithmetic
<1>2. \A j \in 0 .. Size - 1 : Ring!Inused(q, j) <=> Gap(h, j) < Gap(h, t)
  BY <1>1, QueueFacts
<1>3. \A j \in 0 .. Size - 1 : Ring!Distance(u, j) = Gap(u, j)
  BY RingArithmetic
<1>4. Gap(h, u) <= Gap(h, t)
  BY <1>1
<1>5. \A j \in 0 .. Size - 1 :
         /\ Gap(h, j) < Gap(h, t) /\ Gap(u, j) < Gap(u, t)
               <=> Gap(h, u) <= Gap(h, j) /\ Gap(h, j) < Gap(h, t)
         /\ Gap(h, u) = Gap(h, t) => u = t
  BY <1>4, Between
<1>6. \A j \in 0 .. Size - 1 :
         Ring!Inused(q, j) /\ Ring!Distance(u, j) < Ring!Distance(u, t)
            <=> Gap(h, u) <= Gap(h, j) /\ Gap(h, j) < Gap(h, t)
  BY <1>2, <1>3, <1>5
<1>7. Ring!Inused(q, u) \/ u = t
  <2>1. Gap(h, u) \in 0 .. Size - 1 /\ Gap(h, t) \in 0 .. Size - 1
    BY GapIn
  <2>2. Size \in Nat
    BY RingArithmetic
  <2>3. Gap(h, u) < Gap(h, t) \/ Gap(h, u) = Gap(h, t)
    BY <1>4, <2>1, <2>2
  <2> QED
    BY <1>2, <1>5, <2>3
<1>8. Ring!Index = 0 .. Size - 1
  BY RingArithmetic
<1> QED
  BY <1>1, <1>6, <1>7, <1>8

(* What waits for a client that plays, by the places of the slots. *)
LEMMA WaitingIs ==
    ASSUME Types, Progress, NEW c \in Client, Playing(c)
    PROVE  /\ cc[c].vrtp \in Ring!Index
           /\ HasPacket(c) \/ cc[c].vrtp = vstreamq.tail
           /\ Waiting(c) = {buf[j] : j \in {i \in Ring!Index : Place(cc[c].vrtp) <= Place(i) /\ Place(i) < Held}}
<1>1. cc[c].vrtp \in Ring!Index /\ vstreamq \in Ring!Queue
  BY DEF Types, Connection, Playing
<1>2. PICK v \in Ring!Index : v = cc[c].vrtp
  BY <1>1
<1>3. Gap(vstreamq.head, v) <= Gap(vstreamq.head, vstreamq.tail)
  BY <1>2 DEF Progress, InPlace, Place, Held
<1>4. /\ SlotsFrom(v) = {j \in Ring!Index : Place(v) <= Place(j) /\ Place(j) < Held}
      /\ Ring!Inused(vstreamq, v) \/ v = vstreamq.tail
  BY <1>1, <1>3, SlotsBetween DEF SlotsFrom, Place, Held
<1> QED
  BY <1>1, <1>2, <1>4 DEF Waiting, HasPacket

-----------------------------------------------------------------------------
(* However far a client lags and however often it pauses or renews its
   transport, it never reads a slot that is being reused
   (rtsp_demo.c:1802-1810). *)
THEOREM IndexStaysInRing == Spec => []IndexInRing
<1>1. StreamInv => IndexInRing
  BY WaitingIs DEF StreamInv, IndexInRing
<1> QED
  BY <1>1, StreamInvHolds, PTL

(* The ring holds packets in the order of their numbers, also after a frame
   that failed half-way, and no client is ever sent a packet twice, or an older
   one after a newer one (rtsp_demo.c:1841-1868). *)
THEOREM PacketsStayInOrder == Spec => []PacketsInOrder
<1>1. StreamInv => PacketsInOrder
  <2> SUFFICES ASSUME StreamInv
               PROVE  PacketsInOrder
    OBVIOUS
  <2>0. Types /\ Ordered /\ Progress
    BY DEF StreamInv
  <2>1. ASSUME NEW i \in SlotsFrom(vstreamq.head), NEW j \in SlotsFrom(vstreamq.head),
               Ring!Distance(vstreamq.head, i) < Ring!Distance(vstreamq.head, j)
        PROVE  buf[i] < buf[j]
    <3>1. PICK h \in 0 .. Size - 1 : h = vstreamq.head
      BY <2>0, QueueFacts DEF Types
    <3>2. /\ i \in Ring!Index /\ j \in Ring!Index /\ i \in 0 .. Size - 1 /\ j \in 0 .. Size - 1
          /\ Ring!Inused(vstreamq, j)
      BY <2>1, RingArithmetic DEF SlotsFrom
    <3>3. Ring!Distance(h, i) = Place(i) /\ Ring!Distance(h, j) = Place(j)
      BY <3>1, <3>2, RingArithmetic DEF Place
    <3>4. Place(j) < Held
      BY <2>0, <3>2, QueueFacts DEF Types, Place, Held
    <3> QED
      BY <2>0, <2>1, <3>1, <3>2, <3>3, <3>4 DEF Ordered
  <2>2. ASSUME NEW c \in Client, NEW p \in Waiting(c)
        PROVE  p > last[c]
    <3>1. Playing(c)
      BY <2>2 DEF Waiting
    <3>2. PICK j \in Ring!Index : p = buf[j] /\ Place(cc[c].vrtp) <= Place(j) /\ Place(j) < Held
      BY <2>0, <2>2, <3>1, WaitingIs
    <3>3. last[c] < buf[j] /\ buf[j] \in Nat /\ last[c] \in Nat
      BY <2>0, <3>1, <3>2 DEF Progress, InPlace, Types
    <3> QED
      BY <3>2, <3>3
  <2> QED
    BY <2>1, <2>2 DEF PacketsInOrder
<1> QED
  BY <1>1, StreamInvHolds, PTL

(* The connection list is the connections that are open, each once,
   rtsp_do_event visits nobody it has deleted (rtsp_demo.c:1562-1568), and who
   is in a session state is bound to the session that its handlers use. *)
THEOREM ConnectionsAreKept == Spec => []ConnectionsKept
<1>1. StreamInv => ConnectionsKept
  BY DEF StreamInv, Listed, ConnectionsKept, Range, IsInjective
<1> QED
  BY <1>1, StreamInvHolds, PTL


(* A frame gets a slot for every packet, although push is not looked at, and
   costs no more old packets than that takes, wherever in the ring it begins
   (rtsp_demo.c:1791-1797 against 1870-1873). *)
THEOREM FramesGetTheirSlots == Spec => FrameGetsItsSlots
<1> DEFINE Step == phase = "idle" /\ phase' # "idle" =>
                      /\ Ring!Distance(vstreamq.tail, vstreamq'.tail) = seq' - seq
                      /\ vstreamq'.head = Ring!Reserved(vstreamq, VRTP_MAX_NBPKTS).head
<1>1. StreamInv /\ [Next]_vars => [Step]_vars
  <2> SUFFICES ASSUME StreamInv, Next, phase = "idle", phase' # "idle"
               PROVE  /\ Ring!Distance(vstreamq.tail, vstreamq'.tail) = seq' - seq
                      /\ vstreamq'.head = Ring!Reserved(vstreamq, VRTP_MAX_NBPKTS).head
    OBVIOUS
  <2>1. Types /\ TxVideo
    BY DEF StreamInv, Next, Leave, FirstSend, FirstSendDone, Select, ServeRequest, ServeClosed,
           ServeDone, Flush, FlushDone
  <2>2. PICK h \in 0 .. Size - 1, k \in 0 .. VRTP_MAX_NBPKTS, failed \in BOOLEAN : Frame(h, k, failed)
    BY <2>1, TxVideoIsFrame
  <2>3. PICK a \in 0 .. Size - 1, t \in 0 .. Size - 1 : a = vstreamq.head /\ t = vstreamq.tail
    BY <2>1, QueueFacts DEF Types
  <2>4. /\ vstreamq'.head = h /\ vstreamq'.tail = Ahead(t, k) /\ seq' = seq + k
        /\ h = IF Gap(a, t) <= VRTP_MAX_NBPKTS THEN a ELSE Ahead(t, VRTP_MAX_NBPKTS + 1)
    BY <2>2, <2>3 DEF Frame, Held, Place
  <2>5. VRTP_MAX_NBPKTS \in Nat \ {0} /\ Size \in Nat \ {0} /\ Size = 2 * VRTP_MAX_NBPKTS + 1
    BY RingArithmetic
  <2>6. Ring!Distance(t, Ahead(t, k)) = seq' - seq
    <3>1. k \in 0 .. Size - 1
      BY <2>5
    <3>2. Ahead(t, k) \in 0 .. Size - 1 /\ Gap(t, Ahead(t, k)) = k
      BY <3>1, GapAhead
    <3>3. Ring!Distance(t, Ahead(t, k)) = k
      BY <3>2, RingArithmetic
    <3> QED
      BY <2>1, <2>4, <3>1, <3>3 DEF Types
  <2>7. Ring!Reserved(vstreamq, VRTP_MAX_NBPKTS).head = h
    <3>1. Ring!Free(vstreamq) = Size - 1 - Gap(a, t) /\ vstreamq \in Ring!Queue
      BY <2>1, <2>3, QueueFacts DEF Types
    <3>2. (t + VRTP_MAX_NBPKTS + 1) % Size = Ahead(t, VRTP_MAX_NBPKTS + 1)
      <4>1. VRTP_MAX_NBPKTS + 1 \in 0 .. Size /\ t + VRTP_MAX_NBPKTS + 1 = t + (VRTP_MAX_NBPKTS + 1)
        BY <2>5
      <4> QED
        BY <4>1, RingArithmetic
    <3>3. Ring!Free(vstreamq) >= VRTP_MAX_NBPKTS <=> Gap(a, t) <= VRTP_MAX_NBPKTS
      <4>1. Gap(a, t) \in 0 .. Size - 1
        BY GapIn
      <4> QED
        BY <2>5, <3>1, <4>1
    <3>4. Ring!Reserved(vstreamq, VRTP_MAX_NBPKTS)
             = IF Ring!Free(vstreamq) >= VRTP_MAX_NBPKTS THEN vstreamq
               ELSE [vstreamq EXCEPT !.head = (t + VRTP_MAX_NBPKTS + 1) % Size]
      BY <2>3 DEF Ring!Reserved, Size
    <3> QED
      BY <2>3, <2>4, <3>1, <3>2, <3>3, <3>4 DEF Ring!Queue
  <2> QED
    BY <2>3, <2>4, <2>6, <2>7
<1> QED
  BY <1>1, StreamInvHolds, PTL DEF Spec, FrameGetsItsSlots


(* A packet that waits for a client and is popped for a frame has
   VRTP_MAX_NBPKTS newer ones behind it that wait for the same client. *)
LEMMA PoppedIsFarBehind ==
    ASSUME StreamInv, NEW h \in 0 .. Size - 1, NEW k \in 0 .. VRTP_MAX_NBPKTS,
           NEW failed \in BOOLEAN, Frame(h, k, failed), StreamInv',
           NEW c \in Client, Playing(c), NEW p \in Waiting(c), p \notin Waiting(c)'
    PROVE  Cardinality({p2 \in Waiting(c) : p2 > p}) >= VRTP_MAX_NBPKTS
<1> DEFINE Old == Gap(h, vstreamq.tail)
           n == VRTP_MAX_NBPKTS
           W == {p2 \in Waiting(c) : p2 > p}
<1>0. Types /\ Listed /\ Ordered /\ Progress /\ Types' /\ Progress'
  BY DEF StreamInv
<1>1. /\ Old \in Nat /\ Held \in Nat /\ Held' \in Nat
      /\ Held' >= Old
      /\ \A i \in Ring!Index :
            /\ Place(i) \in 0 .. Size - 1 /\ Gap(h, i) \in 0 .. Size - 1
            /\ Gap(h, i) <= Old => Place(i) = Place(h) + Gap(h, i)
            /\ Gap(h, i) < Old => Place(i) < Held /\ buf'[i] = buf[i]
            /\ Gap(h, i) >= Old /\ Place(i) <= Held /\ i # vstreamq.tail => Place(i) < Place(h)
      /\ Place(h) \in Nat /\ Place(h) <= Held /\ Gap(h, h) = 0
  <2>1. Place(h)' = Gap(h, h) /\ k \in Nat
    BY RingArithmetic DEF Place, Frame
  <2> QED
    BY <1>0, <2>1, FramePlaces
<1>2. PICK v \in Ring!Index : v = cc[c].vrtp
  BY <1>0, WaitingIs
<1>3. Waiting(c) = {buf[i] : i \in {j \in Ring!Index : Place(v) <= Place(j) /\ Place(j) < Held}}
  BY <1>0, <1>2, WaitingIs
<1>4. PICK j \in Ring!Index : p = buf[j] /\ Place(v) <= Place(j) /\ Place(j) < Held
  BY <1>3
<1>5. Held = Place(vstreamq.tail) /\ vstreamq.tail \in Ring!Index
  BY <1>0, QueueFacts, RingArithmetic DEF Held, Types
<1>6. Gap(h, j) >= Old
  <2> SUFFICES ASSUME Gap(h, j) < Old
               PROVE  FALSE
    BY <1>1
  <2> DEFINE left == Gap(h, v) >= Old /\ v # vstreamq.tail
  <2>1. Playing(c)' /\ cc'[c].vrtp = IF left THEN h ELSE v
    BY <1>0, <1>2, FrameCatchesUp
  <2>2. v # vstreamq.tail
    BY <1>1, <1>4, <1>5
  <2>3. PICK w \in Ring!Index : w = cc'[c].vrtp /\ Gap(h, w) <= Gap(h, j)
    <3>1. CASE left
      BY <1>1, <2>1, <3>1, RingArithmetic
    <3>2. CASE ~left
      <4>1. Gap(h, v) < Old
        BY <1>1, <2>2, <3>2
      <4>2. Gap(h, v) <= Gap(h, j)
        BY <1>1, <1>4, <4>1
      <4> QED
        BY <2>1, <3>2, <4>2
    <3> QED
      BY <3>1, <3>2
  <2>4. vstreamq'.head = h /\ vstreamq' \in Ring!Queue /\ Held' = Gap(h, vstreamq'.tail)
    BY <1>0 DEF Frame, Types, Held, Place
  <2>5. Gap(h, w) <= Gap(h, vstreamq'.tail) /\ Gap(h, j) < Gap(h, vstreamq'.tail)
    BY <1>1, <2>3, <2>4
  <2>6. j \in {i \in Ring!Index : Ring!Inused(vstreamq', i)
                                  /\ Ring!Distance(w, i) < Ring!Distance(w, vstreamq'.tail)}
    BY <2>3, <2>4, <2>5, SlotsBetween
  <2>7. buf'[j] \in Waiting(c)'
    BY <2>1, <2>3, <2>6 DEF Waiting, SlotsFrom
  <2> QED
    BY <1>1, <1>4, <2>7
<1>7. Place(j) < Place(h)
  BY <1>1, <1>4, <1>5, <1>6
<1>8. Old = n /\ n \in Nat
  <2>1. PICK a \in 0 .. Size - 1, t \in 0 .. Size - 1 : a = vstreamq.head /\ t = vstreamq.tail
    BY <1>0, QueueFacts DEF Types
  <2>2. h = IF Gap(a, t) <= n THEN a ELSE Ahead(t, n + 1)
    BY <2>1 DEF Frame, Held, Place
  <2>3. Gap(a, t) > n => Gap(h, t) = n
    BY <2>2, Shortened
  <2>4. Gap(a, t) \in 0 .. Size - 1 /\ Gap(a, a) = 0
    BY GapIn
  <2>5. Gap(a, h) # 0
    BY <1>1, <1>7, <2>1 DEF Place
  <2>6. n \in Nat /\ Size \in Nat
    BY RingArithmetic
  <2> QED
    BY <2>1, <2>2, <2>3, <2>4, <2>5, <2>6
<1> HIDE DEF Old
<1>9. ASSUME NEW x \in 1 .. n
      PROVE  /\ Ahead(h, x - 1) \in Ring!Index /\ Place(Ahead(h, x - 1)) = Place(h) + (x - 1)
             /\ Place(Ahead(h, x - 1)) < Held
  <2>1. x - 1 \in 0 .. Size - 1 /\ x - 1 < n
    BY RingArithmetic
  <2>2. Ahead(h, x - 1) \in Ring!Index /\ Gap(h, Ahead(h, x - 1)) = x - 1
    BY <2>1, GapAhead, RingArithmetic
  <2> QED
    BY <1>1, <1>8, <2>1, <2>2
<1> DEFINE f == [x \in 1 .. n |-> buf[Ahead(h, x - 1)]]
<1>10. f \in Injection(1 .. n, W)
  <2>1. ASSUME NEW x \in 1 .. n
        PROVE  f[x] \in W
    <3>1. PICK i \in Ring!Index : i = Ahead(h, x - 1) /\ Place(i) = Place(h) + (x - 1) /\ Place(i) < Held
      BY <1>9
    <3>2. Place(j) < Place(i) /\ Place(v) <= Place(i)
      <4>1. Place(v) \in Nat /\ Place(j) \in Nat /\ Place(h) \in Nat /\ x - 1 \in Nat
        BY <1>1, <1>8
      <4> QED
        BY <1>4, <1>7, <3>1, <4>1
    <3>3. buf[i] \in Waiting(c)
      BY <1>3, <3>1, <3>2
    <3>4. buf[j] < buf[i]
      BY <1>0, <1>4, <3>1, <3>2 DEF Ordered
    <3>5. buf[i] \in Nat /\ buf[j] \in Nat
      BY <1>0 DEF Types
    <3> QED
      BY <1>4, <3>1, <3>3, <3>4, <3>5
  <2>2. ASSUME NEW x \in 1 .. n, NEW y \in 1 .. n, x < y
        PROVE  f[x] # f[y]
    <3>1. PICK i \in Ring!Index : i = Ahead(h, x - 1) /\ Place(i) = Place(h) + (x - 1)
      BY <1>9
    <3>2. PICK m \in Ring!Index : m = Ahead(h, y - 1) /\ Place(m) = Place(h) + (y - 1) /\ Place(m) < Held
      BY <1>9
    <3>3. Place(i) < Place(m)
      BY <1>1, <1>8, <2>2, <3>1, <3>2
    <3>4. buf[i] < buf[m] /\ buf[i] \in Nat /\ buf[m] \in Nat
      BY <1>0, <3>2, <3>3 DEF Ordered, Types
    <3> QED
      BY <3>1, <3>2, <3>4
  <2>3. \A x, y \in 1 .. n : f[x] = f[y] => x = y
    BY <1>8, <2>2
  <2> QED
    BY <2>1, <2>3 DEF Injection, IsInjective
<1>11. IsFiniteSet(W)
  <2>1. W \in SUBSET Nat /\ \A x \in W : x <= seq
    BY <1>0, <1>3 DEF Types, Ordered
  <2>2. seq \in Nat
    BY <1>0 DEF Types
  <2> HIDE DEF W
  <2> QED
    BY <2>1, <2>2, FS_BoundedSetOfNaturals
<1>12. Cardinality(1 .. n) = n
  BY <1>8, FS_Interval
<1> HIDE DEF W, f
<1>13. Cardinality(1 .. n) <= Cardinality(W)
  BY <1>10, <1>11, FS_Injection
<1>14. Cardinality(W) \in Nat
  BY <1>11, FS_CardinalityType
<1>15. Cardinality(W) >= n
  BY <1>8, <1>12, <1>13, <1>14
<1> QED
  BY <1>15 DEF W


(* A client no more than VRTP_MAX_NBPKTS packets behind loses none to the
   frames that follow; one further behind loses the oldest only and keeps the
   newest VRTP_MAX_NBPKTS. *)
THEOREM LaggardsAloneLose == Spec => OnlyLaggardsLose
<1> DEFINE Step == \A c \in Client : phase \in {"idle", "send", "flush"} /\ Playing(c) =>
                      \A p \in Waiting(c) \ (Waiting(c)' \cup {last'[c]}) :
                          Cardinality({p2 \in Waiting(c) : p2 > p}) >= VRTP_MAX_NBPKTS
<1>1. StreamInv /\ StreamInv' /\ [Next]_vars => [Step]_vars
  <2> SUFFICES ASSUME StreamInv, StreamInv', Next,
                      NEW c \in Client, phase \in {"idle", "send", "flush"}, Playing(c),
                      NEW p \in Waiting(c), p \notin Waiting(c)', p # last'[c]
               PROVE  Cardinality({p2 \in Waiting(c) : p2 > p}) >= VRTP_MAX_NBPKTS
    OBVIOUS
  <2>0. Types /\ Listed /\ Visiting /\ Ordered /\ Progress
    BY DEF StreamInv
  <2>1. CASE TxVideo
    BY <2>0, <2>1, TxVideoIsFrame, PoppedIsFarBehind
  <2>2. CASE FirstSend \/ Flush
    <3>1. PICK d \in Client : d = Head(todo)
      BY <2>0, <2>2, HeadAndTail DEF FirstSend, Flush, Visiting, Types
    <3>2. Playing(d) /\ Transmit(d)
      BY <2>0, <2>2, <3>1 DEF FirstSend, Flush, Visiting
    <3>3. UNCHANGED streamVars /\ vstreamq' = vstreamq /\ buf' = buf
      BY <3>2 DEF Transmit, streamVars
    <3>4. d = c
      <4> SUFFICES ASSUME d # c
                   PROVE  FALSE
        OBVIOUS
      <4>1. cc'[c] = cc[c]
        BY <2>0, <3>2 DEF Transmit, Types
      <4>2. Waiting(c)' = Waiting(c)
        BY <3>3, <4>1 DEF Waiting, Playing, SlotsFrom
      <4> QED
        BY <4>2
    <3>5. PICK v \in 0 .. Size - 1, h \in 0 .. Size - 1, t \in 0 .. Size - 1 :
             v = cc[c].vrtp /\ h = vstreamq.head /\ t = vstreamq.tail
      BY <2>0, QueueFacts, RingArithmetic DEF Types, Connection, Playing
    <3>6. PICK j \in Ring!Index : p = buf[j] /\ Gap(h, v) <= Gap(h, j) /\ Gap(h, j) < Gap(h, t)
      BY <2>0, <3>5, WaitingIs DEF Place, Held
    <3>7. last'[c] = buf[v] /\ Playing(c)' /\ cc'[c].vrtp = Ahead(v, 1)
      <4>1. Playing(c)'
        BY <2>0, <3>2, <3>4, TransmitMoves
      <4>2. last'[c] = buf[v] /\ cc'[c].vrtp = Ring!NextIndex(v)
        BY <2>0, <3>2, <3>4, <3>5 DEF Transmit, Types, Connection
      <4> QED
        BY <4>1, <4>2, RingArithmetic
    <3>8. j \in 0 .. Size - 1 /\ j # v
      BY <3>6, <3>7, RingArithmetic
    <3>9. /\ Ahead(v, 1) \in 0 .. Size - 1
          /\ Gap(h, Ahead(v, 1)) <= Gap(h, j) /\ Gap(h, Ahead(v, 1)) <= Gap(h, t)
      <4>1. Size \in Nat \ {0}
        BY RingArithmetic
      <4> QED
        BY <3>6, <3>8, <4>1 DEF Gap, Ahead
    <3>10. PICK w \in Ring!Index : w = Ahead(v, 1)
      BY <3>9, RingArithmetic
    <3>11. j \in {i \in Ring!Index : Ring!Inused(vstreamq, i)
                                    /\ Ring!Distance(w, i) < Ring!Distance(w, vstreamq.tail)}
      BY <2>0, <3>5, <3>6, <3>9, <3>10, SlotsBetween DEF Types
    <3>12. buf[j] \in Waiting(c)'
      BY <3>3, <3>7, <3>10, <3>11 DEF Waiting, SlotsFrom
    <3> QED
      BY <3>6, <3>12
  <2>3. CASE Select
    <3>1. cc[c].state # "closed"
      BY DEF Playing
    <3>2. cc'[c] = cc[c] /\ UNCHANGED <<vstreamq, buf>>
      BY <2>0, <2>3, <3>1 DEF Select, streamVars, Types
    <3>3. Waiting(c)' = Waiting(c)
      BY <3>2 DEF Waiting, Playing, SlotsFrom
    <3> QED
      BY <3>3
  <2>4. CASE FirstSendDone \/ FlushDone \/ ServeDone
    <3>1. UNCHANGED <<cc, vstreamq, buf>>
      BY <2>4 DEF FirstSendDone, VisitNext, FlushDone, ServeDone, streamVars
    <3>2. Waiting(c)' = Waiting(c)
      BY <3>1 DEF Waiting, Playing, SlotsFrom
    <3> QED
      BY <3>2
  <2>5. CASE ServeRequest \/ ServeClosed
    BY <2>5 DEF ServeRequest, ServeClosed
  <2> QED
    BY <2>1, <2>2, <2>3, <2>4, <2>5 DEF Next, Leave
<1> QED
  BY <1>1, StreamInvHolds, PTL DEF Spec, OnlyLaggardsLose
=============================================================================
