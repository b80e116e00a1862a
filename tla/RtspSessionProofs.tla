------------------------- MODULE RtspSessionProofs --------------------------
(***************************************************************************)
(* Proofs about RtspSession, for any clients, paths, port range and number *)
(* of SETUPs: connections and sessions know each other, sockets are those  *)
(* of the tracks that are set up, and answers hold.                        *)
(***************************************************************************)
EXTENDS RtspSession, WellFoundedInduction, TLAPS

-----------------------------------------------------------------------------
(* Adding at the end of a queue. *)
LEMMA AddLast ==
    ASSUME NEW S, NEW s \in Seq(S), NEW e \in S
    PROVE  /\ Append(s, e) \in Seq(S)
           /\ ToSet(Append(s, e)) = ToSet(s) \cup {e}
           /\ IsInjective(s) /\ e \notin ToSet(s) => IsInjective(Append(s, e))
<1>1. /\ Append(s, e) \in Seq(S) /\ Len(Append(s, e)) = Len(s) + 1 /\ Len(s) \in Nat
      /\ \A i \in 1 .. Len(s) : Append(s, e)[i] = s[i]
      /\ Append(s, e)[Len(s) + 1] = e
  OBVIOUS
<1>2. DOMAIN s = 1 .. Len(s) /\ DOMAIN Append(s, e) = 1 .. Len(s) + 1
  BY <1>1
<1>3. ToSet(Append(s, e)) = ToSet(s) \cup {e}
  BY <1>1, <1>2 DEF ToSet
<1>4. IsInjective(s) /\ e \notin ToSet(s) => IsInjective(Append(s, e))
  BY <1>1, <1>2 DEF IsInjective, ToSet
<1> QED
  BY <1>1, <1>3, <1>4

(* A set of natural numbers that is not empty has a least element: what is
   shown by induction elsewhere is shown here for the least counterexample. *)
LEMMA LeastElement ==
    ASSUME NEW T \in SUBSET Nat, T # {}
    PROVE  \E x \in T : \A y \in T : x <= y
<1>1. PICK x \in T : \A y \in T : ~ (<<y, x>> \in OpToRel(<, Nat))
  BY NatLessThanWellFounded, WFMin
<1>2. ASSUME NEW y \in T PROVE x <= y
  <2>1. <<y, x>> \notin OpToRel(<, Nat) /\ <<y, x>> \in Nat \X Nat
    BY <1>1
  <2>2. ~(y < x) /\ x \in Nat /\ y \in Nat
    BY <2>1 DEF OpToRel
  <2> QED
    BY <2>2
<1> QED
  BY <1>2

(* It is what Min chooses. *)
LEMMA LeastIsMin ==
    ASSUME NEW T \in SUBSET Nat, T # {}
    PROVE  Min(T) \in T /\ \A y \in T : Min(T) <= y
  BY LeastElement DEF Min

(* A list without the entry at place k. *)
LEMMA WithoutPlace ==
    ASSUME NEW S, NEW s \in Seq(S), NEW k \in 1 .. Len(s)
    PROVE  LET r == SubSeq(s, 1, k - 1) \o SubSeq(s, k + 1, Len(s))
           IN  /\ r \in Seq(S)
               /\ Len(r) = Len(s) - 1
               /\ DOMAIN r = 1 .. Len(s) - 1
               /\ \A j \in 1 .. k - 1 : r[j] = s[j]
               /\ \A j \in k .. Len(s) - 1 : r[j] = s[j + 1]
<1> DEFINE a == SubSeq(s, 1, k - 1)
           b == SubSeq(s, k + 1, Len(s))
<1>1. Len(s) \in Nat /\ \A j \in 1 .. Len(s) : s[j] \in S
  OBVIOUS
<1>2. a \in Seq(S) /\ Len(a) = k - 1 /\ \A j \in 1 .. k - 1 : a[j] = s[j]
  BY <1>1
<1>3. b \in Seq(S) /\ Len(b) = Len(s) - k /\ \A j \in 1 .. Len(s) - k : b[j] = s[j + k]
  BY <1>1
<1> HIDE DEF a, b
<1>4. /\ a \o b \in Seq(S) /\ Len(a \o b) = Len(s) - 1
      /\ \A j \in 1 .. k - 1 : (a \o b)[j] = a[j]
      /\ \A j \in k .. Len(s) - 1 : (a \o b)[j] = b[j - (k - 1)]
  BY <1>1, <1>2, <1>3
<1>5. \A j \in k .. Len(s) - 1 : b[j - (k - 1)] = s[j + 1]
  BY <1>1, <1>3
<1>6. DOMAIN (a \o b) = 1 .. Len(s) - 1
  BY <1>4
<1> QED
  BY <1>2, <1>4, <1>5, <1>6 DEF a, b

(* Taking the entry e out of a list leaves the others, and, if there was one
   entry e only, leaves no e. *)
LEMMA RemoveEntry ==
    ASSUME NEW S, NEW s \in Seq(S), NEW e
    PROVE  /\ RemoveFirst(s, e) \in Seq(S)
           /\ Range(s) \ {e} \subseteq Range(RemoveFirst(s, e))
           /\ Range(RemoveFirst(s, e)) \subseteq Range(s)
           /\ IsInjective(s) =>
                  /\ IsInjective(RemoveFirst(s, e))
                  /\ Range(RemoveFirst(s, e)) = Range(s) \ {e}
<1>1. Len(s) \in Nat /\ DOMAIN s = 1 .. Len(s)
  OBVIOUS
<1>2. CASE \E i \in 1 .. Len(s) : s[i] = e
  <2> DEFINE I == {i \in 1 .. Len(s) : s[i] = e}
             k == Min(I)
             r == SubSeq(s, 1, k - 1) \o SubSeq(s, k + 1, Len(s))
  <2>1. I \in SUBSET Nat /\ I # {}
    BY <1>2
  <2>2. k \in 1 .. Len(s) /\ s[k] = e
    <3> HIDE DEF I
    <3>1. Min(I) \in I
      BY <2>1, LeastIsMin
    <3> QED
      BY <3>1 DEF I
  <2>3. RemoveFirst(s, e) = r
    BY <1>2, <2>1 DEF RemoveFirst, RemoveAt, SelectInSeq
  <2> HIDE DEF k
  <2>4. /\ r \in Seq(S) /\ Len(r) = Len(s) - 1 /\ DOMAIN r = 1 .. Len(s) - 1
        /\ \A j \in 1 .. k - 1 : r[j] = s[j]
        /\ \A j \in k .. Len(s) - 1 : r[j] = s[j + 1]
    BY <2>2, WithoutPlace
  <2> HIDE DEF r
  <2>5. Range(s) \ {e} \subseteq Range(r)
    <3> SUFFICES ASSUME NEW j \in 1 .. Len(s), s[j] # e PROVE s[j] \in Range(r)
      BY <1>1 DEF Range
    <3>1. CASE j < k
      <4>1. j \in 1 .. k - 1 /\ j \in DOMAIN r
        BY <1>1, <2>2, <2>4, <3>1
      <4> QED
        BY <2>4, <4>1 DEF Range
    <3>2. CASE j > k
      <4>1. j - 1 \in k .. Len(s) - 1 /\ j - 1 \in DOMAIN r /\ (j - 1) + 1 = j
        BY <1>1, <2>2, <2>4, <3>2
      <4> QED
        BY <2>4, <4>1 DEF Range
    <3> QED
      BY <1>1, <2>2, <3>1, <3>2
  <2>6. \A j \in DOMAIN r : \E i \in DOMAIN s : i # k /\ r[j] = s[i]
    <3> SUFFICES ASSUME NEW j \in 1 .. Len(s) - 1 PROVE \E i \in 1 .. Len(s) : i # k /\ r[j] = s[i]
      BY <1>1, <2>4
    <3>1. CASE j < k
      BY <1>1, <2>2, <2>4, <3>1
    <3>2. CASE j >= k
      <4>1. r[j] = s[j + 1] /\ j + 1 \in 1 .. Len(s) /\ j + 1 # k
        BY <1>1, <2>2, <2>4, <3>2
      <4> QED
        BY <4>1
    <3> QED
      BY <2>2, <3>1, <3>2
  <2>7. Range(r) \subseteq Range(s)
    BY <2>6 DEF Range
  <2>8. ASSUME IsInjective(s) PROVE IsInjective(r) /\ e \notin Range(r)
    <3>1. e \notin Range(r)
      BY <1>1, <2>2, <2>6, <2>8 DEF IsInjective, Range
    <3>2. ASSUME NEW i \in 1 .. Len(s) - 1, NEW j \in 1 .. Len(s) - 1, r[i] = r[j] PROVE i = j
      <4> DEFINE place(m) == IF m < k THEN m ELSE m + 1
      <4>1. \A m \in 1 .. Len(s) - 1 : r[m] = s[place(m)] /\ place(m) \in 1 .. Len(s)
        BY <1>1, <2>2, <2>4
      <4>2. place(i) = place(j)
        BY <1>1, <2>8, <3>2, <4>1 DEF IsInjective
      <4> QED
        BY <1>1, <2>2, <4>2
    <3> QED
      BY <2>4, <3>1, <3>2 DEF IsInjective
  <2> QED
    BY <2>3, <2>4, <2>5, <2>7, <2>8
<1>3. CASE ~\E i \in 1 .. Len(s) : s[i] = e
  <2>1. RemoveFirst(s, e) = s
    BY <1>3 DEF RemoveFirst
  <2>2. e \notin Range(s)
    BY <1>1, <1>3 DEF Range
  <2> QED
    BY <2>1, <2>2
<1> QED
  BY <1>2, <1>3

-----------------------------------------------------------------------------
Transport == [tcp : BOOLEAN, port : Nat, ssrc : Nat]
Connection == [state : {"closed", "INIT", "READY", "PLAYING"},
               session : Path \cup {NoPath},
               session_id : Nat,
               rtp : [Track -> Transport]]

Types ==
    /\ phase \in {"none", "idle", "search", "delDemo", "gone"}
    /\ victim \in Path \cup {NoPath}
    /\ sessions \in Seq(Path)
    /\ sess \in [Path -> [tracks : SUBSET Track, conns : Seq(Client)]]
    /\ conns \in Seq(Client)
    /\ cc \in [Client -> Connection]
    /\ told \in [Client -> [id : Nat, rtp : [Track -> Transport]]]
    /\ ssrc \in Nat
    /\ ids \in Nat

(* A search is for a client that is connected, and nothing is deleted
   meanwhile; a server that is gone has no connection. *)
Calls ==
    /\ phase = "search" =>
          /\ job \in Client \X Track \X (FirstPort .. LastPort - 1)
          /\ cc[job[1]].state # "closed"
    /\ phase \in {"search", "gone"} => victim = NoPath
    /\ phase = "gone" => conns = <<>>

Bindings ==
    /\ \A c \in Client, p \in Path : cc[c].session = p <=> c \in Range(sess[p].conns)
    /\ \A p \in Path : IsInjective(sess[p].conns)
    /\ \A c \in Client : cc[c].session # NoPath => cc[c].session \in Range(sessions)
    /\ IsInjective(conns)
    /\ \A c \in Client : c \in Range(conns) <=> cc[c].state # "closed"

Usable(port) == port = 0 \/ port \in FirstPort .. LastPort - 1

Owned ==
    /\ \A n \in udp : \E c \in Client, t \in Track : n \in PortsOf(Rtp(c, t))
    /\ \A c \in Client, t \in Track : PortsOf(Rtp(c, t)) \subseteq udp /\ Usable(Rtp(c, t).port)
    /\ \A c1, c2 \in Client, t1, t2 \in Track :
          c1 # c2 \/ t1 # t2 => PortsOf(Rtp(c1, t1)) \cap PortsOf(Rtp(c2, t2)) = {}

Sockets == Owned /\ (phase = "search" => Rtp(job[1], job[2]) = NoRtp)

(* While a search is on, the answer for its track is still to come. *)
Promises ==
    \A c \in Client :
        /\ \A t \in Track :
              \/ told[c].rtp[t] = Rtp(c, t)
              \/ phase = "search" /\ job[1] = c /\ job[2] = t
        /\ cc[c].rtp # NoTracks => cc[c].state \in {"READY", "PLAYING"}
        /\ cc[c].state \in {"READY", "PLAYING"} => told[c].id = cc[c].session_id

SessionInv == Types /\ Calls /\ Bindings /\ Sockets /\ Promises

-----------------------------------------------------------------------------
(* The session a request is served by is listed, and is the one the
   connection is bound to if it is bound (rtsp_demo.c:1158-1178). *)
LEMMA SessionForFacts ==
    ASSUME Types, Bindings, NEW c \in Client, NEW path, SessionFor(c, path) # NoPath
    PROVE  /\ SessionFor(c, path) \in Range(sessions)
           /\ SessionFor(c, path) \in Path
           /\ cc[c].session # NoPath => SessionFor(c, path) = cc[c].session
<1>1. CASE cc[c].session # NoPath
  BY <1>1 DEF SessionFor, Bindings, Types, Connection
<1>2. CASE cc[c].session = NoPath
  <2> DEFINE I == {i \in 1 .. Len(sessions) : PathMatch(sessions[i], path)}
  <2>1. Matching(path) # 0 /\ SessionFor(c, path) = sessions[Matching(path)]
    BY <1>2 DEF SessionFor
  <2>2. I # {} /\ Matching(path) = Min(I)
    BY <2>1 DEF Matching, SelectInSeq
  <2>3. Len(sessions) \in Nat /\ DOMAIN sessions = 1 .. Len(sessions)
        /\ \A i \in 1 .. Len(sessions) : sessions[i] \in Path
    BY DEF Types
  <2>4. Matching(path) \in I
    <3>1. I \in SUBSET Nat
      BY <2>3
    <3> HIDE DEF I
    <3> QED
      BY <2>2, <3>1, LeastIsMin
  <2> QED
    BY <1>2, <2>1, <2>3, <2>4 DEF Range
<1> QED
  BY <1>1, <1>2

(* What a request that is served does, whichever it is: the connection c, for
   session s, becomes new, and the tracks in G lose their transport. *)
Exchange(c, s, new, G) ==
    /\ c \in Range(conns) /\ s \in Range(sessions)
    /\ cc[c].session # NoPath => s = cc[c].session
    /\ new \in Connection /\ new.state # "closed"
    /\ Handled(c, s, new)
    /\ udp' = udp \ UNION {PortsOf(cc[c].rtp[t]) : t \in G}
    /\ \A t \in G : new.rtp[t].port = 0
    /\ \A t \in Track \ G : new.rtp[t] = cc[c].rtp[t]
    /\ \/ phase' = "idle"
       \/ phase' = "search" /\ \E t \in Track : job' = <<c, t, FirstPort>> /\ new.rtp[t] = NoRtp
    /\ told' \in [Client -> [id : Nat, rtp : [Track -> Transport]]]
    /\ \A d \in Client \ {c} : told'[d] = told[d]
    /\ \A t \in Track : told'[c].rtp[t] = new.rtp[t] \/ (phase' = "search" /\ job'[2] = t)
    /\ new.rtp # NoTracks => new.state \in {"READY", "PLAYING"}
    /\ new.state \in {"READY", "PLAYING"} => told'[c].id = new.session_id
    /\ ssrc' \in Nat /\ ids' \in Nat
    /\ UNCHANGED <<victim, sessions, conns>>

(* What SETUP writes down when it has made a transport, and what its answer
   says (rtsp_demo.c:1021-1055). *)
ReadyFacts(c, t, rtp) ==
    /\ Ready(c, t, rtp) \in Connection
    /\ Ready(c, t, rtp).state \in {"READY", "PLAYING"}
    /\ Ready(c, t, rtp).session = cc[c].session
    /\ Ready(c, t, rtp).rtp = [cc[c].rtp EXCEPT ![t] = rtp]
    /\ told' \in [Client -> [id : Nat, rtp : [Track -> Transport]]]
    /\ \A d \in Client \ {c} : told'[d] = told[d]
    /\ told'[c].rtp = [told[c].rtp EXCEPT ![t] = rtp]
    /\ told'[c].id = Ready(c, t, rtp).session_id
    /\ ids' \in Nat

LEMMA ReadyAndTold ==
    ASSUME Types, NEW c \in Client, NEW t \in Track, NEW rtp \in Transport,
           cc[c].state # "closed", SetUp(c, t, rtp)
    PROVE  ReadyFacts(c, t, rtp)
<1>1. /\ cc[c] \in Connection /\ told[c] \in [id : Nat, rtp : [Track -> Transport]] /\ ids \in Nat
      /\ told \in [Client -> [id : Nat, rtp : [Track -> Transport]]]
  BY DEF Types
<1>2. [cc[c].rtp EXCEPT ![t] = rtp] \in [Track -> Transport]
  BY <1>1 DEF Connection
<1>3. /\ Ready(c, t, rtp) \in Connection
      /\ Ready(c, t, rtp).state \in {"READY", "PLAYING"}
      /\ Ready(c, t, rtp).session = cc[c].session
      /\ Ready(c, t, rtp).rtp = [cc[c].rtp EXCEPT ![t] = rtp]
      /\ Ready(c, t, rtp).session_id = IF cc[c].state = "INIT" THEN ids + 1 ELSE cc[c].session_id
  <2>1. CASE cc[c].state = "INIT"
    <3> DEFINE r == [cc[c].rtp EXCEPT ![t] = rtp]
               id == ids + 1
    <3>1. Ready(c, t, rtp) = [cc[c] EXCEPT !.rtp = r, !.state = "READY", !.session_id = id]
      BY <1>1, <2>1 DEF Ready, Connection
    <3>2. r \in [Track -> Transport] /\ id \in Nat
      BY <1>1, <1>2
    <3> HIDE DEF r, id
    <3>3. /\ Ready(c, t, rtp) \in Connection /\ Ready(c, t, rtp).state = "READY"
          /\ Ready(c, t, rtp).session = cc[c].session
          /\ Ready(c, t, rtp).rtp = r /\ Ready(c, t, rtp).session_id = id
      BY <1>1, <3>1, <3>2 DEF Connection
    <3> QED
      BY <2>1, <3>3 DEF r, id
  <2>2. CASE cc[c].state # "INIT"
    BY <1>1, <1>2, <2>2 DEF Ready, Connection
  <2> QED
    BY <2>1, <2>2
<1>4. /\ told' \in [Client -> [id : Nat, rtp : [Track -> Transport]]]
      /\ \A d \in Client \ {c} : told'[d] = told[d]
      /\ told'[c].rtp = [told[c].rtp EXCEPT ![t] = rtp]
      /\ told'[c].id = IF cc[c].state = "INIT" THEN ids + 1 ELSE cc[c].session_id
      /\ ids' \in Nat
  <2> DEFINE id == IF cc[c].state = "INIT" THEN ids + 1 ELSE cc[c].session_id
  <2>1. id \in Nat /\ ids' \in Nat
    BY <1>1 DEF SetUp, Connection
  <2>2. told' = [told EXCEPT ![c].rtp[t] = rtp, ![c].id = id]
    BY DEF SetUp
  <2> HIDE DEF id
  <2>3. [told[c].rtp EXCEPT ![t] = rtp] \in [Track -> Transport]
    BY <1>1
  <2>4. told' = [told EXCEPT ![c] = [told[c] EXCEPT !.rtp[t] = rtp, !.id = id]]
    BY <1>1, <2>2
  <2>5. /\ [told[c] EXCEPT !.rtp[t] = rtp, !.id = id] \in [id : Nat, rtp : [Track -> Transport]]
        /\ [told[c] EXCEPT !.rtp[t] = rtp, !.id = id].id = id
        /\ [told[c] EXCEPT !.rtp[t] = rtp, !.id = id].rtp = [told[c].rtp EXCEPT ![t] = rtp]
    BY <1>1, <2>1, <2>3
  <2>6. /\ told' \in [Client -> [id : Nat, rtp : [Track -> Transport]]]
        /\ \A d \in Client \ {c} : told'[d] = told[d]
        /\ told'[c].rtp = [told[c].rtp EXCEPT ![t] = rtp]
        /\ told'[c].id = id
    BY <1>1, <2>4, <2>5
  <2> QED
    BY <2>1, <2>6 DEF id
<1> QED
  BY <1>3, <1>4 DEF ReadyFacts

LEMMA RequestIsExchange ==
    ASSUME SessionInv, Request
    PROVE  \E c \in Client, s \in Path, new \in Connection, G \in SUBSET Track : Exchange(c, s, new, G)
<1>0. Types /\ Calls /\ Bindings /\ Promises
  BY DEF SessionInv
<1>1. PICK c \in Range(conns), path \in RequestPath, id \in 0 .. ids :
         /\ Served(c, path, id)
         /\ \/ Answer(c, SessionFor(c, path)) \/ PAUSE(c, SessionFor(c, path))
            \/ PLAY(c, SessionFor(c, path)) \/ SETUP(c, SessionFor(c, path), path)
            \/ TEARDOWN(c, SessionFor(c, path), path)
  BY DEF Request
<1> DEFINE s == SessionFor(c, path)
<1>2. c \in Client
  BY <1>0 DEF Types, Range
<1>3. /\ s \in Range(sessions) /\ s \in Path
      /\ cc[c].session # NoPath => s = cc[c].session
  BY <1>0, <1>1, <1>2, SessionForFacts DEF Served
<1>10. Answer(c, s) \/ PAUSE(c, s) \/ PLAY(c, s) \/ SETUP(c, s, path) \/ TEARDOWN(c, s, path)
  BY <1>1
<1> HIDE DEF s
<1>4. /\ cc[c] \in Connection /\ cc[c].state # "closed"
      /\ told[c] \in [id : Nat, rtp : [Track -> Transport]]
      /\ \A t \in Track : told[c].rtp[t] = cc[c].rtp[t]
      /\ cc[c].rtp # NoTracks => cc[c].state \in {"READY", "PLAYING"}
      /\ cc[c].state \in {"READY", "PLAYING"} => told[c].id = cc[c].session_id
      /\ ssrc \in Nat /\ ids \in Nat /\ phase = "idle" /\ UNCHANGED <<victim, sessions, conns>>
  BY <1>0, <1>1, <1>2 DEF Types, Bindings, Promises, Rtp, Request, Idle
<1>5. NoRtp \in Transport
  BY DEF NoRtp, Transport
<1>6. CASE Answer(c, s)
  <2>1. Exchange(c, s, cc[c], {})
    BY <1>0, <1>1, <1>2, <1>3, <1>4, <1>6 DEF Exchange, Answer, Types
  <2> QED
    BY <1>2, <1>3, <1>4, <2>1
<1>7. CASE PAUSE(c, s)
  <2> DEFINE new == [cc[c] EXCEPT !.state = "READY"]
  <2>1. /\ new \in Connection /\ new.state = "READY"
        /\ new.rtp = cc[c].rtp /\ new.session_id = cc[c].session_id
    BY <1>4 DEF Connection
  <2>2. Handled(c, s, new) /\ cc[c].state \in {"READY", "PLAYING"}
        /\ UNCHANGED <<phase, udp, ssrc, ids, told>>
    BY <1>7 DEF PAUSE
  <2> HIDE DEF new
  <2>3. Exchange(c, s, new, {})
    BY <1>0, <1>1, <1>2, <1>3, <1>4, <2>1, <2>2 DEF Exchange, Types
  <2> QED
    BY <1>2, <1>3, <2>1, <2>3
<1>8. CASE PLAY(c, s)
  <2> DEFINE new == [cc[c] EXCEPT !.state = "PLAYING"]
  <2>1. /\ new \in Connection /\ new.state = "PLAYING"
        /\ new.rtp = cc[c].rtp /\ new.session_id = cc[c].session_id
    BY <1>4 DEF Connection
  <2>2. Handled(c, s, new) /\ cc[c].state \in {"READY", "PLAYING"}
        /\ UNCHANGED <<phase, udp, ssrc, ids, told>>
    BY <1>8 DEF PLAY
  <2> HIDE DEF new
  <2>3. Exchange(c, s, new, {})
    BY <1>0, <1>1, <1>2, <1>3, <1>4, <2>1, <2>2 DEF Exchange, Types
  <2> QED
    BY <1>2, <1>3, <2>1, <2>3
<1>9. CASE SETUP(c, s, path)
  <2>1. PICK t \in Track : SETUP_NoMemory(c, s, t) \/ SETUP_Tcp(c, s, t) \/ SETUP_Udp(c, s, t)
    BY <1>0, <1>3, <1>9 DEF SETUP, TrackOf, Types
  <2>2. cc[c].rtp \in [Track -> Transport] /\ told[c].rtp \in [Track -> Transport]
    BY <1>4 DEF Connection
  <2>3. CASE SETUP_NoMemory(c, s, t)
    <3> DEFINE new == [cc[c] EXCEPT !.rtp[t] = NoRtp]
    <3>1. /\ new \in Connection /\ new.state = cc[c].state /\ new.session_id = cc[c].session_id
          /\ new.rtp = [cc[c].rtp EXCEPT ![t] = NoRtp]
      BY <1>4, <1>5, <2>2 DEF Connection
    <3>2. /\ Handled(c, s, new) /\ udp' = udp \ PortsOf(cc[c].rtp[t])
          /\ told' = [told EXCEPT ![c].rtp[t] = NoRtp]
          /\ UNCHANGED <<phase, ssrc, ids>>
      BY <2>3 DEF SETUP_NoMemory
    <3>3. new.rtp # NoTracks => cc[c].rtp # NoTracks
      BY <2>2, <3>1 DEF NoTracks
    <3>4. /\ told' \in [Client -> [id : Nat, rtp : [Track -> Transport]]]
          /\ \A d \in Client \ {c} : told'[d] = told[d]
          /\ told'[c].id = told[c].id
          /\ told'[c].rtp = [told[c].rtp EXCEPT ![t] = NoRtp]
      BY <1>0, <1>2, <1>5, <2>2, <3>2 DEF Types
    <3>5. \A u \in Track : told'[c].rtp[u] = new.rtp[u]
      BY <1>4, <2>2, <3>1, <3>4
    <3> HIDE DEF new
    <3>6. UNION {PortsOf(cc[c].rtp[u]) : u \in {t}} = PortsOf(cc[c].rtp[t])
      OBVIOUS
    <3>7. /\ \A u \in {t} : new.rtp[u].port = 0
          /\ \A u \in Track \ {t} : new.rtp[u] = cc[c].rtp[u]
      BY <2>2, <3>1 DEF NoRtp
    <3>8. Exchange(c, s, new, {t})
      BY <1>1, <1>3, <1>4, <3>1, <3>2, <3>3, <3>4, <3>5, <3>6, <3>7 DEF Exchange
    <3> QED
      BY <1>2, <1>3, <3>1, <3>8
  <2>4. CASE SETUP_Tcp(c, s, t)
    <3> DEFINE rtp == [tcp |-> TRUE, port |-> 0, ssrc |-> ssrc + 1]
               new == Ready(c, t, rtp)
    <3>1. rtp \in Transport /\ rtp.port = 0
      BY <1>4 DEF Transport
    <3>2. /\ Handled(c, s, new) /\ udp' = udp \ PortsOf(cc[c].rtp[t])
          /\ SetUp(c, t, rtp) /\ ssrc' = ssrc + 1 /\ UNCHANGED phase
      BY <2>4 DEF SETUP_Tcp
    <3> HIDE DEF rtp
    <3>3. ReadyFacts(c, t, rtp)
      BY <1>0, <1>2, <1>4, <3>1, <3>2, ReadyAndTold DEF SessionInv
    <3>4. UNION {PortsOf(cc[c].rtp[u]) : u \in {t}} = PortsOf(cc[c].rtp[t])
      OBVIOUS
    <3> HIDE DEF new
    <3>5. /\ \A u \in {t} : new.rtp[u].port = 0
          /\ \A u \in Track \ {t} : new.rtp[u] = cc[c].rtp[u]
      BY <2>2, <3>1, <3>3 DEF ReadyFacts, new
    <3>6. Exchange(c, s, new, {t})
      <4>1. \A u \in Track : told'[c].rtp[u] = new.rtp[u]
        BY <1>4, <2>2, <3>3 DEF ReadyFacts, new
      <4>2. /\ new \in Connection /\ new.state \in {"READY", "PLAYING"}
            /\ told' \in [Client -> [id : Nat, rtp : [Track -> Transport]]]
            /\ \A d \in Client \ {c} : told'[d] = told[d]
            /\ told'[c].id = new.session_id
            /\ ids' \in Nat
        BY <3>3 DEF ReadyFacts, new
      <4> QED
        BY <1>1, <1>3, <1>4, <3>2, <3>4, <3>5, <4>1, <4>2 DEF Exchange
    <3> QED
      BY <1>2, <1>3, <3>3, <3>6 DEF ReadyFacts, new
  <2>5. CASE SETUP_Udp(c, s, t)
    <3> DEFINE new == [cc[c] EXCEPT !.rtp[t] = NoRtp]
    <3>1. /\ new \in Connection /\ new.state = cc[c].state /\ new.session_id = cc[c].session_id
          /\ new.rtp = [cc[c].rtp EXCEPT ![t] = NoRtp]
      BY <1>4, <1>5, <2>2 DEF Connection
    <3>2. /\ Handled(c, s, new) /\ udp' = udp \ PortsOf(cc[c].rtp[t])
          /\ phase' = "search" /\ job' = <<c, t, FirstPort>> /\ ssrc' = ssrc + 1
          /\ UNCHANGED <<ids, told>>
      BY <2>5 DEF SETUP_Udp
    <3>3. new.rtp # NoTracks => cc[c].rtp # NoTracks
      BY <2>2, <3>1 DEF NoTracks
    <3>4. \A u \in Track : told'[c].rtp[u] = new.rtp[u] \/ job'[2] = u
      BY <1>4, <2>2, <3>1, <3>2
    <3>5. UNION {PortsOf(cc[c].rtp[u]) : u \in {t}} = PortsOf(cc[c].rtp[t])
      OBVIOUS
    <3> HIDE DEF new
    <3>6. /\ \A u \in {t} : new.rtp[u].port = 0
          /\ \A u \in Track \ {t} : new.rtp[u] = cc[c].rtp[u]
          /\ new.rtp[t] = NoRtp
      BY <2>2, <3>1 DEF NoRtp
    <3>7. told' \in [Client -> [id : Nat, rtp : [Track -> Transport]]]
      BY <1>0, <3>2 DEF Types
    <3>8. Exchange(c, s, new, {t})
      BY <1>1, <1>3, <1>4, <3>1, <3>2, <3>3, <3>4, <3>5, <3>6, <3>7 DEF Exchange
    <3> QED
      BY <1>2, <1>3, <3>1, <3>8
  <2> QED
    BY <2>1, <2>3, <2>4, <2>5
<1>11. CASE TEARDOWN(c, s, path)
  <2> DEFINE G == TornDown(s, path)
             left(rtp) == [t \in Track |-> IF t \in G THEN NoRtp ELSE rtp[t]]
             new == [cc[c] EXCEPT !.rtp = left(@), !.state = StateWith(@, left(cc[c].rtp))]
  <2>1. G \in SUBSET Track
    BY DEF TornDown
  <2>2. /\ udp' = udp \ UNION {PortsOf(cc[c].rtp[t]) : t \in G}
        /\ Handled(c, s, new)
        /\ told' = [told EXCEPT ![c].rtp = left(@)]
        /\ UNCHANGED <<phase, job, ssrc, ids>>
    BY <1>11 DEF TEARDOWN
  <2> HIDE DEF G
  <2>3. cc[c].rtp \in [Track -> Transport] /\ told[c].rtp \in [Track -> Transport]
    BY <1>4 DEF Connection
  <2>4. left(cc[c].rtp) \in [Track -> Transport] /\ left(told[c].rtp) = left(cc[c].rtp)
    BY <1>4, <1>5, <2>3
  <2>5. /\ new \in Connection /\ new.rtp = left(cc[c].rtp) /\ new.session_id = cc[c].session_id
        /\ new.state = StateWith(cc[c].state, left(cc[c].rtp))
    BY <1>4, <2>4 DEF Connection, StateWith
  <2>6. left(cc[c].rtp) # NoTracks => cc[c].rtp # NoTracks
    BY <2>3 DEF NoTracks
  <2>7. /\ told' \in [Client -> [id : Nat, rtp : [Track -> Transport]]]
        /\ \A d \in Client \ {c} : told'[d] = told[d]
        /\ told'[c].id = told[c].id
        /\ told'[c].rtp = left(told[c].rtp)
    <3> DEFINE x == left(told[c].rtp)
    <3>1. told' = [told EXCEPT ![c].rtp = x] /\ x \in [Track -> Transport]
      BY <2>2, <2>4
    <3>2. told \in [Client -> [id : Nat, rtp : [Track -> Transport]]] /\ c \in Client
      BY <1>0, <1>2 DEF Types
    <3> HIDE DEF x
    <3>3. /\ told' \in [Client -> [id : Nat, rtp : [Track -> Transport]]]
          /\ \A d \in Client \ {c} : told'[d] = told[d]
      BY <3>1, <3>2
    <3>4. told'[c].id = told[c].id /\ told'[c].rtp = x
      BY <3>1, <3>2
    <3> QED
      BY <3>3, <3>4 DEF x
  <2>8. /\ \A t \in G : new.rtp[t].port = 0
        /\ \A t \in Track \ G : new.rtp[t] = cc[c].rtp[t]
    BY <2>1, <2>5 DEF NoRtp
  <2>9. /\ new.state # "closed"
        /\ new.rtp # NoTracks => new.state \in {"READY", "PLAYING"}
        /\ new.state \in {"READY", "PLAYING"} => new.state = cc[c].state
    BY <1>4, <2>5, <2>6 DEF StateWith
  <2> HIDE DEF left
  <2>10. \A t \in Track : told'[c].rtp[t] = new.rtp[t]
    BY <2>4, <2>5, <2>7
  <2> HIDE DEF new
  <2>11. Exchange(c, s, new, G)
    BY <1>1, <1>3, <1>4, <2>2, <2>5, <2>7, <2>8, <2>9, <2>10 DEF Exchange
  <2> QED
    BY <1>2, <1>3, <2>1, <2>5, <2>11
<1> QED
  BY <1>10, <1>6, <1>7, <1>8, <1>9, <1>11

-----------------------------------------------------------------------------
(* Closing the sockets of some tracks of one connection, and of no other. *)
LEMMA SocketsClosed ==
    ASSUME Owned, NEW c \in Client, NEW G \in SUBSET Track,
           udp' = udp \ UNION {PortsOf(cc[c].rtp[t]) : t \in G},
           \A t \in G : cc'[c].rtp[t].port = 0,
           \A t \in Track \ G : cc'[c].rtp[t] = cc[c].rtp[t],
           \A d \in Client \ {c} : cc'[d].rtp = cc[d].rtp
    PROVE  Owned'
<1>1. \A t \in G : PortsOf(cc'[c].rtp[t]) = {}
  BY DEF PortsOf
<1>2. \A d \in Client, t \in Track : PortsOf(cc'[d].rtp[t]) = {} \/ cc'[d].rtp[t] = cc[d].rtp[t]
  BY <1>1
<1>3. \A d \in Client, t \in Track : ~(d = c /\ t \in G) => cc'[d].rtp[t] = cc[d].rtp[t]
  OBVIOUS
<1>4. ASSUME NEW n \in udp' PROVE \E d \in Client, t \in Track : n \in PortsOf(cc'[d].rtp[t])
  <2>1. PICK d \in Client, t \in Track : n \in PortsOf(cc[d].rtp[t])
    BY DEF Owned, Rtp
  <2>2. ~(d = c /\ t \in G)
    BY <2>1
  <2> QED
    BY <1>3, <2>1, <2>2
<1>5. ASSUME NEW d \in Client, NEW t \in Track PROVE PortsOf(cc'[d].rtp[t]) \subseteq udp'
  <2>1. CASE d = c /\ t \in G
    BY <1>1, <2>1
  <2>2. CASE ~(d = c /\ t \in G)
    <3>1. cc'[d].rtp[t] = cc[d].rtp[t] /\ PortsOf(cc[d].rtp[t]) \subseteq udp
      BY <1>3, <2>2 DEF Owned, Rtp
    <3>2. \A u \in G : PortsOf(cc[d].rtp[t]) \cap PortsOf(cc[c].rtp[u]) = {}
      BY <2>2 DEF Owned, Rtp
    <3> QED
      BY <3>1, <3>2
  <2> QED
    BY <2>1, <2>2
<1>6. \A d \in Client, t \in Track : Usable(cc'[d].rtp[t].port)
  BY <1>3 DEF Owned, Rtp, Usable
<1>7. \A c1, c2 \in Client, t1, t2 \in Track :
         c1 # c2 \/ t1 # t2 => PortsOf(cc'[c1].rtp[t1]) \cap PortsOf(cc'[c2].rtp[t2]) = {}
  BY <1>2 DEF Owned, Rtp
<1> QED
  BY <1>4, <1>5, <1>6, <1>7 DEF Owned, Rtp

(* A connection that is new keeps its session or is bound to one: both lists
   know it (rtsp_demo.c:225-240). *)
LEMMA HandledKeepsBindings ==
    ASSUME Types, Bindings, NEW c \in Client, NEW s \in Path, NEW new \in Connection,
           c \in Range(conns), s \in Range(sessions),
           cc[c].session # NoPath => s = cc[c].session,
           new.state # "closed", Handled(c, s, new), UNCHANGED <<sessions, conns>>
    PROVE  /\ Bindings'
           /\ sess' \in [Path -> [tracks : SUBSET Track, conns : Seq(Client)]]
           /\ cc' \in [Client -> Connection]
           /\ \A d \in Client \ {c} : cc'[d] = cc[d]
           /\ cc'[c].state = new.state /\ cc'[c].session_id = new.session_id /\ cc'[c].rtp = new.rtp
<1>1. /\ cc' \in [Client -> Connection] /\ \A d \in Client \ {c} : cc'[d] = cc[d]
      /\ cc'[c].state = new.state /\ cc'[c].session_id = new.session_id /\ cc'[c].rtp = new.rtp
      /\ cc'[c].session = s
  BY DEF Handled, Types, Connection
<1>2. CASE cc[c].session # NoPath
  <2>1. sess' = sess /\ cc'[c].session = cc[c].session
    BY <1>1, <1>2 DEF Handled
  <2>2. Bindings'
    BY <1>1, <2>1 DEF Bindings
  <2> QED
    BY <1>1, <2>1, <2>2 DEF Types
<1>3. CASE cc[c].session = NoPath
  <2>1. sess' = [sess EXCEPT ![s].conns = Append(@, c)]
    BY <1>3 DEF Handled
  <2>2. sess[s].conns \in Seq(Client) /\ sess[s] \in [tracks : SUBSET Track, conns : Seq(Client)]
    BY DEF Types
  <2>3. c \notin Range(sess[s].conns) /\ IsInjective(sess[s].conns) /\ s # NoPath
    BY <1>3, PathAssumption DEF Bindings, NoPath
  <2>4. /\ Append(sess[s].conns, c) \in Seq(Client) /\ IsInjective(Append(sess[s].conns, c))
        /\ Range(Append(sess[s].conns, c)) = Range(sess[s].conns) \cup {c}
    <3>1. \A q : ToSet(q) = Range(q)
      BY DEF ToSet, Range
    <3>2. /\ Append(sess[s].conns, c) \in Seq(Client)
          /\ ToSet(Append(sess[s].conns, c)) = ToSet(sess[s].conns) \cup {c}
          /\ c \notin ToSet(sess[s].conns) => IsInjective(Append(sess[s].conns, c))
      BY <2>2, <2>3, AddLast
    <3> QED
      BY <2>3, <3>1, <3>2
  <2>5. /\ sess' \in [Path -> [tracks : SUBSET Track, conns : Seq(Client)]]
        /\ sess'[s].conns = Append(sess[s].conns, c)
        /\ \A p \in Path \ {s} : sess'[p] = sess[p]
    BY <2>1, <2>2, <2>4 DEF Types
  <2>6. Bindings'
    <3>1. ASSUME NEW d \in Client, NEW p \in Path
          PROVE  cc'[d].session = p <=> d \in Range(sess'[p].conns)
      <4>1. p # NoPath /\ (cc[d].session = p <=> d \in Range(sess[p].conns))
        BY PathAssumption DEF Bindings, NoPath
      <4>2. CASE d = c /\ p = s
        BY <1>1, <2>4, <2>5, <4>2
      <4>3. CASE d = c /\ p # s
        BY <1>1, <1>3, <2>5, <4>1, <4>3
      <4>4. CASE d # c /\ p = s
        BY <1>1, <2>4, <2>5, <4>1, <4>4
      <4>5. CASE d # c /\ p # s
        BY <1>1, <2>5, <4>1, <4>5
      <4> QED
        BY <4>2, <4>3, <4>4, <4>5
    <3>2. \A p \in Path : IsInjective(sess'[p].conns)
      BY <2>4, <2>5 DEF Bindings
    <3>3. \A d \in Client : cc'[d].session # NoPath => cc'[d].session \in Range(sessions')
      BY <1>1 DEF Bindings
    <3>4. IsInjective(conns') /\ \A d \in Client : d \in Range(conns') <=> cc'[d].state # "closed"
      BY <1>1 DEF Bindings
    <3> QED
      BY <3>1, <3>2, <3>3, <3>4 DEF Bindings
  <2> QED
    BY <1>1, <2>5, <2>6
<1> QED
  BY <1>2, <1>3

LEMMA ExchangeKeepsInv ==
    ASSUME SessionInv, phase = "idle", victim = NoPath,
           NEW c \in Client, NEW s \in Path, NEW new \in Connection, NEW G \in SUBSET Track,
           Exchange(c, s, new, G)
    PROVE  SessionInv'
<1>1. /\ Bindings'
      /\ sess' \in [Path -> [tracks : SUBSET Track, conns : Seq(Client)]]
      /\ cc' \in [Client -> Connection]
      /\ \A d \in Client \ {c} : cc'[d] = cc[d]
      /\ cc'[c].state = new.state /\ cc'[c].session_id = new.session_id /\ cc'[c].rtp = new.rtp
  BY HandledKeepsBindings DEF Exchange, SessionInv
<1>2. Types'
  BY <1>1 DEF SessionInv, Types, Exchange
<1>3. Owned'
  <2>1. Owned /\ udp' = udp \ UNION {PortsOf(cc[c].rtp[t]) : t \in G}
    BY DEF SessionInv, Sockets, Exchange
  <2>2. /\ \A t \in G : cc'[c].rtp[t].port = 0
        /\ \A t \in Track \ G : cc'[c].rtp[t] = cc[c].rtp[t]
        /\ \A d \in Client \ {c} : cc'[d].rtp = cc[d].rtp
    BY <1>1 DEF Exchange
  <2> QED
    BY <2>1, <2>2, SocketsClosed
<1>4. Calls'
  BY <1>1, PortAssumption DEF Exchange, Calls
<1>5. Sockets'
  BY <1>1, <1>3 DEF Sockets, Exchange, Rtp
<1>6. Promises'
  <2> SUFFICES ASSUME NEW d \in Client
               PROVE  /\ \A t \in Track :
                            \/ told'[d].rtp[t] = cc'[d].rtp[t]
                            \/ phase' = "search" /\ job'[1] = d /\ job'[2] = t
                      /\ cc'[d].rtp # NoTracks => cc'[d].state \in {"READY", "PLAYING"}
                      /\ cc'[d].state \in {"READY", "PLAYING"} => told'[d].id = cc'[d].session_id
    BY DEF Promises, Rtp
  <2>1. CASE d = c
    BY <1>1, <2>1 DEF Exchange
  <2>2. CASE d # c
    BY <1>1, <2>2 DEF Exchange, SessionInv, Promises, Rtp
  <2> QED
    BY <2>1, <2>2
<1> QED
  BY <1>1, <1>2, <1>4, <1>5, <1>6 DEF SessionInv

-----------------------------------------------------------------------------
(* Deleting a connection takes it out of both lists and closes all its
   sockets (rtsp_demo.c:205-223, 435-449). *)
LEMMA DelClientKeepsInv ==
    ASSUME SessionInv, phase \notin {"search", "gone"},
           NEW c \in Client, DelClient(c)
    PROVE  SessionInv'
<1>0. Types /\ Calls /\ Bindings /\ Owned /\ Promises
  BY DEF SessionInv, Sockets
<1>1. Closed \in Connection /\ ToldNothing \in [id : Nat, rtp : [Track -> Transport]]
      /\ Closed.rtp = NoTracks /\ ToldNothing.rtp = NoTracks /\ Closed.state = "closed"
      /\ Closed.session = NoPath /\ (\A t \in Track : NoTracks[t] = NoRtp /\ NoTracks[t].port = 0)
  BY DEF Closed, Connection, ToldNothing, NoTracks, NoRtp, Transport
<1>2. /\ cc' \in [Client -> Connection] /\ cc'[c] = Closed /\ \A d \in Client \ {c} : cc'[d] = cc[d]
      /\ told' \in [Client -> [id : Nat, rtp : [Track -> Transport]]]
      /\ told'[c] = ToldNothing /\ \A d \in Client \ {c} : told'[d] = told[d]
      /\ UNCHANGED <<phase, victim, sessions, job, ssrc, ids>>
      /\ conns' = RemoveFirst(conns, c)
  BY <1>0, <1>1 DEF DelClient, Types
<1>3. conns' \in Seq(Client) /\ IsInjective(conns') /\ Range(conns') = Range(conns) \ {c}
  BY <1>0, <1>2, RemoveEntry DEF Types, Bindings
<1>4. \A p \in Path :
         /\ sess'[p] \in [tracks : SUBSET Track, conns : Seq(Client)]
         /\ IsInjective(sess'[p].conns)
         /\ Range(sess'[p].conns) = Range(sess[p].conns) \ {c}
  <2> SUFFICES ASSUME NEW p \in Path
               PROVE  /\ sess'[p] \in [tracks : SUBSET Track, conns : Seq(Client)]
                      /\ IsInjective(sess'[p].conns)
                      /\ Range(sess'[p].conns) = Range(sess[p].conns) \ {c}
    OBVIOUS
  <2>1. sess[p] \in [tracks : SUBSET Track, conns : Seq(Client)] /\ IsInjective(sess[p].conns)
    BY <1>0 DEF Types, Bindings
  <2>2. CASE p = cc[c].session
    <3>1. sess'[p] = [sess[p] EXCEPT !.conns = RemoveFirst(@, c)]
      BY <2>2 DEF DelClient
    <3>2. /\ RemoveFirst(sess[p].conns, c) \in Seq(Client)
          /\ IsInjective(RemoveFirst(sess[p].conns, c))
          /\ Range(RemoveFirst(sess[p].conns, c)) = Range(sess[p].conns) \ {c}
      BY <2>1, RemoveEntry
    <3> QED
      BY <2>1, <3>1, <3>2
  <2>3. CASE p # cc[c].session
    <3>1. sess'[p] = sess[p] /\ c \notin Range(sess[p].conns)
      BY <1>0, <2>3 DEF DelClient, Bindings
    <3> QED
      BY <2>1, <3>1
  <2> QED
    BY <2>2, <2>3
<1>5. sess' \in [Path -> [tracks : SUBSET Track, conns : Seq(Client)]]
  BY <1>4 DEF DelClient
<1>6. Types'
  BY <1>0, <1>2, <1>3, <1>5 DEF Types
<1>7. Calls'
  BY <1>2 DEF Calls
<1>8. Bindings'
  <2>1. ASSUME NEW d \in Client, NEW p \in Path
        PROVE  cc'[d].session = p <=> d \in Range(sess'[p].conns)
    <3>1. p # NoPath /\ (cc[d].session = p <=> d \in Range(sess[p].conns))
      BY <1>0, PathAssumption DEF Bindings, NoPath
    <3>2. CASE d = c
      BY <1>1, <1>2, <1>4, <3>1, <3>2
    <3>3. CASE d # c
      BY <1>2, <1>4, <3>1, <3>3
    <3> QED
      BY <3>2, <3>3
  <2>2. \A d \in Client : cc'[d].session # NoPath => cc'[d].session \in Range(sessions')
    BY <1>0, <1>1, <1>2 DEF Bindings
  <2>3. \A d \in Client : d \in Range(conns') <=> cc'[d].state # "closed"
    BY <1>0, <1>1, <1>2, <1>3 DEF Bindings
  <2> QED
    BY <1>3, <1>4, <2>1, <2>2, <2>3 DEF Bindings
<1>9. Sockets'
  <2>1. udp' = udp \ UNION {PortsOf(cc[c].rtp[t]) : t \in Track}
    BY DEF DelClient, Rtp
  <2>2. Owned'
    <3>1. /\ \A t \in Track : cc'[c].rtp[t].port = 0
          /\ \A t \in Track \ Track : cc'[c].rtp[t] = cc[c].rtp[t]
          /\ \A d \in Client \ {c} : cc'[d].rtp = cc[d].rtp
      BY <1>1, <1>2
    <3> QED
      BY <1>0, <2>1, <3>1, SocketsClosed
  <2> QED
    BY <1>2, <2>2 DEF Sockets
<1>10. Promises'
  <2> SUFFICES ASSUME NEW d \in Client
               PROVE  /\ \A t \in Track : told'[d].rtp[t] = cc'[d].rtp[t]
                      /\ cc'[d].rtp # NoTracks => cc'[d].state \in {"READY", "PLAYING"}
                      /\ cc'[d].state \in {"READY", "PLAYING"} => told'[d].id = cc'[d].session_id
    BY DEF Promises, Rtp
  <2>1. CASE d = c
    BY <1>1, <1>2, <2>1
  <2>2. CASE d # c
    BY <1>0, <1>2, <2>2 DEF Promises, Rtp
  <2> QED
    BY <2>1, <2>2
<1> QED
  BY <1>6, <1>7, <1>8, <1>9, <1>10 DEF SessionInv

-----------------------------------------------------------------------------
(* The pair the search found is bound for the track it is for, and for no
   other (rtsp_demo.c:823-915). *)
LEMMA SearchBoundKeepsInv ==
    ASSUME SessionInv, SearchBound
    PROVE  SessionInv'
<1>0. Types /\ Calls /\ Bindings /\ Owned /\ Promises
  BY DEF SessionInv, Sockets
<1> DEFINE c == job[1]
           t == job[2]
           port == job[3]
           rtp == [tcp |-> FALSE, port |-> port, ssrc |-> ssrc]
<1>1. /\ phase = "search" /\ {port, port + 1} \cap udp = {}
      /\ udp' = udp \cup {port, port + 1}
      /\ cc' = [cc EXCEPT ![c] = Ready(c, t, rtp)]
      /\ SetUp(c, t, rtp)
      /\ phase' = "idle" /\ UNCHANGED <<victim, sessions, sess, conns, ssrc>>
  BY DEF SearchBound, EndSearch
<1>2. /\ c \in Client /\ t \in Track /\ port \in FirstPort .. LastPort - 1
      /\ cc[c].state # "closed" /\ victim = NoPath /\ Rtp(c, t) = NoRtp
  BY <1>0, <1>1 DEF Calls, SessionInv, Sockets
<1>3. port \in Nat /\ port # 0 /\ port + 1 \in Nat
  BY <1>2, PortAssumption
<1> HIDE DEF c, t, port
<1>4. rtp \in Transport /\ rtp.port = port
  BY <1>0, <1>3 DEF Transport, Types
<1> HIDE DEF rtp
<1>5. ReadyFacts(c, t, rtp)
  BY <1>0, <1>1, <1>2, <1>4, ReadyAndTold
<1>6. /\ cc' \in [Client -> Connection] /\ \A d \in Client \ {c} : cc'[d] = cc[d]
      /\ cc'[c].state \in {"READY", "PLAYING"} /\ cc'[c].session = cc[c].session
      /\ cc'[c].rtp = [cc[c].rtp EXCEPT ![t] = rtp] /\ cc'[c].session_id = told'[c].id
  BY <1>0, <1>1, <1>2, <1>5 DEF ReadyFacts, Types
<1>7. Types' /\ Calls' /\ Bindings'
  <2>1. Types'
    BY <1>0, <1>1, <1>5, <1>6 DEF Types, ReadyFacts
  <2>2. Calls'
    BY <1>1, <1>2 DEF Calls
  <2>3. Bindings'
    BY <1>0, <1>1, <1>2, <1>6 DEF Bindings
  <2> QED
    BY <2>1, <2>2, <2>3
<1>8. cc[c].rtp \in [Track -> Transport]
  BY <1>0, <1>2 DEF Types, Connection
<1>9. \A d \in Client, u \in Track : (d # c \/ u # t) => cc'[d].rtp[u] = cc[d].rtp[u]
  BY <1>6, <1>8
<1>10. cc'[c].rtp[t] = rtp /\ PortsOf(cc'[c].rtp[t]) = {port, port + 1} /\ PortsOf(cc[c].rtp[t]) = {}
  BY <1>2, <1>3, <1>4, <1>6, <1>8 DEF PortsOf, Rtp, NoRtp
<1>11. Owned'
  <2>1. ASSUME NEW n \in udp' PROVE \E d \in Client, u \in Track : n \in PortsOf(cc'[d].rtp[u])
    <3>1. CASE n \in {port, port + 1}
      BY <1>2, <1>10, <3>1
    <3>2. CASE n \in udp
      <4>1. PICK d \in Client, u \in Track : n \in PortsOf(cc[d].rtp[u])
        BY <1>0, <3>2 DEF Owned, Rtp
      <4>2. d # c \/ u # t
        BY <1>10, <4>1
      <4> QED
        BY <1>9, <4>1, <4>2
    <3> QED
      BY <1>1, <3>1, <3>2
  <2>2. ASSUME NEW d \in Client, NEW u \in Track
        PROVE  PortsOf(cc'[d].rtp[u]) \subseteq udp' /\ Usable(cc'[d].rtp[u].port)
    <3>1. CASE d = c /\ u = t
      BY <1>1, <1>2, <1>4, <1>10, <3>1 DEF Usable
    <3>2. CASE d # c \/ u # t
      BY <1>0, <1>1, <1>9, <3>2 DEF Owned, Rtp
    <3> QED
      BY <3>1, <3>2
  <2>3. \A d \in Client, u \in Track :
           (d # c \/ u # t) => PortsOf(cc'[d].rtp[u]) \cap PortsOf(cc'[c].rtp[t]) = {}
    BY <1>0, <1>1, <1>9, <1>10 DEF Owned, Rtp
  <2>4. \A c1, c2 \in Client, t1, t2 \in Track :
           c1 # c2 \/ t1 # t2 => PortsOf(cc'[c1].rtp[t1]) \cap PortsOf(cc'[c2].rtp[t2]) = {}
    <3> SUFFICES ASSUME NEW c1 \in Client, NEW c2 \in Client, NEW t1 \in Track, NEW t2 \in Track,
                        c1 # c2 \/ t1 # t2
                 PROVE  PortsOf(cc'[c1].rtp[t1]) \cap PortsOf(cc'[c2].rtp[t2]) = {}
      OBVIOUS
    <3>1. CASE c1 = c /\ t1 = t
      BY <2>3, <3>1
    <3>2. CASE c2 = c /\ t2 = t
      BY <2>3, <3>2
    <3>3. CASE (c1 # c \/ t1 # t) /\ (c2 # c \/ t2 # t)
      BY <1>0, <1>9, <3>3 DEF Owned, Rtp
    <3> QED
      BY <3>1, <3>2, <3>3
  <2> QED
    BY <2>1, <2>2, <2>4 DEF Owned, Rtp
<1>12. Sockets'
  BY <1>1, <1>11 DEF Sockets
<1>13. Promises'
  <2> SUFFICES ASSUME NEW d \in Client
               PROVE  /\ \A u \in Track : told'[d].rtp[u] = cc'[d].rtp[u]
                      /\ cc'[d].rtp # NoTracks => cc'[d].state \in {"READY", "PLAYING"}
                      /\ cc'[d].state \in {"READY", "PLAYING"} => told'[d].id = cc'[d].session_id
    BY DEF Promises, Rtp
  <2>1. CASE d = c
    <3>1. told[c].rtp \in [Track -> Transport] /\ told'[c].rtp = [told[c].rtp EXCEPT ![t] = rtp]
      BY <1>0, <1>2, <1>5 DEF Types, ReadyFacts
    <3>2. \A u \in Track \ {t} : told[c].rtp[u] = cc[c].rtp[u]
      BY <1>0, <1>2 DEF Promises, Rtp, t
    <3> QED
      BY <1>6, <1>8, <2>1, <3>1, <3>2
  <2>2. CASE d # c
    BY <1>0, <1>5, <1>6, <2>2 DEF Promises, Rtp, ReadyFacts, c
  <2> QED
    BY <2>1, <2>2
<1> QED
  BY <1>7, <1>12, <1>13 DEF SessionInv

-----------------------------------------------------------------------------
LEMMA InitSessionInv == Init => SessionInv
<1> SUFFICES ASSUME Init PROVE SessionInv
  OBVIOUS
<1>1. /\ Closed \in Connection /\ ToldNothing \in [id : Nat, rtp : [Track -> Transport]]
      /\ Closed.rtp = NoTracks /\ ToldNothing.rtp = NoTracks /\ Closed.state = "closed"
      /\ Closed.session = NoPath /\ (\A t \in Track : NoTracks[t] = NoRtp /\ NoTracks[t].port = 0)
  BY DEF Closed, Connection, ToldNothing, NoTracks, NoRtp, Transport
<1>2. NoSession \in [tracks : SUBSET Track, conns : Seq(Client)]
  BY DEF NoSession
<1>3. Types
  BY <1>1, <1>2 DEF Init, Types
<1>4. Calls
  BY DEF Init, Calls
<1>5. Range(<<>>) = {} /\ IsInjective(<<>>)
  BY DEF Range, IsInjective
<1>6. \A p \in Path : p # NoPath
  BY PathAssumption DEF NoPath
<1>7. Bindings
  BY <1>1, <1>5, <1>6 DEF Init, Bindings, NoSession
<1>8. Owned
  BY <1>1 DEF Init, Owned, Rtp, PortsOf, Usable
<1>9. Sockets
  BY <1>8 DEF Init, Sockets
<1>10. Promises
  BY <1>1 DEF Init, Promises, Rtp
<1> QED
  BY <1>3, <1>4, <1>7, <1>9, <1>10 DEF SessionInv

(* A step that leaves connections, sockets and answers alone. *)
LEMMA ConnectionsUntouched ==
    ASSUME SessionInv, UNCHANGED <<cc, udp, told>>,
           phase = "search" => phase' = "search" /\ UNCHANGED <<job>>,
           phase' = "search" => phase = "search"
    PROVE  Sockets' /\ Promises'
<1>1. Owned'
  BY DEF SessionInv, Sockets, Owned, Rtp
<1>2. Sockets'
  BY <1>1 DEF SessionInv, Sockets, Rtp
<1>3. Promises'
  BY DEF SessionInv, Promises, Rtp
<1> QED
  BY <1>2, <1>3

(* No step leaves a connection and a session with a different idea of each
   other, a socket without a track, or an answer that does not hold. *)
LEMMA StepSessionInv == SessionInv /\ [Next]_vars => SessionInv'
<1> SUFFICES ASSUME SessionInv, [Next]_vars PROVE SessionInv'
  OBVIOUS
<1>0. Types /\ Calls /\ Bindings /\ Sockets /\ Owned /\ Promises
  BY DEF SessionInv, Sockets
<1>1. CASE NewDemo \/ DelDemo \/ DelSession \/ DelDemoSession \/ FreeDemo
  <2> USE <1>1 DEF NewDemo, DelDemo, DelSession, DelDemoSession, FreeDemo, Idle, DemoEmpty
  <2>1. /\ UNCHANGED <<sessions, sess, conns, cc, job, udp, ssrc, ids, told>>
        /\ phase # "search" /\ phase' # "search"
        /\ phase' \in {"none", "idle", "delDemo", "gone"}
        /\ victim' = victim \/ victim' \in Range(sessions)
        /\ phase' = "gone" => phase' = phase \/ (conns = <<>> /\ victim = NoPath /\ victim' = victim)
        /\ phase' = "gone" /\ phase' = phase => victim' = victim
    <3>1. sessions # <<>> => Head(sessions) \in Range(sessions)
      <4>1. sessions # <<>> => 1 \in DOMAIN sessions /\ Head(sessions) = sessions[1]
        BY <1>0 DEF Types
      <4> QED
        BY <4>1 DEF Range
    <3> QED
      BY <1>0, <3>1 DEF Calls
  <2>2. Range(sessions) \subseteq Path
    BY <1>0 DEF Types, Range
  <2>3. Types'
    BY <1>0, <2>1, <2>2 DEF Types
  <2>4. Calls'
    BY <1>0, <2>1 DEF Calls
  <2>5. Bindings'
    BY <1>0, <2>1 DEF Bindings
  <2>6. Sockets' /\ Promises'
    BY <2>1, ConnectionsUntouched
  <2> QED
    BY <2>3, <2>4, <2>5, <2>6 DEF SessionInv
<1>2. CASE NewSession
  <2>1. /\ UNCHANGED <<phase, victim, sess, conns, cc, job, udp, ssrc, ids, told>> /\ phase = "idle"
    BY <1>2 DEF NewSession, Idle
  <2>2. PICK p \in Path : sessions' = sessions \/ sessions' = Append(sessions, p)
    BY <1>2 DEF NewSession
  <2>3. sessions' \in Seq(Path) /\ Range(sessions) \subseteq Range(sessions')
    <3>1. sessions \in Seq(Path) /\ \A q : ToSet(q) = Range(q)
      BY <1>0 DEF Types, ToSet, Range
    <3>2. Append(sessions, p) \in Seq(Path) /\ ToSet(Append(sessions, p)) = ToSet(sessions) \cup {p}
      BY <3>1, AddLast
    <3> QED
      BY <2>2, <3>1, <3>2
  <2>4. Types' /\ Calls'
    BY <1>0, <2>1, <2>3 DEF Types, Calls
  <2>5. Bindings'
    BY <1>0, <2>1, <2>3 DEF Bindings
  <2>6. Sockets' /\ Promises'
    BY <2>1, ConnectionsUntouched
  <2> QED
    BY <2>4, <2>5, <2>6 DEF SessionInv
<1>3. CASE SetTrack
  <2>1. /\ UNCHANGED <<phase, victim, sessions, conns, cc, job, udp, ssrc, ids, told>> /\ phase = "idle"
    BY <1>3 DEF SetTrack, Idle
  <2>2. PICK p \in Range(sessions), t \in Track : sess' = [sess EXCEPT ![p].tracks = @ \cup {t}]
    BY <1>3 DEF SetTrack
  <2>3. /\ sess' \in [Path -> [tracks : SUBSET Track, conns : Seq(Client)]]
        /\ \A q \in Path : sess'[q].conns = sess[q].conns
    <3>1. p \in Path /\ sess[p] \in [tracks : SUBSET Track, conns : Seq(Client)]
      BY <1>0 DEF Types, Range
    <3> QED
      BY <1>0, <2>2, <3>1 DEF Types
  <2>4. Types' /\ Calls'
    BY <1>0, <2>1, <2>3 DEF Types, Calls
  <2>5. Bindings'
    BY <1>0, <2>1, <2>3 DEF Bindings
  <2>6. Sockets' /\ Promises'
    BY <2>1, ConnectionsUntouched
  <2> QED
    BY <2>4, <2>5, <2>6 DEF SessionInv
<1>4. CASE NewClient
  <2>1. /\ UNCHANGED <<phase, victim, sessions, sess, job, udp, ssrc, ids, told>>
        /\ phase = "idle"
    BY <1>4 DEF NewClient, Idle
  <2>2. PICK c \in Client : /\ cc[c].state = "closed"
                            /\ cc' = [cc EXCEPT ![c].state = "INIT"]
                            /\ conns' = Append(conns, c)
    BY <1>4 DEF NewClient
  <2>3. /\ cc' \in [Client -> Connection] /\ \A d \in Client \ {c} : cc'[d] = cc[d]
        /\ cc'[c].state = "INIT" /\ cc'[c].session = cc[c].session /\ cc'[c].rtp = cc[c].rtp
    BY <1>0, <2>2 DEF Types, Connection
  <2>4. conns' \in Seq(Client) /\ IsInjective(conns') /\ Range(conns') = Range(conns) \cup {c}
    <3>1. /\ conns \in Seq(Client) /\ IsInjective(conns) /\ c \notin Range(conns)
          /\ \A q : ToSet(q) = Range(q)
      BY <1>0, <2>2 DEF Types, Bindings, ToSet, Range
    <3>2. /\ Append(conns, c) \in Seq(Client) /\ ToSet(Append(conns, c)) = ToSet(conns) \cup {c}
          /\ c \notin ToSet(conns) => IsInjective(Append(conns, c))
      BY <3>1, AddLast
    <3> QED
      BY <2>2, <3>1, <3>2
  <2>5. Types' /\ Calls'
    BY <1>0, <2>1, <2>3, <2>4 DEF Types, Calls
  <2>6. Bindings'
    <3>1. \A d \in Client : cc'[d].session = cc[d].session
      BY <2>3
    <3>2. \A d \in Client : d \in Range(conns') <=> cc'[d].state # "closed"
      BY <1>0, <2>3, <2>4 DEF Bindings
    <3> QED
      BY <1>0, <2>1, <2>4, <3>1, <3>2 DEF Bindings
  <2>7. \A d \in Client : cc'[d].rtp = cc[d].rtp
    BY <2>3
  <2>8. Sockets'
    <3>1. Owned'
      BY <1>0, <2>1, <2>7 DEF Owned, Rtp
    <3> QED
      BY <2>1, <3>1 DEF Sockets
  <2>9. Promises'
    <3>1. cc[c].rtp = NoTracks
      BY <1>0, <2>2 DEF Promises
    <3> QED
      BY <1>0, <2>1, <2>3, <2>7, <3>1 DEF Promises, Rtp
  <2> QED
    BY <2>5, <2>6, <2>8, <2>9 DEF SessionInv
<1>5. CASE PeerGone
  <2>1. PICK c \in Range(conns) : DelClient(c) /\ phase = "idle"
    BY <1>5 DEF PeerGone, Idle
  <2>2. c \in Client
    BY <1>0 DEF Types, Range
  <2> QED
    BY <2>1, <2>2, DelClientKeepsInv
<1>6. CASE Request
  <2>1. phase = "idle" /\ victim = NoPath
    BY <1>6 DEF Request, Idle
  <2> QED
    BY <1>6, <2>1, RequestIsExchange, ExchangeKeepsInv
<1>7. CASE DelSessionClient
  <2>1. Head(sess[victim].conns) \in Client /\ phase \notin {"search", "gone"}
    BY <1>0, <1>7 DEF DelSessionClient, Types, Calls
  <2> QED
    BY <1>7, <2>1, DelClientKeepsInv DEF DelSessionClient
<1>8. CASE DelDemoClient
  <2>1. Head(conns) \in Client /\ phase \notin {"search", "gone"}
    BY <1>0, <1>8 DEF DelDemoClient, Types
  <2> QED
    BY <1>8, <2>1, DelClientKeepsInv DEF DelDemoClient
<1>9. CASE FreeSession
  <2>1. /\ victim \in Path /\ sess[victim].conns = <<>> /\ victim' = NoPath
        /\ sessions' = RemoveFirst(sessions, victim)
        /\ sess' = [sess EXCEPT ![victim] = NoSession]
        /\ UNCHANGED <<phase, conns, cc, job, udp, ssrc, ids, told>> /\ phase \notin {"search", "gone"}
    BY <1>0, <1>9 DEF FreeSession, Types, Calls
  <2>2. sessions' \in Seq(Path) /\ Range(sessions) \ {victim} \subseteq Range(sessions')
    BY <1>0, <2>1, RemoveEntry DEF Types
  <2>3. /\ sess' \in [Path -> [tracks : SUBSET Track, conns : Seq(Client)]]
        /\ \A p \in Path : sess'[p].conns = sess[p].conns
    <3>1. NoSession \in [tracks : SUBSET Track, conns : Seq(Client)] /\ NoSession.conns = <<>>
      BY DEF NoSession
    <3> QED
      BY <1>0, <2>1, <3>1 DEF Types
  <2>4. \A c \in Client : cc[c].session # victim
    BY <1>0, <2>1 DEF Bindings, Range
  <2>5. Types' /\ Calls'
    BY <1>0, <2>1, <2>2, <2>3 DEF Types, Calls
  <2>6. Bindings'
    BY <1>0, <2>1, <2>2, <2>3, <2>4 DEF Bindings
  <2>7. Sockets' /\ Promises'
    BY <2>1, ConnectionsUntouched
  <2> QED
    BY <2>5, <2>6, <2>7 DEF SessionInv
<1>10. CASE SearchBound
  BY <1>10, SearchBoundKeepsInv
<1>11. CASE SearchBusy
  <2>1. /\ phase = "search" /\ job[3] + 2 < LastPort
        /\ job' = [job EXCEPT ![3] = @ + 2] /\ udp' = udp
        /\ UNCHANGED <<phase, victim, sessions, sess, conns, cc, ssrc, ids, told>>
    BY <1>11 DEF SearchBusy, PortsLeft, Unbound
  <2>2. job \in Client \X Track \X (FirstPort .. LastPort - 1)
    BY <1>0, <2>1 DEF Calls
  <2>3. /\ job' \in Client \X Track \X (FirstPort .. LastPort - 1)
        /\ job'[1] = job[1] /\ job'[2] = job[2]
    BY <2>1, <2>2, PortAssumption
  <2>4. Types' /\ Bindings'
    BY <1>0, <2>1 DEF Types, Bindings
  <2>5. Calls'
    BY <1>0, <2>1, <2>3 DEF Calls
  <2>6. Sockets'
    <3>1. Owned'
      BY <1>0, <2>1 DEF Owned, Rtp
    <3> QED
      BY <1>0, <2>1, <2>3, <3>1 DEF Sockets, Rtp
  <2>7. Promises'
    BY <1>0, <2>1, <2>3 DEF Promises, Rtp
  <2> QED
    BY <2>4, <2>5, <2>6, <2>7 DEF SessionInv
<1>12. CASE SearchFailed
  <2> DEFINE c == job[1]
             t == job[2]
  <2>1. /\ phase = "search" /\ phase' = "idle"
        /\ told' = [told EXCEPT ![c].rtp[t] = NoRtp]
        /\ UNCHANGED <<victim, sessions, sess, conns, cc, udp, ssrc, ids>>
    BY <1>12 DEF SearchFailed, EndSearch
  <2>2. c \in Client /\ t \in Track /\ Rtp(c, t) = NoRtp /\ NoRtp \in Transport
    BY <1>0, <2>1 DEF Calls, Sockets, NoRtp, Transport
  <2>3. /\ told' \in [Client -> [id : Nat, rtp : [Track -> Transport]]]
        /\ \A d \in Client \ {c} : told'[d] = told[d]
        /\ told'[c].id = told[c].id /\ told'[c].rtp = [told[c].rtp EXCEPT ![t] = NoRtp]
        /\ told[c].rtp \in [Track -> Transport]
    <3> HIDE DEF c, t
    <3>1. told[c] \in [id : Nat, rtp : [Track -> Transport]]
      BY <1>0, <2>2 DEF Types
    <3>2. [told[c].rtp EXCEPT ![t] = NoRtp] \in [Track -> Transport]
      BY <2>2, <3>1
    <3> QED
      BY <1>0, <2>1, <2>2, <3>1, <3>2 DEF Types
  <2>4. Types' /\ Calls' /\ Bindings'
    BY <1>0, <2>1, <2>3 DEF Types, Calls, Bindings
  <2>5. Sockets'
    <3>1. Owned'
      BY <1>0, <2>1 DEF Owned, Rtp
    <3> QED
      BY <2>1, <3>1 DEF Sockets
  <2>6. Promises'
    <3> SUFFICES ASSUME NEW d \in Client
                 PROVE  /\ \A u \in Track : told'[d].rtp[u] = cc[d].rtp[u]
                        /\ told'[d].id = told[d].id
      BY <1>0, <2>1 DEF Promises, Rtp
    <3>1. CASE d = c
      BY <1>0, <2>2, <2>3, <3>1 DEF Promises, Rtp
    <3>2. CASE d # c
      BY <1>0, <2>3, <3>2 DEF Promises, Rtp
    <3> QED
      BY <3>1, <3>2
  <2> QED
    BY <2>4, <2>5, <2>6 DEF SessionInv
<1>13. CASE UNCHANGED vars
  <2>1. UNCHANGED <<phase, victim, sessions, sess, conns, cc, job, udp, ssrc, ids, told>>
    BY <1>13 DEF vars
  <2>2. Types'
    BY <1>0, <2>1 DEF Types
  <2>3. Calls'
    BY <1>0, <2>1 DEF Calls
  <2>4. Bindings'
    BY <1>0, <2>1 DEF Bindings
  <2>5. Sockets' /\ Promises'
    BY <2>1, ConnectionsUntouched
  <2> QED
    BY <2>2, <2>3, <2>4, <2>5 DEF SessionInv
<1> QED
  BY <1>1, <1>2, <1>3, <1>4, <1>5, <1>6, <1>7, <1>8, <1>9, <1>10, <1>11, <1>12, <1>13
     DEF Next, Deletion, Search

LEMMA SessionInvHolds == Spec => []SessionInv
<1>1. Init => SessionInv
  BY InitSessionInv
<1>2. SessionInv /\ [Next]_vars => SessionInv'
  BY StepSessionInv
<1> QED
  BY <1>1, <1>2, PTL DEF Spec

-----------------------------------------------------------------------------
(* At all times the UDP sockets of the process are those of the tracks that
   are set up, no two tracks share one, and the deleted server has none
   (rtsp_demo.c:823-915, 917-984). *)
THEOREM SocketsAreAccounted == Spec => []SocketsAccounted
<1>1. SessionInv => SocketsAccounted
  <2> SUFFICES ASSUME SessionInv
               PROVE  SocketsAccounted
    OBVIOUS
  <2>1. Types /\ Calls /\ Bindings /\ Owned /\ Promises
    BY DEF SessionInv, Sockets
  <2>2. udp = UNION {PortsOf(Rtp(c, t)) : c \in Client, t \in Track}
    BY <2>1 DEF Owned
  <2>3. udp \subseteq FirstPort .. LastPort
    <3> SUFFICES ASSUME NEW n \in udp
                 PROVE  n \in FirstPort .. LastPort
      OBVIOUS
    <3>1. PICK c \in Client, t \in Track : n \in PortsOf(Rtp(c, t))
      BY <2>1 DEF Owned
    <3>2. Usable(Rtp(c, t).port)
      BY <2>1 DEF Owned
    <3> QED
      BY <3>1, <3>2, PortAssumption DEF PortsOf, Usable
  <2>4. phase = "gone" => udp = {}
    <3> SUFFICES ASSUME phase = "gone", NEW n \in udp
                 PROVE  FALSE
      OBVIOUS
    <3>1. PICK c \in Client, t \in Track : n \in PortsOf(Rtp(c, t))
      BY <2>1 DEF Owned
    <3>2. cc[c].state = "closed"
      BY <2>1 DEF Calls, Bindings, Range
    <3>3. cc[c].rtp = NoTracks
      BY <2>1, <3>2 DEF Promises
    <3> QED
      BY <3>1, <3>3 DEF Rtp, NoTracks, NoRtp, PortsOf
  <2>5. \A c1, c2 \in Client, t1, t2 \in Track :
           <<c1, t1>> # <<c2, t2>> => PortsOf(Rtp(c1, t1)) \cap PortsOf(Rtp(c2, t2)) = {}
    BY <2>1 DEF Owned
  <2> QED
    BY <2>2, <2>3, <2>4, <2>5 DEF SocketsAccounted
<1> QED
  BY <1>1, SessionInvHolds, PTL

(* A connection points to a session that is listed exactly when the session
   lists it, once, and the server lists the connections that are open
   (rtsp_demo.c:225-240, 435-449, 644-678). *)
THEOREM BoundBothWaysAlways == Spec => []BoundBothWays
<1>1. SessionInv => BoundBothWays
  <2> SUFFICES ASSUME SessionInv
               PROVE  BoundBothWays
    OBVIOUS
  <2>1. Types /\ Bindings
    BY DEF SessionInv
  <2>2. \A c \in Client, p \in Path :
           cc[c].session = p <=> \E i \in DOMAIN sess[p].conns : sess[p].conns[i] = c
    BY <2>1 DEF Bindings, Range
  <2>3. Range(conns) = {c \in Client : cc[c].state # "closed"}
    <3>1. Range(conns) \subseteq Client
      BY <2>1 DEF Types, Range
    <3> QED
      BY <2>1, <3>1 DEF Bindings
  <2> QED
    BY <2>1, <2>2, <2>3 DEF BoundBothWays, Bindings
<1> QED
  BY <1>1, SessionInvHolds, PTL

(* Outside a search for ports, what the answers told a client is what holds:
   the session id that will be asked for and the transport of every track, and
   who has a transport is asked for an id (rtsp_demo.c:1031-1055, 1115-1125,
   1150-1157). *)
THEOREM AnswersAlwaysHold == Spec => []AnswersHold
<1>1. SessionInv => AnswersHold
  <2> SUFFICES ASSUME SessionInv, phase # "search", NEW c \in Client
               PROVE  /\ told[c].rtp = cc[c].rtp
                      /\ cc[c].rtp # NoTracks => cc[c].state \in {"READY", "PLAYING"}
                      /\ cc[c].state \in {"READY", "PLAYING"} => told[c].id = cc[c].session_id
    BY DEF AnswersHold
  <2>1. Types /\ Promises
    BY DEF SessionInv
  <2>2. told[c].rtp \in [Track -> Transport] /\ cc[c].rtp \in [Track -> Transport]
    BY <2>1 DEF Types, Connection
  <2>3. \A t \in Track : told[c].rtp[t] = cc[c].rtp[t]
    BY <2>1 DEF Promises, Rtp
  <2>4. told[c].rtp = cc[c].rtp
    BY <2>2, <2>3
  <2> QED
    BY <2>1, <2>4 DEF Promises
<1> QED
  BY <1>1, SessionInvHolds, PTL
=============================================================================
