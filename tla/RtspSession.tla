---------------------------- MODULE RtspSession -----------------------------
(***************************************************************************)
(* The sessions of the RTSP server and the connections to them: lookup of  *)
(* a session by path, SETUP with its search for a pair of UDP ports,       *)
(* TEARDOWN, and the deletion of connections, sessions and the server.     *)
(* What is streamed to a playing client is in RtspStream.                  *)
(*                                                                         *)
(* A path is the sequence of its components, and a session is known by its *)
(* path. A track is named as in the URI. The requests that are not served  *)
(* (400, 451, 454, 455, 461) change nothing but what the connection is     *)
(* bound to. OPTIONS, rtsp_set_video, rtsp_new_demo and rtsp_new_session   *)
(* that fail change nothing. Left out are digest authentication, another   *)
(* refusal, and the cut of a path at 62 bytes. With crash set the model    *)
(* stops: a session that is still in the list has been freed.              *)
(***************************************************************************)
EXTENDS Integers, Sequences, SequencesExt

CONSTANTS
    Client,
    Path,                   \* paths of sessions
    FirstPort, LastPort,    \* of the UDP port search, 49152 and 65535 in the code
    MaxSetups               \* bound: connections to tracks that are set up

ASSUME PathAssumption == \A p \in Path : p \in Seq(STRING) /\ p # <<>>
ASSUME PortAssumption ==
    /\ FirstPort \in Nat \ {0} /\ LastPort \in Nat /\ FirstPort < LastPort
    /\ (LastPort - FirstPort) % 2 = 1
ASSUME BoundAssumption == MaxSetups \in Nat

VARIABLES
    phase,       \* none, idle, search (in SETUP), delDemo, and gone
    victim,      \* the session being deleted, if any
    sessions,    \* rtsp_demo::sessions_qhead
    sess,        \* tracks and connections_qhead of each session
    conns,       \* rtsp_demo::connections_qhead
    cc,          \* the connection of each client
    job,         \* the search for UDP ports: for whom, and how far it is
    udp,         \* UDP ports the server has bound
    ssrc,        \* __rtp_gen_ssrc: how many were given out
    ids,         \* rtsp_msg_gen_session_id: how many were given out
    told,        \* history: what the answers to each client said
    crash        \* undefined behaviour the process has run into

vars == <<phase, victim, sessions, sess, conns, cc, job, udp, ssrc, ids, told, crash>>

Track == {"track1", "track2"}     \* video and audio
NoPath == <<>>
NoRtp == [tcp |-> FALSE, port |-> 0, ssrc |-> 0]
NoTracks == [t \in Track |-> NoRtp]
NoSession == [tracks |-> {}, conns |-> <<>>]
Closed == [state |-> "closed", session |-> NoPath, session_id |-> 0, rtp |-> NoTracks]
ToldNothing == [id |-> 0, rtp |-> NoTracks]
NoJob == <<>>

PortsOf(r) == IF r.port = 0 THEN {} ELSE {r.port, r.port + 1}
RequestPath == Path \cup {Append(p, t) : p \in Path, t \in Track}

Init ==
    /\ phase = "none"
    /\ victim = NoPath
    /\ sessions = <<>>
    /\ sess = [p \in Path |-> NoSession]
    /\ conns = <<>>
    /\ cc = [c \in Client |-> Closed]
    /\ job = NoJob
    /\ udp = {}
    /\ ssrc = 0
    /\ ids = 0
    /\ told = [c \in Client |-> ToldNothing]
    /\ crash = "none"

-----------------------------------------------------------------------------
(* The application. *)
Idle == phase = "idle" /\ victim = NoPath

NewDemo ==
    /\ phase = "none"
    /\ phase' = "idle"
    /\ UNCHANGED <<victim, sessions, sess, conns, cc, job, udp, ssrc, ids, told, crash>>

(* rtsp_path_match. *)
PathMatch(main, full) == IsPrefix(main, full)

Taken(s, p) == PathMatch(s, p) \/ PathMatch(p, s)

(* rtsp_new_session frees the session it finds at a path that is taken. *)
NewSession ==
    /\ Idle
    /\ \E p \in Path :
          IF \E s \in Range(sessions) : Taken(s, p)
          THEN crash' = "freedSession" /\ UNCHANGED sessions
          ELSE sessions' = Append(sessions, p) /\ UNCHANGED crash
    /\ UNCHANGED <<phase, victim, sess, conns, cc, job, udp, ssrc, ids, told>>

(* rtsp_set_video and rtsp_set_audio, when they succeed. *)
SetTrack ==
    /\ Idle
    /\ \E p \in Range(sessions), t \in Track : sess' = [sess EXCEPT ![p].tracks = @ \cup {t}]
    /\ UNCHANGED <<phase, victim, sessions, conns, cc, job, udp, ssrc, ids, told, crash>>

-----------------------------------------------------------------------------
(* Connections. *)
NewClient ==
    /\ Idle
    /\ \E c \in Client :
          /\ cc[c].state = "closed"
          /\ cc' = [cc EXCEPT ![c].state = "INIT"]
          /\ conns' = Append(conns, c)
    /\ UNCHANGED <<phase, victim, sessions, sess, job, udp, ssrc, ids, told, crash>>

(* rtsp_del_client_connection (mutant: the session still knows it). *)
DelClient_Bound(c) ==
    /\ cc' = [cc EXCEPT ![c] = Closed]
    /\ conns' = RemoveFirst(conns, c)
    /\ udp' = udp \ UNION {PortsOf(cc[c].rtp[t]) : t \in Track}
    /\ told' = [told EXCEPT ![c] = ToldNothing]
    /\ UNCHANGED <<phase, victim, sessions, sess, job, ssrc, ids, crash>>
DelClient(c) ==
    /\ cc' = [cc EXCEPT ![c] = Closed]
    /\ sess' = [p \in Path |-> IF p = cc[c].session THEN [sess[p] EXCEPT !.conns = RemoveFirst(@, c)]
                               ELSE sess[p]]
    /\ conns' = RemoveFirst(conns, c)
    /\ udp' = udp \ UNION {PortsOf(cc[c].rtp[t]) : t \in Track}
    /\ told' = [told EXCEPT ![c] = ToldNothing]
    /\ UNCHANGED <<phase, victim, sessions, job, ssrc, ids, crash>>

(* The peer closed, or sent what is no RTSP. *)
PeerGone == Idle /\ \E c \in Range(conns) : DelClient(c)

-----------------------------------------------------------------------------
(* rtsp_process_request up to the handlers: the session a request is for, the
   first in the list whose path matches. *)
Matching(path) == SelectInSeq(sessions, LAMBDA s : PathMatch(s, path))
SessionFor(c, path) ==
    IF cc[c].session # NoPath THEN cc[c].session
    ELSE IF Matching(path) = 0 THEN NoPath ELSE sessions[Matching(path)]

Served(c, path, id) ==
    /\ cc[c].state # "INIT" => id = cc[c].session_id
    /\ SessionFor(c, path) # NoPath
    /\ PathMatch(SessionFor(c, path), path)

(* The connection is new, and bound to the session if it was to none. *)
Handled(c, s, new) ==
    /\ cc' = [cc EXCEPT ![c] = [new EXCEPT !.session = s]]
    /\ sess' = IF cc[c].session = NoPath THEN [sess EXCEPT ![s].conns = Append(@, c)] ELSE sess

(* DESCRIBE, a method that is not implemented, or a refusal by the handler. *)
Answer(c, s) ==
    /\ Handled(c, s, cc[c])
    /\ UNCHANGED <<phase, job, udp, ssrc, ids, told>>

PAUSE(c, s) ==
    /\ cc[c].state \in {"READY", "PLAYING"}
    /\ Handled(c, s, [cc[c] EXCEPT !.state = "READY"])
    /\ UNCHANGED <<phase, job, udp, ssrc, ids, told>>

PLAY(c, s) ==
    /\ cc[c].state \in {"READY", "PLAYING"}
    /\ Handled(c, s, [cc[c] EXCEPT !.state = "PLAYING"])
    /\ UNCHANGED <<phase, job, udp, ssrc, ids, told>>

(* SETUP from the new rtp_connection on: the connection with it (mutant: every
   SETUP gives out an id, and only the first answer has it). *)
Ready_NewId(c, t, rtp) ==
    [cc[c] EXCEPT !.rtp[t] = rtp, !.state = IF @ = "INIT" THEN "READY" ELSE @, !.session_id = ids + 1]
Ready(c, t, rtp) ==
    IF cc[c].state = "INIT"
    THEN [cc[c] EXCEPT !.rtp[t] = rtp, !.state = "READY", !.session_id = ids + 1]
    ELSE [cc[c] EXCEPT !.rtp[t] = rtp]

(* What its answer says; with an id of the client's the request was served. *)
SetUp(c, t, rtp) ==
    /\ ids' = IF cc[c].state = "INIT" THEN ids + 1 ELSE ids
    /\ told' = [told EXCEPT ![c].rtp[t] = rtp,
                            ![c].id = IF cc[c].state = "INIT" THEN ids + 1 ELSE cc[c].session_id]

(* The track a path names, if the session has it. *)
TrackOf(s, path) == {t \in sess[s].tracks : PathMatch(Append(s, t), path)}

(* 500: the client has lost the transport it had. *)
SETUP_NoMemory(c, s, t) ==
    /\ udp' = udp \ PortsOf(cc[c].rtp[t])
    /\ Handled(c, s, [cc[c] EXCEPT !.rtp[t] = NoRtp])
    /\ told' = [told EXCEPT ![c].rtp[t] = NoRtp]
    /\ UNCHANGED <<phase, job, ssrc, ids>>

SETUP_Tcp(c, s, t) ==
    LET rtp == [tcp |-> TRUE, port |-> 0, ssrc |-> ssrc + 1]
    IN /\ ssrc < MaxSetups
       /\ ssrc' = ssrc + 1
       /\ udp' = udp \ PortsOf(cc[c].rtp[t])
       /\ Handled(c, s, Ready(c, t, rtp))
       /\ SetUp(c, t, rtp)
       /\ UNCHANGED <<phase, job>>

SETUP_Udp(c, s, t) ==
    /\ ssrc < MaxSetups
    /\ ssrc' = ssrc + 1
    /\ udp' = udp \ PortsOf(cc[c].rtp[t])
    /\ Handled(c, s, [cc[c] EXCEPT !.rtp[t] = NoRtp])
    /\ phase' = "search"
    /\ job' = <<c, t, FirstPort>>
    /\ UNCHANGED <<ids, told>>

SETUP(c, s, path) ==
    \E t \in TrackOf(s, path) : SETUP_NoMemory(c, s, t) \/ SETUP_Tcp(c, s, t) \/ SETUP_Udp(c, s, t)

(* The tracks TEARDOWN is for. *)
TornDown(s, path) ==
    IF \E t \in Track : PathMatch(Append(s, t), path)
    THEN {t \in Track : PathMatch(Append(s, t), path)} ELSE Track

StateWith(state, rtp) == IF rtp = NoTracks THEN "INIT" ELSE state

TEARDOWN(c, s, path) ==
    LET gone == TornDown(s, path)
        left(rtp) == [t \in Track |-> IF t \in gone THEN NoRtp ELSE rtp[t]]
    IN /\ udp' = udp \ UNION {PortsOf(cc[c].rtp[t]) : t \in gone}
       /\ Handled(c, s, [cc[c] EXCEPT !.rtp = left(@),
                                      !.state = StateWith(@, left(cc[c].rtp))])
       /\ told' = [told EXCEPT ![c].rtp = left(@)]
       /\ UNCHANGED <<phase, job, ssrc, ids>>

Request ==
    /\ Idle
    /\ \E c \in Range(conns), path \in RequestPath, id \in 0 .. ids :
          /\ Served(c, path, id)
          /\ LET s == SessionFor(c, path)
             IN \/ Answer(c, s) \/ PAUSE(c, s) \/ PLAY(c, s)
                \/ SETUP(c, s, path) \/ TEARDOWN(c, s, path)
    /\ UNCHANGED <<victim, sessions, conns, crash>>

-----------------------------------------------------------------------------
(* __rtp_udp_local_setup: one turn of its loop for the pair at port. *)
EndSearch == phase' = "idle" /\ job' = NoJob /\ UNCHANGED <<victim, sessions, sess, conns, ssrc, crash>>

SearchBound ==
    /\ phase = "search"
    /\ LET c == job[1] t == job[2] port == job[3]
           rtp == [tcp |-> FALSE, port |-> port, ssrc |-> ssrc]
       IN /\ {port, port + 1} \cap udp = {}
          /\ udp' = udp \cup {port, port + 1}
          /\ cc' = [cc EXCEPT ![c] = Ready(c, t, rtp)]
          /\ SetUp(c, t, rtp)
    /\ EndSearch

(* One of the two is held by this or by another program: both are closed
   (mutant: the one that was bound is not). *)
Unbound_First(port) == IF port \in udp THEN udp ELSE udp \cup {port}
Unbound(port) == udp

PortsLeft(port) == port + 2 < LastPort

SearchBusy ==
    /\ phase = "search"
    /\ PortsLeft(job[3])
    /\ job' = [job EXCEPT ![3] = @ + 2]
    /\ udp' = Unbound(job[3])
    /\ UNCHANGED <<phase, victim, sessions, sess, conns, cc, ssrc, ids, told, crash>>

(* No sockets, or no port left: 500. *)
SearchFailed ==
    /\ phase = "search"
    /\ told' = [told EXCEPT ![job[1]].rtp[job[2]] = NoRtp]
    /\ EndSearch
    /\ UNCHANGED <<cc, udp, ids>>

-----------------------------------------------------------------------------
(* rtsp_del_session deletes the connections of the session, then itself. *)
DelSession ==
    /\ Idle
    /\ \E p \in Range(sessions) : victim' = p
    /\ UNCHANGED <<phase, sessions, sess, conns, cc, job, udp, ssrc, ids, told, crash>>

DelSessionClient ==
    /\ victim # NoPath
    /\ sess[victim].conns # <<>>
    /\ DelClient(Head(sess[victim].conns))

FreeSession ==
    /\ victim # NoPath
    /\ sess[victim].conns = <<>>
    /\ sessions' = RemoveFirst(sessions, victim)
    /\ sess' = [sess EXCEPT ![victim] = NoSession]
    /\ victim' = NoPath
    /\ UNCHANGED <<phase, conns, cc, job, udp, ssrc, ids, told, crash>>

(* rtsp_del_demo. *)
DelDemo ==
    /\ Idle
    /\ phase' = "delDemo"
    /\ UNCHANGED <<victim, sessions, sess, conns, cc, job, udp, ssrc, ids, told, crash>>

DelDemoClient ==
    /\ phase = "delDemo" /\ victim = NoPath
    /\ conns # <<>>
    /\ DelClient(Head(conns))

DelDemoSession ==
    /\ phase = "delDemo" /\ victim = NoPath
    /\ conns = <<>> /\ sessions # <<>>
    /\ victim' = Head(sessions)
    /\ UNCHANGED <<phase, sessions, sess, conns, cc, job, udp, ssrc, ids, told, crash>>

DemoEmpty == conns = <<>> /\ sessions = <<>>

FreeDemo ==
    /\ phase = "delDemo" /\ victim = NoPath
    /\ DemoEmpty
    /\ phase' = "gone"
    /\ UNCHANGED <<victim, sessions, sess, conns, cc, job, udp, ssrc, ids, told, crash>>

-----------------------------------------------------------------------------
Deletion == DelSessionClient \/ FreeSession \/ DelDemoClient \/ DelDemoSession \/ FreeDemo
Search == SearchBound \/ SearchBusy \/ SearchFailed

Next ==
    /\ crash = "none"
    /\ \/ NewDemo \/ NewSession \/ SetTrack \/ NewClient \/ PeerGone \/ Request
       \/ DelSession \/ DelDemo \/ Deletion \/ Search

Spec == Init /\ [][Next]_vars

(* A call that has begun goes on. *)
FairSpec == Spec /\ WF_vars(crash = "none" /\ (Deletion \/ Search))

-----------------------------------------------------------------------------
Rtp(c, t) == cc[c].rtp[t]
Resting == phase \in {"none", "idle", "gone"} /\ victim = NoPath

(* Types of the variables. *)
TypeOK ==
    /\ phase \in {"none", "idle", "search", "delDemo", "gone"}
    /\ victim \in Path \cup {NoPath}
    /\ sessions \in Seq(Path)
    /\ sess \in [Path -> [tracks : SUBSET Track, conns : Seq(Client)]]
    /\ conns \in Seq(Client)
    /\ \A c \in Client :
          /\ cc[c].state \in {"closed", "INIT", "READY", "PLAYING"}
          /\ cc[c].session \in Path \cup {NoPath}
          /\ cc[c].session_id \in 0 .. ids
          /\ \A t \in Track : Rtp(c, t).ssrc \in 0 .. ssrc
    /\ job \in {NoJob} \cup (Client \X Track \X (FirstPort .. LastPort))
    /\ udp \subseteq FirstPort .. LastPort
    /\ ssrc \in 0 .. MaxSetups
    /\ crash \in {"none", "freedSession"}

(* The UDP sockets of the process are those of the tracks that are set up: no
   SETUP that replaces a transport, no search that fails half-way, no deletion
   in whatever order leaves one open, no two tracks share one, and the deleted
   server has none
   (rtsp_demo.c:823-915, 917-984). *)
SocketsAccounted ==
    /\ udp = UNION {PortsOf(Rtp(c, t)) : c \in Client, t \in Track}
    /\ udp \subseteq FirstPort .. LastPort /\ (phase = "gone" => udp = {})
    /\ \A c1, c2 \in Client, t1, t2 \in Track :
          <<c1, t1>> # <<c2, t2>> => PortsOf(Rtp(c1, t1)) \cap PortsOf(Rtp(c2, t2)) = {}

(* A connection points to a session that is listed exactly when the session
   lists it, once, so that deleting either leaves no pointer to it behind
   (rtsp_demo.c:225-240, 435-449, 644-678). *)
BoundBothWays ==
    /\ \A c \in Client, p \in Path :
          cc[c].session = p <=> \E i \in DOMAIN sess[p].conns : sess[p].conns[i] = c
    /\ \A p \in Path : IsInjective(sess[p].conns)
    /\ \A c \in Client : cc[c].session # NoPath => cc[c].session \in Range(sessions)
    /\ IsInjective(conns)
    /\ Range(conns) = {c \in Client : cc[c].state # "closed"}

(* What the answers told a client is what holds: the session id that will be
   asked for, and the transport of every track; and who has a transport is in
   a state in which an id is asked for. No failed SETUP, or TEARDOWN of one of
   two tracks, locks a client out of its session or lets another one in
   (rtsp_demo.c:1031-1055, 1115-1125, 1150-1157). *)
AnswersHold ==
    phase # "search" =>
        \A c \in Client :
            /\ told[c].rtp = cc[c].rtp
            /\ cc[c].rtp # NoTracks => cc[c].state \in {"READY", "PLAYING"}
            /\ cc[c].state \in {"READY", "PLAYING"} => told[c].id = cc[c].session_id

(* Deleting a session or the server, and the search for ports, come to an
   end, although the loops of the deletions run until their list is empty and
   what they call must take the head off it (rtsp_demo.c:649, 668, 671). *)
CallsEnd == ~Resting ~> Resting

=============================================================================
