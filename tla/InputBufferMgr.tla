--------------------------- MODULE InputBufferMgr ---------------------------
(***************************************************************************)
(* The two linked lists through which H264Encoder passes its input         *)
(* buffers round: valid_quene, buffers to fill, and empty_quene, nodes     *)
(* whose buffer the encoder has. YuvIn runs in the thread of               *)
(* YuvToH264Encoder, InputBufferDone in the thread of the vencoder library;*)
(* there is no lock, so every step here is one access to shared memory.    *)
(*                                                                         *)
(* A node is what the lists link, a buffer what the encoder fills and      *)
(* frees; node n starts with buffer n. H264Encoder gives the lists their   *)
(* life: when they are filled, who calls, and when they are freed.         *)
(***************************************************************************)
EXTENDS Integers, Sequences

CONSTANT DEMO_INPUT_BUFFER_NUM    \* 2 in the code

ASSUME BufferNumAssumption == DEMO_INPUT_BUFFER_NUM \in Nat \ {0}

VARIABLES
    head,       \* valid_quene and empty_quene
    next,       \* InputBufferInfo::next of each node
    buffer,     \* InputBufferInfo::inputbuffer of each node, NULL: none was allocated
    queued,     \* buffers the library has: VencQueueInputBuf, not done yet
    pc,         \* where each thread is
    list,       \* argument pp_head of the running enqueue or dequeue
    node,       \* the node each thread works on
    cur,        \* local pointer: cur of enqueue, head->next in dequeue
    staFlag,    \* stage of YuvToH264Encoder::run: feed a frame, fetch its output
    owed,       \* the library has still to give out the frame it encoded
    outputs,    \* frames waiting for VencDequeueOutputBuf
    done        \* buffer the running InputBufferDone was called for

libraryVars == <<queued, owed, outputs>>
listVars == <<head, next, buffer, libraryVars, staFlag, pc, list, node, cur, done>>

Thread == {"enc", "venc"}
List == {"valid", "empty"}
Node == 1 .. DEMO_INPUT_BUFFER_NUM
NULL == 0

memory == <<head, next, buffer>>
Goto(t, l) == pc' = [pc EXCEPT ![t] = l]

(* The memory of a context before anything is on a list. *)
ListsEmpty ==
    /\ head = [l \in List |-> NULL]
    /\ next = [n \in Node |-> NULL]
    /\ buffer = [n \in Node |-> NULL]
    /\ queued = <<>>
    /\ pc = [t \in Thread |-> "idle"]
    /\ list = [t \in Thread |-> "valid"]
    /\ node = [t \in Thread |-> NULL]
    /\ cur = [t \in Thread |-> NULL]
    /\ staFlag = "feed"
    /\ owed = FALSE
    /\ outputs = 0
    /\ done = NULL

(* The loop of H264Encoder::Init: every node goes to the end of valid_quene,
   those of given with a buffer. *)
FillLists(given) ==
    /\ head' = [head EXCEPT !["valid"] = 1]
    /\ next' = [n \in Node |-> IF n < DEMO_INPUT_BUFFER_NUM THEN n + 1 ELSE NULL]
    /\ buffer' = [n \in Node |-> IF n \in given THEN n ELSE NULL]
    /\ UNCHANGED <<libraryVars, staFlag, pc, list, node, cur, done>>

Call(t, l, entry) ==
    /\ list' = [list EXCEPT ![t] = l]
    /\ Goto(t, entry)

-----------------------------------------------------------------------------
(* dequeue: read the head; read head->next; write the head; clear the link.
   Whoever dequeues goes on at "got", or is back at "idle" with nothing. *)
DequeueRead(t) ==
    /\ pc[t] = "deqRead"
    /\ node' = [node EXCEPT ![t] = head[list[t]]]
    /\ Goto(t, IF head[list[t]] = NULL THEN "idle" ELSE "deqNext")
    /\ UNCHANGED <<memory, libraryVars, staFlag, list, cur, done>>

(* Mutant: the list is cut off after its head. *)
DequeueNext_CutOff(t) ==
    /\ pc[t] = "deqNext"
    /\ cur' = [cur EXCEPT ![t] = NULL]
    /\ Goto(t, "deqHead")
    /\ UNCHANGED <<memory, libraryVars, staFlag, list, node, done>>

DequeueNext(t) ==
    /\ pc[t] = "deqNext"
    /\ cur' = [cur EXCEPT ![t] = next[node[t]]]
    /\ Goto(t, "deqHead")
    /\ UNCHANGED <<memory, libraryVars, staFlag, list, node, done>>

(* Mutant: the node stays on the list. *)
DequeueHead_Peek(t) ==
    /\ pc[t] = "deqHead"
    /\ Goto(t, "deqClear")
    /\ UNCHANGED <<memory, libraryVars, staFlag, list, node, cur, done>>

DequeueHead(t) ==
    /\ pc[t] = "deqHead"
    /\ head' = [head EXCEPT ![list[t]] = cur[t]]
    /\ Goto(t, "deqClear")
    /\ UNCHANGED <<next, buffer, libraryVars, staFlag, list, node, cur, done>>

DequeueClear(t) ==
    /\ pc[t] = "deqClear"
    /\ next' = [next EXCEPT ![node[t]] = NULL]
    /\ Goto(t, "got")
    /\ UNCHANGED <<head, buffer, libraryVars, staFlag, list, node, cur, done>>

(* enqueue: read the head; walk to the last node; write the head or the link
   of the last node; clear the link of the new one. *)
EnqueueRead(t) ==
    /\ pc[t] = "enqRead"
    /\ cur' = [cur EXCEPT ![t] = head[list[t]]]
    /\ Goto(t, IF head[list[t]] = NULL THEN "enqHead" ELSE "enqWalk")
    /\ UNCHANGED <<memory, libraryVars, staFlag, list, node, done>>

EnqueueHead(t) ==
    /\ pc[t] = "enqHead"
    /\ head' = [head EXCEPT ![list[t]] = node[t]]
    /\ Goto(t, "enqClear")
    /\ UNCHANGED <<next, buffer, libraryVars, staFlag, list, node, cur, done>>

EnqueueWalk(t) ==
    /\ pc[t] = "enqWalk"
    /\ IF next[cur[t]] = NULL
       THEN Goto(t, "enqLink") /\ UNCHANGED cur
       ELSE cur' = [cur EXCEPT ![t] = next[@]] /\ UNCHANGED pc
    /\ UNCHANGED <<memory, libraryVars, staFlag, list, node, done>>

EnqueueLink(t) ==
    /\ pc[t] = "enqLink"
    /\ next' = [next EXCEPT ![cur[t]] = node[t]]
    /\ Goto(t, "enqClear")
    /\ UNCHANGED <<head, buffer, libraryVars, staFlag, list, node, cur, done>>

EnqueueClear(t) ==
    /\ pc[t] = "enqClear"
    /\ next' = [next EXCEPT ![node[t]] = NULL]
    /\ staFlag' = IF t = "enc" THEN "fetch" ELSE staFlag
    /\ Goto(t, "idle")
    /\ UNCHANGED <<head, buffer, libraryVars, list, node, cur, done>>

ListStep(t) ==
    \/ DequeueRead(t) \/ DequeueNext(t) \/ DequeueHead(t) \/ DequeueClear(t)
    \/ EnqueueRead(t) \/ EnqueueHead(t) \/ EnqueueWalk(t) \/ EnqueueLink(t) \/ EnqueueClear(t)

-----------------------------------------------------------------------------
(* YuvIn: take a buffer, copy the frame into it and hand it to the library,
   and only then put the node on empty_quene. *)
YuvIn ==
    /\ pc["enc"] = "idle"
    /\ staFlag = "feed"
    /\ Call("enc", "valid", "deqRead")
    /\ UNCHANGED <<memory, libraryVars, staFlag, node, cur, done>>

YuvInQueue ==
    /\ pc["enc"] = "got"
    /\ buffer[node["enc"]] # NULL
    /\ queued' = Append(queued, buffer[node["enc"]])
    /\ Call("enc", "empty", "enqRead")
    /\ UNCHANGED <<memory, owed, outputs, staFlag, node, cur, done>>

(* Mutant: the next frame is fed whether or not this one came out. *)
Out_NotAwaited ==
    /\ pc["enc"] = "idle"
    /\ staFlag = "fetch"
    /\ outputs' = IF outputs = 0 THEN 0 ELSE outputs - 1
    /\ staFlag' = "feed"
    /\ UNCHANGED <<memory, queued, owed, pc, list, node, cur, done>>

(* Out: the next frame is fed once this one has come out. *)
Out ==
    /\ pc["enc"] = "idle"
    /\ staFlag = "fetch"
    /\ outputs > 0
    /\ outputs' = outputs - 1
    /\ staFlag' = "feed"
    /\ UNCHANGED <<memory, queued, owed, pc, list, node, cur, done>>

(* The library encodes its buffers one by one: of each it gives out the frame
   and calls InputBufferDone, in either order. *)
VencOutput ==
    /\ owed
    /\ owed' = FALSE
    /\ outputs' = outputs + 1
    /\ UNCHANGED <<memory, queued, staFlag, pc, list, node, cur, done>>

InputBufferDone ==
    /\ pc["venc"] = "idle" /\ ~owed
    /\ queued # <<>>
    /\ done' = Head(queued)
    /\ queued' = Tail(queued)
    /\ owed' = TRUE
    /\ Call("venc", "empty", "deqRead")
    /\ UNCHANGED <<memory, outputs, staFlag, node, cur>>

(* Mutant: the node goes back to the list it came from. *)
InputBufferDoneCopy_Back ==
    /\ pc["venc"] = "got"
    /\ buffer' = [buffer EXCEPT ![node["venc"]] = done]
    /\ Call("venc", "empty", "enqRead")
    /\ UNCHANGED <<head, next, libraryVars, staFlag, node, cur, done>>

InputBufferDoneCopy ==
    /\ pc["venc"] = "got"
    /\ buffer' = [buffer EXCEPT ![node["venc"]] = done]
    /\ Call("venc", "valid", "enqRead")
    /\ UNCHANGED <<head, next, libraryVars, staFlag, node, cur, done>>

-----------------------------------------------------------------------------
(* Types of the variables. *)
ListsTypeOK ==
    /\ head \in [List -> Node \cup {NULL}]
    /\ next \in [Node -> Node \cup {NULL}]
    /\ buffer \in [Node -> Node \cup {NULL}]
    /\ queued \in Seq(Node)
    /\ pc \in [Thread -> {"idle", "deqRead", "deqNext", "deqHead", "deqClear", "got",
                          "enqRead", "enqHead", "enqWalk", "enqLink", "enqClear"}]
    /\ list \in [Thread -> List]
    /\ node \in [Thread -> Node \cup {NULL}]
    /\ cur \in [Thread -> Node \cup {NULL}]
    /\ staFlag \in {"feed", "fetch"}
    /\ owed \in BOOLEAN
    /\ outputs \in 0 .. 1
    /\ done \in Node \cup {NULL}

(* Nodes that can be reached from the head of list l. *)
OnList(l) ==
    LET reached[k \in 0 .. DEMO_INPUT_BUFFER_NUM] ==
            IF k = 0 THEN {head[l]}
                     ELSE reached[k - 1] \cup {next[n] : n \in reached[k - 1] \ {NULL}}
    IN reached[DEMO_INPUT_BUFFER_NUM] \ {NULL}

(* The node a thread has taken off one list and has not yet put on the other. *)
InHand(t) ==
    IF pc[t] \in {"deqClear", "got", "enqRead", "enqHead", "enqWalk", "enqLink", "enqClear"}
    THEN {node[t]} ELSE {}

(* The races may lose nodes, but they never hand one out twice: no node is on
   both lists, one that was dequeued is on none, and YuvIn and the callback
   never hold the same one, which would be filled and overwritten at once
   (H264Encoder.cpp:445, 1640). *)
NodeHeldOnce ==
    /\ OnList("valid") \cap OnList("empty") = {}
    /\ \A t \in Thread : pc[t] = "got" => node[t] \notin OnList("valid") \cup OnList("empty")
    /\ (\A t \in Thread : pc[t] \in {"got", "enqRead", "enqHead", "enqWalk", "enqLink"})
          => node["enc"] # node["venc"]

(* YuvIn never copies a frame into a buffer the encoder is still reading,
   although a callback that overlaps with enqueue can put the wrong node on
   valid_quene: it holds because run feeds no frame before it has fetched the
   one before (H264Encoder.cpp:446-447, yuvToH264Encoder.cpp:158-168). *)
NoWriteWhileQueued ==
    pc["enc"] = "got" => \A i \in DOMAIN queued : queued[i] # buffer[node["enc"]]

=============================================================================
