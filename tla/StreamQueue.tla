---------------------------- MODULE StreamQueue ----------------------------
(***************************************************************************)
(* 3rd/rtsp_lib/stream_queue.c: the ring of RTP packets of a session. A    *)
(* queue is its two indices; what the slots hold is the user's business.   *)
(* One slot always stays empty, head = tail is the empty queue.            *)
(***************************************************************************)
EXTENDS Integers

CONSTANT Nbpkts    \* stream_queue::nbpkts

Index == 0 .. Nbpkts - 1
Queue == [head : Index, tail : Index]
EmptyQueue == [head |-> 0, tail |-> 0]

(* streamq_inused *)
Inused(q, i) ==
    \/ q.head <= i /\ i < q.tail
    \/ q.head > q.tail /\ (i >= q.head \/ i < q.tail)

(* streamq_next. *)
NextIndex(i) == (i + 1) % Nbpkts

(* streamq_push and streamq_pop; a push on a full queue and a pop on an empty
   one leave it alone. *)
Push(q) == IF NextIndex(q.tail) = q.head THEN q ELSE [q EXCEPT !.tail = NextIndex(@)]
Pop(q) == IF q.head = q.tail THEN q ELSE [q EXCEPT !.head = NextIndex(@)]

-----------------------------------------------------------------------------
(* How far slot i is ahead of slot j, going round. *)
Distance(j, i) == (i - j) % Nbpkts
Used(q) == Distance(q.head, q.tail)
Free(q) == Nbpkts - 1 - Used(q)

(* Pops the oldest packet whenever the slot d ahead of the one it has come to
   is the head, for each of the n slots behind the tail. *)
PopAlong(q, n, d) ==
    LET turn[i \in 0 .. n] ==
            IF i = 0 THEN q
            ELSE LET r == turn[i - 1]
                 IN IF (q.tail + i - 1 + d) % Nbpkts = r.head THEN Pop(r) ELSE r
    IN turn[n]
PushTurns(q, k) ==
    LET turn[i \in 0 .. k] == IF i = 0 THEN q ELSE Push(turn[i - 1])
    IN turn[k]

(* The two loops of rtsp_sever_tx_video: one makes n slots behind the tail
   free (mutants: popping one slot too late; for one slot too many), the other
   pushes k of them without looking whether push succeeded (mutant: one too
   many). *)
Reserve_Late(q, n) == PopAlong(q, n, 0)
Reserve_OneMore(q, n) == PopAlong(q, n + 1, 1)
Reserve(q, n) == PopAlong(q, n, 1)
PushMany_OneMore(q, k) == PushTurns(q, k + 1)
PushMany(q, k) == PushTurns(q, k)

(* Reference: the smallest change of head that leaves n slots free. *)
Reserved(q, n) ==
    IF Free(q) >= n THEN q ELSE [q EXCEPT !.head = (q.tail + n + 1) % Nbpkts]
=============================================================================
