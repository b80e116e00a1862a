--------------------------- MODULE PacketDelivery ---------------------------
(***************************************************************************)
(* What the path from encoder to clients promises, without its threads,    *)
(* queue or locks: a bounded store of packets numbered in the order they   *)
(* were emitted. Each is settled once, delivered or lost; deliveries keep  *)
(* the order; a packet is lost only to make room for a newer one, or when  *)
(* the service is closed.                                                  *)
(***************************************************************************)
EXTENDS Integers, Sequences, FiniteSets

CONSTANT Capacity    \* packets that may be in flight at once

VARIABLES
    open,        \* the service accepts packets
    emitted,     \* number of packets emitted so far
    settled,     \* packets delivered or lost
    delivered    \* the packets delivered, in order

deliveryVars == <<open, emitted, settled, delivered>>

Unsettled == (1 .. emitted) \ settled

DeliveryInit ==
    /\ open = FALSE
    /\ emitted = 0
    /\ settled = {}
    /\ delivered = <<>>

Open ==
    /\ emitted = 0
    /\ open' = TRUE
    /\ UNCHANGED <<emitted, settled, delivered>>

Close ==
    /\ open' = FALSE
    /\ UNCHANGED <<emitted, settled, delivered>>

(* A key frame comes with its header: up to two packets at once. *)
Emit(k) ==
    /\ Cardinality(Unsettled) + k <= Capacity
    /\ emitted' = emitted + k
    /\ UNCHANGED <<open, settled, delivered>>

Deliver(p) ==
    /\ \A i \in DOMAIN delivered : delivered[i] < p
    /\ delivered' = Append(delivered, p)
    /\ settled' = settled \cup {p}
    /\ UNCHANGED <<open, emitted>>

Lose(p) ==
    /\ open => \E q \in Unsettled : p < q
    /\ settled' = settled \cup {p}
    /\ UNCHANGED <<open, emitted, delivered>>

DeliveryNext ==
    \/ Open
    \/ Close
    \/ \E k \in {1, 2} : Emit(k)
    \/ \E p \in Unsettled : Deliver(p) \/ Lose(p)

DeliverySpec == DeliveryInit /\ [][DeliveryNext]_deliveryVars
=============================================================================
