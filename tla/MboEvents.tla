---- MODULE MboEvents ----
(* The simulated network: the events between the order management system and the
   virtual exchange, and the priority queue that delays them
   (Events/Mbo/MboEvent.h, NetworkSimulator/NetworkSimulator.h).

   A queue is a set of events.  The code numbers every event as it is made and
   compares the numbers of two queued events with equal timestamps only, so here
   an event gets a number above those it can be compared with. *)
EXTENDS Integers, FiniteSets

CONSTANTS OutboundLatency, InboundLatency

ASSUME LatencyAssumption == OutboundLatency \in Nat /\ InboundLatency \in Nat

Create(id, price, qty, side) ==
  [kind |-> "Create", order_id |-> id, price |-> price, qty |-> qty, side |-> side]
Cancel(id)    == [kind |-> "Cancel", order_id |-> id]
AckCreate(id) == [kind |-> "AckCreate", order_id |-> id]
AckCancel(id) == [kind |-> "AckCancel", order_id |-> id]
AckFill(id, filled, price) ==
  [kind |-> "AckFill", order_id |-> id, filled_qty |-> filled, price |-> price]

NextSeq(queue, ts) ==
  LET taken == {e.sequence_number : e \in {f \in queue : f.timestamp = ts}}
  IN  IF taken = {} THEN 0 ELSE 1 + CHOOSE n \in taken : \A m \in taken : m <= n

\* Two events made at the same instant leave in the opposite order.
BeforeLifo(a, b) == \/ a.timestamp < b.timestamp
                    \/ a.timestamp = b.timestamp /\ a.sequence_number > b.sequence_number

\* EventCompare: the earliest event first, and among simultaneous ones the oldest.
Before(a, b) == \/ a.timestamp < b.timestamp
                \/ a.timestamp = b.timestamp /\ a.sequence_number < b.sequence_number

\* e is what the priority queue hands out.
IsTop(e, queue) == e \in queue /\ \A f \in queue \ {e} : Before(e, f)

\* The event `payload` made at time `now`, with `later` events of this handler before it.
Sent(queue, now, latency, later, payload) ==
  [timestamp |-> now + latency,
   sequence_number |-> NextSeq(queue, now + latency) + later,
   payload |-> payload]

SendOutbound(queue, now, payload) ==
  queue \cup {Sent(queue, now, OutboundLatency, 0, payload)}

SendInbound(queue, now, payload) ==
  queue \cup {Sent(queue, now, InboundLatency, 0, payload)}
====
