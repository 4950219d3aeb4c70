------------------------------- MODULE CanQueue -------------------------------
(* What the CAN receive path promises its reader: a bounded first-in         *)
(* first-out queue of frames.                                                *)
EXTENDS Sequences, Naturals

CONSTANTS Frame, Bound

VARIABLES
    queue,     \* frames received and not yet delivered
    delivered  \* the last frame handed to the consumer, or <<>>

Init == queue = <<>> /\ delivered = <<>>

Enqueue ==
    /\ Len(queue) < Bound
    /\ \E f \in Frame : queue' = Append(queue, f)
    /\ UNCHANGED delivered

Dequeue ==
    /\ queue # <<>>
    /\ delivered' = <<Head(queue)>>
    /\ queue' = Tail(queue)

Next == Enqueue \/ Dequeue

Spec == Init /\ [][Next]_<<queue, delivered>>

=============================================================================
