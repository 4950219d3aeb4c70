-------------------------------- MODULE CanRing --------------------------------
(***************************************************************************)
(* The CAN receive path of network/src/can.rs: CanFrame::parse with its    *)
(* filter, and the ring buffer between one producer (the receive           *)
(* interrupt) and one consumer (a task), one memory access per step, as    *)
(* docs/adr/006 intends it to be used.                                     *)
(***************************************************************************)
EXTENDS Naturals, Sequences

CONSTANTS
    RING_CAPACITY,  \* slots of the ring (16)
    Raw             \* raw transceiver frames: their first three bytes

ASSUME RingAssumption ==
    /\ RING_CAPACITY \in Nat /\ RING_CAPACITY > 1
    /\ Raw \subseteq [1 .. 3 -> 0 .. 255]

-----------------------------------------------------------------------------
(* CanFrame::parse                                                          *)

\* 0x7DF, 0x7E0, 0x7E1, 0x7E8
BLOCKED_IDS == {2015, 2016, 2017, 2024}

\* Bits 10:3 of the identifier are in byte 0, bits 2:0 on top of byte 1.
IdOf(raw) == raw[1] * 8 + raw[2] \div 32

DlcOf(raw) == raw[3] % 16

\* The payload, dlc bytes of the rest of the raw frame, is left out.
Parsed(raw) == [id |-> IdOf(raw), dlc |-> DlcOf(raw)]

ParseOk(raw) == IdOf(raw) \notin BLOCKED_IDS /\ DlcOf(raw) <= 8

Frame == {Parsed(raw) : raw \in Raw}

-----------------------------------------------------------------------------

VARIABLES
    frames,     \* the slots: <<>> is None, <<f>> is Some(f)
    head, tail,
    push_pc,    \* where the producer is: "idle", "write", "advance"
    pushing,    \* the frame it pushes
    pop_pc,     \* where the consumer is: "idle", "take", "advance"
    popping,    \* what it has taken
    delivered   \* what pop() last returned

producer == <<push_pc, pushing>>
consumer == <<pop_pc, popping, delivered>>
vars == <<frames, head, tail, producer, consumer>>

Slot == 0 .. RING_CAPACITY - 1

\* Slip: the index is not masked.
After_NoMask(i) == i + 1

\* (i + 1) & (RING_CAPACITY - 1)
After(i) == IF i = RING_CAPACITY - 1 THEN 0 ELSE i + 1

\* Slip: no slot is kept free.
is_full_Never == FALSE

is_full  == After(tail) = head
is_empty == head = tail

Init ==
    /\ frames = [i \in Slot |-> <<>>]
    /\ head = 0 /\ tail = 0
    /\ push_pc = "idle" /\ pushing = <<>>
    /\ pop_pc = "idle" /\ popping = <<>> /\ delivered = <<>>

\* A raw frame arrives, passes the filter, and push() finds room for it. One
\* that does not is dropped: the ring stays as it is.
Receive(raw) ==
    /\ push_pc = "idle" /\ ParseOk(raw) /\ ~is_full
    /\ push_pc' = "write" /\ pushing' = <<Parsed(raw)>>
    /\ UNCHANGED <<frames, head, tail, consumer>>

PushWrite ==
    /\ push_pc = "write" /\ push_pc' = "advance"
    /\ frames' = [frames EXCEPT ![tail] = pushing]
    /\ UNCHANGED <<head, tail, pushing, consumer>>

PushAdvance ==
    /\ push_pc = "advance" /\ push_pc' = "idle"
    /\ tail' = After(tail)
    /\ UNCHANGED <<frames, head, pushing, consumer>>

\* pop() finds the ring non-empty.
PopStart ==
    /\ pop_pc = "idle" /\ ~is_empty
    /\ pop_pc' = "take"
    /\ UNCHANGED <<frames, head, tail, producer, popping, delivered>>

\* Slip: the slot is read and not emptied.
PopTake_Copies ==
    /\ pop_pc = "take" /\ pop_pc' = "advance"
    /\ popping' = frames[head]
    /\ UNCHANGED <<frames, head, tail, producer, delivered>>

PopTake ==
    /\ pop_pc = "take" /\ pop_pc' = "advance"
    /\ popping' = frames[head]
    /\ frames' = [frames EXCEPT ![head] = <<>>]
    /\ UNCHANGED <<head, tail, producer, delivered>>

PopAdvance ==
    /\ pop_pc = "advance" /\ pop_pc' = "idle"
    /\ head' = After(head)
    /\ delivered' = popping
    /\ UNCHANGED <<frames, tail, producer, popping>>

Next ==
    \/ \E raw \in Raw : Receive(raw)
    \/ PushWrite \/ PushAdvance \/ PopStart \/ PopTake \/ PopAdvance

Spec == Init /\ [][Next]_vars

-----------------------------------------------------------------------------
(* Properties *)

\* Every state component has its type.
TypeOK ==
    /\ frames \in [Slot -> {<<>>} \cup {<<f>> : f \in Frame}]
    /\ head \in Slot /\ tail \in Slot
    /\ push_pc \in {"idle", "write", "advance"}
    /\ pop_pc \in {"idle", "take", "advance"}
    /\ {pushing, popping, delivered} \subseteq {<<>>} \cup {<<f>> : f \in Frame}

\* The two sides never meet in a slot: the producer writes only an empty slot
\* (no frame is overwritten), and the consumer takes only a filled one (pop()
\* never returns None from a ring it has found non-empty).
NoSlotConflict ==
    /\ push_pc = "write" => frames[tail] = <<>>
    /\ pop_pc = "take" => frames[head] # <<>>

\* The frames in the ring in arrival order; one that the consumer has taken
\* but not yet stepped over is still the first of them.
Count == IF tail >= head THEN tail - head ELSE RING_CAPACITY + tail - head

Place(k) ==
    IF head + k - 1 < RING_CAPACITY THEN head + k - 1 ELSE head + k - 1 - RING_CAPACITY

Nth(k) == IF k = 1 /\ pop_pc = "advance" THEN popping[1] ELSE frames[Place(k)][1]

Contents == [k \in 1 .. Count |-> Nth(k)]

\* The ring implements a queue that holds RING_CAPACITY - 1 frames: nothing is
\* lost, duplicated or reordered whatever way push() and pop() interleave.
Queue == INSTANCE CanQueue
            WITH Bound <- RING_CAPACITY - 1, queue <- Contents

IsQueue == Queue!Spec

=============================================================================
