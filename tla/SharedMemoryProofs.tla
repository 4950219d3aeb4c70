-------------------------- MODULE SharedMemoryProofs --------------------------
(***************************************************************************)
(* The two structures that code running at the same time works on with     *)
(* single memory accesses.  The two sides of the CAN ring buffer never     *)
(* meet in a slot, and the ring implements a queue, for a ring of any      *)
(* capacity.  The spinlock is correct for any number of harts when only    *)
(* trap handlers use it, nested faults included.  (With a preemptible user *)
(* it is not: see the runs of MCSpinlock.)                                 *)
(***************************************************************************)
EXTENDS CanRing, Spinlock, SequenceTheorems, TLAPS

-----------------------------------------------------------------------------
(* The CAN ring                                                             *)

\* Slot i lies in the stretch from head up to tail.
InUse(i) ==
    IF head <= tail THEN head <= i /\ i < tail ELSE head <= i \/ i < tail

\* The slots the producer has filled and the consumer has not emptied yet:
\* those in use, but for one each side may have touched before it advances.
Filled(i) ==
    \/ InUse(i) /\ ~(pop_pc = "advance" /\ i = head)
    \/ push_pc = "advance" /\ i = tail

\* A slot holds a frame exactly when it is Filled; while the producer is in a
\* push there is room, and while the consumer is in a pop there is a frame.
\* NoSlotConflict speaks of two slots at two moments and is not inductive: the
\* state of every slot is needed to know that of the next head and tail.
IInv ==
    /\ TypeOK
    /\ \A i \in Slot : frames[i] # <<>> <=> Filled(i)
    /\ push_pc # "idle" => ~is_full /\ pushing # <<>>
    /\ pop_pc # "idle" => ~is_empty
    /\ pop_pc = "advance" => popping # <<>>

\* Successors stay in the ring, and no slot is its own successor.
LEMMA AfterFacts ==
    \A i \in Slot : After(i) \in Slot /\ After(i) # i
BY RingAssumption DEF Slot, After

\* Every step preserves the types.
LEMMA TypeStep ==
    ASSUME TypeOK, [Next]_vars
    PROVE  TypeOK'
<1>1. CASE UNCHANGED vars
  BY <1>1 DEF TypeOK, vars, producer, consumer
<1>2. ASSUME NEW raw \in Raw, Receive(raw) PROVE TypeOK'
  BY <1>2 DEF TypeOK, Receive, consumer, Frame
<1>3. CASE PushWrite
  BY <1>3 DEF TypeOK, PushWrite, consumer
<1>4. CASE PushAdvance
  BY <1>4, AfterFacts DEF TypeOK, PushAdvance, consumer
<1>5. CASE PopStart
  BY <1>5 DEF TypeOK, PopStart, producer
<1>6. CASE PopTake
  BY <1>6 DEF TypeOK, PopTake, producer
<1>7. CASE PopAdvance
  BY <1>7, AfterFacts DEF TypeOK, PopAdvance, producer
<1>8. QED
  BY <1>1, <1>2, <1>3, <1>4, <1>5, <1>6, <1>7 DEF Next

\* Every step preserves the account of the filled slots.
LEMMA FilledStep ==
    ASSUME IInv, [Next]_vars, NEW i \in Slot
    PROVE  frames'[i] # <<>> <=> Filled(i)'
<1> USE RingAssumption DEF TypeOK, Slot
<1>1. CASE UNCHANGED vars
  BY <1>1 DEF IInv, Filled, InUse, vars, producer, consumer
<1>2. ASSUME NEW raw \in Raw, Receive(raw) PROVE frames'[i] # <<>> <=> Filled(i)'
  BY <1>2 DEF IInv, Filled, InUse, Receive, consumer
<1>3. CASE PushWrite
  BY <1>3 DEF IInv, Filled, InUse, PushWrite, consumer, is_full, is_empty, After
<1>4. CASE PushAdvance
  BY <1>4 DEF IInv, Filled, InUse, PushAdvance, consumer, is_full, is_empty, After
<1>5. CASE PopStart
  BY <1>5 DEF IInv, Filled, InUse, PopStart, producer
<1>6. CASE PopTake
  BY <1>6 DEF IInv, Filled, InUse, PopTake, producer, is_full, is_empty, After
<1>7. CASE PopAdvance
  BY <1>7 DEF IInv, Filled, InUse, PopAdvance, producer, is_full, is_empty, After
<1>8. QED
  BY <1>1, <1>2, <1>3, <1>4, <1>5, <1>6, <1>7 DEF Next

\* Neither side can take away what the other has found: pops only make room,
\* pushes only add frames.
LEMMA RoomStep ==
    ASSUME IInv, [Next]_vars
    PROVE  /\ push_pc' # "idle" => ~is_full' /\ pushing' # <<>>
           /\ pop_pc' # "idle" => ~is_empty'
           /\ pop_pc' = "advance" => popping' # <<>>
<1> USE RingAssumption DEF TypeOK, Slot, is_full, is_empty
<1>1. CASE UNCHANGED vars
  BY <1>1 DEF IInv, vars, producer, consumer
<1>2. ASSUME NEW raw \in Raw, Receive(raw)
      PROVE  /\ push_pc' # "idle" => ~is_full' /\ pushing' # <<>>
             /\ pop_pc' # "idle" => ~is_empty'
             /\ pop_pc' = "advance" => popping' # <<>>
  BY <1>2 DEF IInv, Receive, consumer
<1>3. CASE PushWrite
  BY <1>3 DEF IInv, PushWrite, consumer
<1>4. CASE PushAdvance
  BY <1>4 DEF IInv, PushAdvance, consumer, After
<1>5. CASE PopStart
  BY <1>5 DEF IInv, PopStart, producer
<1>6. CASE PopTake
  BY <1>6 DEF IInv, PopTake, producer, Filled, InUse
<1>7. CASE PopAdvance
  BY <1>7 DEF IInv, PopAdvance, producer, After
<1>8. QED
  BY <1>1, <1>2, <1>3, <1>4, <1>5, <1>6, <1>7 DEF Next

\* The inductive invariant holds in every reachable state.
LEMMA RingInductive == Spec => []IInv
<1>1. Init => IInv
  BY RingAssumption
     DEF Init, IInv, TypeOK, Slot, Filled, InUse, is_full, is_empty
<1>2. IInv /\ [Next]_vars => IInv'
  <2> SUFFICES ASSUME IInv, [Next]_vars PROVE IInv'
    OBVIOUS
  <2>1. TypeOK'
    BY TypeStep DEF IInv
  <2>2. \A i \in Slot : frames'[i] # <<>> <=> Filled(i)'
    BY FilledStep
  <2>3. QED
    BY <2>1, <2>2, RoomStep DEF IInv
<1>3. QED
  BY <1>1, <1>2, PTL DEF Spec

\* For every capacity, producer and consumer never meet in a slot: no frame is
\* overwritten before it is popped and pop() never finds an empty slot.
THEOREM SidesNeverMeet == Spec => []NoSlotConflict
<1>1. IInv => NoSlotConflict
  BY RingAssumption
     DEF IInv, NoSlotConflict, TypeOK, Slot, Filled, InUse, is_full, is_empty, After
<1>2. QED
  BY <1>1, RingInductive, PTL

\* Every state component keeps its type: head and tail stay inside the array for
\* every capacity, whatever way push() and pop() interleave.
THEOREM TypeCorrect == Spec => []TypeOK
<1>1. IInv => TypeOK
  BY DEF IInv
<1>2. QED
  BY <1>1, RingInductive, PTL

-----------------------------------------------------------------------------
(* The ring as a queue                                                      *)

\* A function on 1 .. n is a sequence.
LEMMA FunctionIsSeq ==
    ASSUME NEW S, NEW n \in Nat, NEW q \in [1 .. n -> S]
    PROVE  q \in Seq(S) /\ Len(q) = n
OBVIOUS

\* How a sequence is recognised as another one with an element more at its end.
LEMMA AppendedSeq ==
    ASSUME NEW S, NEW q \in Seq(S), NEW t \in Seq(S), Len(t) = Len(q) + 1,
           \A k \in 1 .. Len(q) : t[k] = q[k]
    PROVE  t = Append(q, t[Len(t)])
<1> DEFINE u == Append(q, t[Len(t)])
<1>1. t[Len(t)] \in S
  BY LenProperties, ElementOfSeq
<1>2. u \in Seq(S) /\ Len(u) = Len(q) + 1 /\ u[Len(q) + 1] = t[Len(t)]
      /\ \A k \in 1 .. Len(q) : u[k] = q[k]
  BY <1>1
<1>3. \A k \in 1 .. Len(t) : t[k] = u[k]
  BY <1>2, LenProperties
<1> HIDE DEF u
<1>4. t = u
  BY <1>2, <1>3, SeqEqual
<1>5. QED
  BY <1>4 DEF u

\* ... and as the rest of another one.
LEMMA TailSeq ==
    ASSUME NEW S, NEW q \in Seq(S), NEW t \in Seq(S), Len(q) = Len(t) + 1,
           \A k \in 1 .. Len(t) : t[k] = q[k + 1]
    PROVE  q # <<>> /\ t = Tail(q) /\ Head(q) = q[1]
<1>1. q # <<>> /\ Len(t) \in Nat
  BY LenProperties
<1>2. Tail(q) \in Seq(S) /\ Len(Tail(q)) = Len(t) /\ Head(q) = q[1]
      /\ \A k \in 1 .. Len(t) : Tail(q)[k] = q[k + 1]
  BY <1>1
<1>3. QED
  BY <1>1, <1>2, SeqEqual

\* The places of the first Count frames are the slots in use, the next one is
\* the tail.
LEMMA PlaceFacts ==
    ASSUME TypeOK
    PROVE  /\ Count \in 0 .. RING_CAPACITY - 1
           /\ Place(1) = head /\ Place(Count + 1) = tail
           /\ \A k \in 1 .. Count : /\ Place(k) \in Slot /\ Place(k) # tail
                                    /\ InUse(Place(k))
                                    /\ Place(k) = head => k = 1
           /\ is_empty <=> Count = 0
BY RingAssumption DEF TypeOK, Slot, Count, Place, InUse, is_empty

ContentsOK ==
    /\ Contents \in Seq(Frame) /\ Len(Contents) = Count
    /\ Count \in 0 .. RING_CAPACITY - 1
    /\ \A k \in 1 .. Count : Contents[k] = Nth(k)

\* The contents are a sequence of frames.
LEMMA ContentsFacts == IInv => ContentsOK
<1> SUFFICES ASSUME IInv PROVE ContentsOK
  OBVIOUS
<1>1. TypeOK
  BY DEF IInv
<1>2. ASSUME NEW k \in 1 .. Count PROVE Nth(k) \in Frame
  <2>1. CASE k = 1 /\ pop_pc = "advance"
    BY <2>1 DEF IInv, TypeOK, Nth
  <2>2. CASE ~(k = 1 /\ pop_pc = "advance")
    <3>1. Filled(Place(k)) /\ Place(k) \in Slot
      BY <1>1, <2>2, PlaceFacts DEF Filled
    <3>2. frames[Place(k)] # <<>> /\ frames[Place(k)] \in {<<>>} \cup {<<f>> : f \in Frame}
      BY <1>1, <3>1 DEF IInv, TypeOK
    <3>3. QED
      BY <2>2, <3>2 DEF Nth
  <2>3. QED
    BY <2>1, <2>2
<1>3. Contents \in [1 .. Count -> Frame] /\ \A k \in 1 .. Count : Contents[k] = Nth(k)
  BY <1>2 DEF Contents
<1>4. Count \in Nat /\ Count \in 0 .. RING_CAPACITY - 1
  BY <1>1, PlaceFacts, RingAssumption
<1>5. QED
  BY <1>3, <1>4, FunctionIsSeq DEF ContentsOK

\* A step that leaves each frame in its place in the order changes nothing for
\* the reader.
LEMMA SameContents ==
    ASSUME Count' = Count, \A k \in 1 .. Count : Nth(k)' = Nth(k)
    PROVE  Contents' = Contents
BY DEF Contents

\* Every step of either side is a step of the queue, or none.
LEMMA QueueStep ==
    ASSUME IInv, IInv', [Next]_vars
    PROVE  [Queue!Next]_<<Contents, delivered>>
<1> USE RingAssumption
<1>0. ContentsOK /\ ContentsOK'
  BY ContentsFacts, PTL
<1>1. TypeOK /\ TypeOK'
  BY DEF IInv
<1>2. /\ Count \in Nat /\ \A k \in 1 .. Count : Place(k) \in Slot /\ Place(k) # tail
      /\ \A k \in 1 .. Count : Place(k) = head => k = 1
      /\ Place(1) = head /\ Place(Count + 1) = tail
      /\ is_empty <=> Count = 0
  BY <1>1, PlaceFacts
<1>3. CASE UNCHANGED vars
  BY <1>3 DEF vars, producer, consumer, Contents, Count, Nth, Place
<1>4. ASSUME NEW raw \in Raw, Receive(raw) PROVE UNCHANGED <<Contents, delivered>>
  BY <1>4 DEF Receive, consumer, Contents, Count, Nth, Place
<1>5. CASE PushWrite
  <2>1. \A k \in 1 .. Count : Nth(k)' = Nth(k)
    BY <1>1, <1>2, <1>5 DEF PushWrite, consumer, Nth, Place, TypeOK
  <2>2. Count' = Count /\ delivered' = delivered
    BY <1>5 DEF PushWrite, consumer, Count
  <2>3. QED
    BY <2>1, <2>2, SameContents
<1>6. CASE PushAdvance
  <2>1. Count' = Count + 1 /\ \A k \in 1 .. Count + 1 : Nth(k)' = Nth(k)
    BY <1>1, <1>6 DEF PushAdvance, consumer, Nth, Place, Count, TypeOK, Slot,
                      IInv, is_full, After
  <2>2. Contents' = Append(Contents, Contents'[Count + 1])
    <3>1. /\ Contents \in Seq(Frame) /\ Len(Contents) = Count
          /\ \A k \in 1 .. Count : Contents[k] = Nth(k)
          /\ Contents' \in Seq(Frame) /\ Len(Contents') = Count + 1
          /\ \A k \in 1 .. Count + 1 : Contents'[k] = Nth(k)
      BY <1>0, <1>2, <2>1 DEF ContentsOK
    <3>2. QED
      BY <1>2, <3>1, AppendedSeq
  <2>3. Contents'[Count + 1] \in Frame /\ Len(Contents) < RING_CAPACITY - 1
    BY <1>0, <1>2, <2>1, ElementOfSeq DEF ContentsOK
  <2>4. QED
    BY <1>6, <2>2, <2>3 DEF Queue!Next, Queue!Enqueue, PushAdvance, consumer
<1>7. CASE PopStart
  BY <1>7 DEF PopStart, producer, Contents, Count, Nth, Place
<1>8. CASE PopTake
  <2>1. \A k \in 1 .. Count : Nth(k)' = Nth(k)
    BY <1>1, <1>2, <1>8 DEF PopTake, producer, Nth, Place, TypeOK
  <2>2. Count' = Count /\ delivered' = delivered
    BY <1>8 DEF PopTake, producer, Count
  <2>3. QED
    BY <2>1, <2>2, SameContents
<1>9. CASE PopAdvance
  <2>1. Count \in Nat \ {0} /\ Count' = Count - 1
    BY <1>1, <1>9 DEF PopAdvance, producer, Count, TypeOK, Slot, IInv, is_empty, After
  <2>2. Contents' \in Seq(Frame) /\ Len(Contents) = Len(Contents') + 1
        /\ Contents \in Seq(Frame) /\ Len(Contents') = Count'
    BY <1>0, <2>1 DEF ContentsOK
  <2>3. ASSUME NEW k \in 1 .. Count' PROVE Contents'[k] = Contents[k + 1]
    <3>1. k + 1 \in 1 .. Count
      BY <2>1
    <3>2. Nth(k)' = Nth(k + 1)
      BY <1>1, <1>9, <2>1 DEF PopAdvance, producer, Nth, Place, Count, TypeOK, Slot,
                              IInv, is_empty, After
    <3>3. QED
      BY <1>0, <3>1, <3>2 DEF ContentsOK
  <2>4. Contents # <<>> /\ Contents' = Tail(Contents) /\ Head(Contents) = Contents[1]
    BY <2>2, <2>3, TailSeq
  <2>5. delivered' = <<Contents[1]>>
    <3>1. 1 \in 1 .. Count
      BY <2>1
    <3>2. Contents[1] = popping[1] /\ delivered' = popping
      BY <1>0, <1>9, <3>1 DEF PopAdvance, Nth, ContentsOK
    <3>3. PICK f \in Frame : popping = <<f>>
      BY <1>9 DEF PopAdvance, IInv, TypeOK
    <3>4. QED
      BY <3>2, <3>3
  <2>6. QED
    BY <2>4, <2>5 DEF Queue!Next, Queue!Dequeue
<1>10. QED
  BY <1>3, <1>4, <1>5, <1>6, <1>7, <1>8, <1>9 DEF Next

\* For every capacity, the ring is a first-in first-out queue of one frame less
\* than its slots: whatever way push() and pop() interleave, nothing is lost,
\* duplicated or reordered.
THEOREM RingIsQueue == Spec => IsQueue
<1>1. Init => Queue!Init
  <2> SUFFICES ASSUME Init PROVE Queue!Init
    OBVIOUS
  <2>1. Count = 0
    BY DEF Init, Count
  <2>2. Contents = <<>>
    BY <2>1 DEF Contents
  <2>3. QED
    BY <2>2 DEF Init, Queue!Init
<1>2. IInv /\ IInv' /\ [Next]_vars => [Queue!Next]_<<Contents, delivered>>
  BY QueueStep
<1>3. QED
  BY <1>1, <1>2, RingInductive, PTL DEF Spec, IsQueue, Queue!Spec

-----------------------------------------------------------------------------
(* The spinlock                                                             *)

\* From the moment an activation has seen or made its hart the owner until it
\* has released the lock, its hart is the owner.
Held == {"inc", "store_inc", "init", "cs", "store_dec", "release"}

LockInv ==
    /\ TypeOK_Spinlock
    /\ \A a \in Activation : pc[a] \in Held => owner = Me(a)

\* While no handler has faulted inside, somebody is on the way to giving the
\* lock back, and the hold count is 1: no activation gets to the reentrant path.
HInv ==
    ~faulted =>
        /\ owner # 0 => \E a \in Activation : owner = Me(a) /\ pc[a] \in Held
        /\ \A a \in Activation : /\ pc[a] \notin {"inc", "store_inc"}
                                 /\ pc[a] = "cs" => depth = 1
                                 /\ pc[a] = "store_dec" => reg[a] = 1

\* Every activation, handler or user task, belongs to a hart.
LEMMA ActivationFacts ==
    \A a \in Activation : HartOf(a) \in Hart /\ Me(a) \in {h + 1 : h \in Hart}
BY SpinlockAssumption DEF Activation, Handlers, Users, HartOf, Me

\* Activations of handlers are told apart by their harts.
LEMMA HandlerFacts ==
    ASSUME UserHarts = {}
    PROVE  /\ \A a \in Activation : HartOf(a) \in Hart /\ Me(a) \in Nat /\ Me(a) # 0
           /\ \A a, b \in Activation : Me(a) = Me(b) => a = b
           /\ \A a \in Activation : Me(a) \in {h + 1 : h \in Hart}
BY SpinlockAssumption DEF Activation, Handlers, Users, HartOf, Me

\* Every step preserves the types.
LEMMA LockTypeStep ==
    ASSUME TypeOK_Spinlock, [Next_Spinlock]_spinlockVars
    PROVE  TypeOK_Spinlock'
<1>1. CASE UNCHANGED spinlockVars
  BY <1>1 DEF spinlockVars, TypeOK_Spinlock
<1>2. ASSUME NEW a \in Activation, Call(a) \/ Proceeds(a) \/ Cas(a) \/ NestedFault(a)
      PROVE  TypeOK_Spinlock'
  <2>1. pc' \in [Activation -> PC]
    BY <1>2 DEF TypeOK_Spinlock, PC, Goto, Proceeds, Call, LoadOwner, LoadForInc, StoreInc, Cas,
                InitDepth, LoadForDec, StoreDec, Release, NestedFault
  <2>2. depth' \in 0 .. USIZE - 1
    <3>1. CASE depth' = depth
      BY <3>1 DEF TypeOK_Spinlock
    <3>2. CASE StoreInc(a)
      BY <3>2, SpinlockAssumption DEF TypeOK_Spinlock, StoreInc
    <3>3. CASE StoreDec(a)
      BY <3>3, SpinlockAssumption DEF TypeOK_Spinlock, StoreDec
    <3>4. CASE InitDepth(a)
      BY <3>4, SpinlockAssumption DEF InitDepth
    <3>5. QED
      BY <1>2, <3>1, <3>2, <3>3, <3>4
         DEF Proceeds, Call, LoadOwner, LoadForInc, Cas, LoadForDec, Release, NestedFault
  <2>3. reg' \in [Activation -> 0 .. USIZE - 1]
    BY <1>2 DEF TypeOK_Spinlock, Proceeds, Call, LoadOwner, LoadForInc, StoreInc, Cas,
                InitDepth, LoadForDec, StoreDec, Release, NestedFault
  <2>4. owner' \in {0} \cup {h + 1 : h \in Hart}
    BY <1>2, ActivationFacts DEF TypeOK_Spinlock, Proceeds, Call, LoadOwner, LoadForInc,
       StoreInc, Cas,
                InitDepth, LoadForDec, StoreDec, Release, NestedFault
  <2>5. faulted' \in BOOLEAN
    BY <1>2 DEF TypeOK_Spinlock, Proceeds, Call, LoadOwner, LoadForInc, StoreInc, Cas,
                InitDepth, LoadForDec, StoreDec, Release, NestedFault
  <2>6. QED
    BY <2>1, <2>2, <2>3, <2>4, <2>5 DEF TypeOK_Spinlock
<1>3. QED
  BY <1>1, <1>2 DEF Next_Spinlock

\* Every step preserves the ownership invariant.
LEMMA HeldStep ==
    ASSUME LockInv, UserHarts = {}, [Next_Spinlock]_spinlockVars, NEW b \in Activation, pc'[b] \in Held
    PROVE  owner' = Me(b)
<1> USE HandlerFacts
<1>1. CASE UNCHANGED spinlockVars
  BY <1>1 DEF spinlockVars, LockInv
<1>2. ASSUME NEW a \in Activation, Call(a) \/ NestedFault(a) \/ LoadForInc(a) \/ StoreInc(a)
                                   \/ InitDepth(a) \/ LoadForDec(a)
      PROVE  owner' = Me(b)
  BY <1>2 DEF LockInv, TypeOK_Spinlock, Held, PC, At, Goto, Call, NestedFault, LoadForInc, StoreInc,
              InitDepth, LoadForDec
<1>3. ASSUME NEW a \in Activation, LoadOwner(a) PROVE owner' = Me(b)
  BY <1>3 DEF LockInv, TypeOK_Spinlock, Held, At, Goto, LoadOwner
<1>4. ASSUME NEW a \in Activation, Cas(a) PROVE owner' = Me(b)
  <2>1. CASE b = a
    BY <1>4, <2>1 DEF Cas
  <2>2. CASE b # a
    <3>1. pc[b] \in Held /\ owner = 0
      BY <1>4, <2>2 DEF Cas, Goto, LockInv, TypeOK_Spinlock
    <3>2. QED
      BY <3>1 DEF LockInv
  <2>3. QED
    BY <2>1, <2>2
<1>5. ASSUME NEW a \in Activation, StoreDec(a) PROVE owner' = Me(b)
  BY <1>5 DEF LockInv, TypeOK_Spinlock, Held, At, Goto, StoreDec
<1>6. ASSUME NEW a \in Activation, Release(a) PROVE owner' = Me(b)
  <2>1. CASE b = a
    BY <1>6, <2>1 DEF Release, Goto, Held, LockInv, TypeOK_Spinlock
  <2>2. CASE b # a
    <3>1. pc[b] \in Held /\ pc[a] \in Held
      BY <1>6, <2>2 DEF Release, At, Goto, Held, LockInv, TypeOK_Spinlock
    <3>2. QED
      BY <2>2, <3>1 DEF LockInv
  <2>3. QED
    BY <2>1, <2>2
<1>7. QED
  BY <1>1, <1>2, <1>3, <1>4, <1>5, <1>6 DEF Next_Spinlock, Proceeds

\* Initially nobody is inside.
LEMMA LockInit == Init_Spinlock => LockInv /\ HInv
<1> SUFFICES ASSUME Init_Spinlock PROVE LockInv /\ HInv
  OBVIOUS
<1>1. /\ owner = 0 /\ owner \in {0} \cup {h + 1 : h \in Hart}
      /\ depth \in 0 .. USIZE - 1
      /\ reg \in [Activation -> 0 .. USIZE - 1]
  BY SpinlockAssumption DEF Init_Spinlock
<1>2. pc \in [Activation -> PC] /\ \A a \in Activation : pc[a] = "out"
  BY DEF Init_Spinlock, PC
<1>3. faulted \in BOOLEAN
  BY DEF Init_Spinlock
<1>4. QED
  BY <1>1, <1>2, <1>3 DEF LockInv, TypeOK_Spinlock, HInv, Held

\* Every state component keeps its type, whoever uses the lock: the hold count
\* stays a usize, also when unlock() subtracts from 0 or nested traps add to it.
THEOREM LockTypeCorrect == Spec_Spinlock => []TypeOK_Spinlock
<1>1. Init_Spinlock => TypeOK_Spinlock
  BY LockInit DEF LockInv
<1>2. TypeOK_Spinlock /\ [Next_Spinlock]_spinlockVars => TypeOK_Spinlock'
  BY LockTypeStep
<1>3. QED
  BY <1>1, <1>2, PTL DEF Spec_Spinlock

\* The inductive invariant holds in every reachable state.
LEMMA SpinlockInductive ==
    ASSUME UserHarts = {}
    PROVE  Spec_Spinlock => []LockInv
<1>1. LockInv /\ [Next_Spinlock]_spinlockVars => LockInv'
  BY LockTypeStep, HeldStep DEF LockInv
<1>2. QED
  BY <1>1, LockInit, PTL DEF Spec_Spinlock

\* The hold count goes from 1 to 0, in usize arithmetic.
LEMMA LastHold == (1 + USIZE - 1) % USIZE = 0
<1>1. USIZE \in Nat /\ USIZE > 0 /\ 1 + USIZE - 1 = USIZE
  BY SpinlockAssumption
<1>2. QED
  BY <1>1

\* Every step of a handler keeps the hold count at 1 inside the lock, and an
\* owner on its way out, until a handler faults inside.
LEMMA HoldStep ==
    ASSUME LockInv, HInv, UserHarts = {}, [Next_Spinlock]_spinlockVars
    PROVE  HInv'
<1> USE HandlerFacts
<1> SUFFICES ASSUME ~faulted' PROVE HInv'
  BY DEF HInv
<1>1. CASE UNCHANGED spinlockVars
  BY <1>1 DEF spinlockVars, HInv
<1>2. ASSUME NEW a \in Activation, Call(a) \/ LoadOwner(a) \/ LoadForInc(a) \/ StoreInc(a)
                                   \/ InitDepth(a) \/ LoadForDec(a) \/ StoreDec(a)
                                   \/ Release(a) \/ Cas(a) \/ NestedFault(a)
      PROVE  HInv'
  <2>1. ~faulted /\ ~NestedFault(a) /\ ~LoadForInc(a) /\ ~StoreInc(a)
    BY <1>2 DEF HInv, At, Call, LoadOwner, LoadForInc, StoreInc, InitDepth, LoadForDec,
                StoreDec, Release, Cas, NestedFault
  <2>2. CASE Call(a)
    BY <2>1, <2>2 DEF HInv, LockInv, TypeOK_Spinlock, Held, At, Goto, Call
  <2>3. CASE LoadOwner(a)
    <3>1. owner # Me(a)
      BY <2>1, <2>3 DEF HInv, Held, At, LoadOwner
    <3>2. QED
      BY <2>1, <2>3, <3>1 DEF HInv, LockInv, TypeOK_Spinlock, Held, At, Goto, LoadOwner
  <2>4. CASE InitDepth(a)
    BY <2>1, <2>4 DEF HInv, LockInv, TypeOK_Spinlock, Held, At, Goto, InitDepth
  <2>5. CASE LoadForDec(a)
    BY <2>1, <2>5 DEF HInv, LockInv, TypeOK_Spinlock, Held, At, Goto, LoadForDec
  <2>6. CASE StoreDec(a)
    <3>1. reg[a] = 1 /\ depth' = 0 /\ pc' = [pc EXCEPT ![a] = "release"]
      BY <2>1, <2>6, LastHold DEF HInv, At, Goto, StoreDec
    <3>2. owner = Me(a) /\ owner' = owner
      BY <2>6 DEF LockInv, Held, At, StoreDec
    <3>3. \A b \in Activation : b # a => pc[b] \notin Held
      BY <3>2 DEF LockInv
    <3>4. QED
      BY <2>1, <2>6, <3>1, <3>2, <3>3 DEF HInv, LockInv, TypeOK_Spinlock, Held, StoreDec
  <2>7. CASE Release(a)
    <3>1. owner = Me(a) /\ owner' = 0
      BY <2>7 DEF LockInv, Held, At, Release
    <3>2. QED
      BY <2>1, <2>7, <3>1 DEF HInv, LockInv, TypeOK_Spinlock, Held, At, Goto, Release
  <2>8. CASE Cas(a)
    BY <2>1, <2>8 DEF HInv, LockInv, TypeOK_Spinlock, Held, At, Goto, Cas
  <2>9. QED
    BY <1>2, <2>1, <2>2, <2>3, <2>4, <2>5, <2>6, <2>7, <2>8
<1>3. QED
  BY <1>1, <1>2 DEF Next_Spinlock, Proceeds

\* The lock is given back: while no handler has faulted inside, a hart that owns
\* it is between its compare-and-exchange and its releasing store, for any
\* number of harts whose handlers are the only users.
THEOREM LockIsGivenBack ==
    ASSUME UserHarts = {}
    PROVE  Spec_Spinlock => []NotLeaked
<1>1. LockInv /\ HInv => NotLeaked
  <2> SUFFICES ASSUME LockInv, HInv, NEW h \in Hart, owner = h + 1, ~faulted
               PROVE  \E a \in Activation : HartOf(a) = h /\ pc[a] \notin {"out", "load", "cas"}
    BY DEF NotLeaked
  <2>1. h \in Nat /\ owner # 0
    BY SpinlockAssumption
  <2>2. PICK a \in Activation : owner = Me(a) /\ pc[a] \in Held
    BY <2>1 DEF HInv
  <2>3. HartOf(a) = h
    <3>1. HartOf(a) \in Nat
      BY HandlerFacts, SpinlockAssumption
    <3>2. QED
      BY <2>1, <2>2, <3>1 DEF Me
  <2>4. QED
    BY <2>2, <2>3 DEF Held
<1>2. HInv /\ LockInv /\ [Next_Spinlock]_spinlockVars => HInv'
  BY HoldStep
<1>3. QED
  BY <1>1, <1>2, LockInit, SpinlockInductive, PTL DEF Spec_Spinlock

\* With trap handlers as its only users, the lock excludes the other harts,
\* for any number of harts and even if handlers fault while they hold it.
THEOREM HandlersExcludeEachOther ==
    ASSUME UserHarts = {}
    PROVE  Spec_Spinlock => []MutualExclusion
<1>1. LockInv => MutualExclusion
  BY HandlerFacts DEF LockInv, MutualExclusion, Held
<1>2. QED
  BY <1>1, SpinlockInductive, PTL

\* Under the same condition the comment on `depth` is right: it is only
\* touched by the hart that owns the lock.
THEOREM DepthTouchedByOwner ==
    ASSUME UserHarts = {}
    PROVE  Spec_Spinlock => []DepthOwned
<1>1. LockInv => DepthOwned
  BY DEF LockInv, DepthOwned, Held
<1>2. QED
  BY <1>1, SpinlockInductive, PTL

=============================================================================
