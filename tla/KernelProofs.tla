---------------------------- MODULE KernelProofs ----------------------------
(***************************************************************************)
(* The safety invariants of Kernel, proved for every number of partitions, *)
(* every registration of tasks and every capability table that satisfies   *)
(* the assumptions of Kernel.                                              *)
(***************************************************************************)
EXTENDS Kernel, WellFoundedInduction, TLAPS

-----------------------------------------------------------------------------
(* One call of schedule(), for every table and every number of partitions   *)

\* A non-empty set of naturals has a least element: the searches of the code
\* that stop at the first match are well defined.
LEMMA LeastExists ==
    ASSUME NEW S \in SUBSET Nat, S # {}
    PROVE  \E x \in S : \A y \in S : x <= y
<1>1. IsWellFoundedOn(OpToRel(<, Nat), Nat)
  BY NatLessThanWellFounded, Zenon
<1>2. PICK x \in S : \A y \in S : ~(<<y, x>> \in OpToRel(<, Nat))
  BY <1>1, WFMin, Zenon
<1>3. \A y \in S : ~(y < x)
  BY <1>2, Zenon DEF OpToRel
<1>4. QED
  BY <1>3

\* The slots and the states of the scheduler are what their names say.
LEMMA SlotFacts ==
    /\ IDLE \in Slot
    /\ Slot \subseteq Nat
    /\ \A i \in Slot : i # MAX_PARTITIONS
    /\ Ready \in TaskState /\ Running \in TaskState
    /\ Terminated \in TaskState /\ NoTask \in TaskState
    /\ 0 \in Slot
BY SchedulerAssumption
   DEF IDLE, Slot, Ready, Running, Terminated, NoTask, State, TaskState, Kind

\* A partition found by the search is Ready, is the nearest one ahead of the
\* current slot, and is idle only when there is no other.
LEMMA NextPartitionFacts ==
    ASSUME NEW s \in BitMapScheduler, Found(s)
    PROVE  /\ NextPartition(s) \in Slot
           /\ s.task_table[NextPartition(s)].kind = "Ready"
           /\ NextPartition(s) = IDLE => ReadyPartitions(s) = {}
           /\ \A j \in ReadyPartitions(s) :
                 Ahead(s.current, NextPartition(s)) <= Ahead(s.current, j)
<1>1. CASE ReadyPartitions(s) = {}
  BY <1>1, SlotFacts, Zenon DEF Found, NextPartition
<1>2. CASE ReadyPartitions(s) # {}
  <2> DEFINE D == {Ahead(s.current, i) : i \in ReadyPartitions(s)}
  <2>1. s.current \in Slot
    BY Zenon DEF BitMapScheduler
  <2>2. D \in SUBSET Nat
    BY <2>1, SchedulerAssumption DEF ReadyPartitions, Ahead, Slot
  <2>3. D # {}
    BY <1>2, Zenon
  <2>4. PICK d \in D : \A e \in D : d <= e
    BY <2>2, <2>3, LeastExists, Zenon
  <2>5. \E i \in ReadyPartitions(s) :
           \A j \in ReadyPartitions(s) : Ahead(s.current, i) <= Ahead(s.current, j)
    BY <2>4, Zenon
  <2>6. /\ NextPartition(s) \in ReadyPartitions(s)
        /\ \A j \in ReadyPartitions(s) :
              Ahead(s.current, NextPartition(s)) <= Ahead(s.current, j)
    BY <1>2, <2>5, Zenon DEF NextPartition
  <2>7. QED
    BY <2>6, Zenon DEF ReadyPartitions
<1>3. QED
  BY <1>1, <1>2, Zenon

\* The first Ready slot start_first_task looks for exists.
LEMMA FirstReadyFacts ==
    ASSUME NEW s \in BitMapScheduler, \E i \in Slot : s.task_table[i].kind = "Ready"
    PROVE  FirstReady(s) \in Slot /\ s.task_table[FirstReady(s)].kind = "Ready"
<1> DEFINE R == {i \in Slot : s.task_table[i].kind = "Ready"}
<1>1. R \in SUBSET Nat /\ R # {}
  BY SlotFacts, Zenon
<1>2. PICK x \in R : \A y \in R : x <= y
  BY <1>1, LeastExists, Zenon
<1>3. QED
  BY <1>2, Zenon DEF FirstReady

\* schedule() leaves a call that finds nothing to switch to with the same
\* table and the same current slot.
LEMMA ScheduleKeeps ==
    ASSUME NEW s \in BitMapScheduler, NEW t \in BOOLEAN, ~(Triggered(s, t) /\ Found(s))
    PROVE  /\ schedule(s, t) \in BitMapScheduler
           /\ schedule(s, t).task_table = s.task_table
           /\ schedule(s, t).current = s.current
<1>1. Charged(s, t) \in 0 .. MIF
  BY SchedulerAssumption DEF Charged, BitMapScheduler
<1>2. QED
  BY <1>1, SchedulerAssumption DEF schedule, BitMapScheduler

\* A call that switches dispatches a Ready task, marks it Running, puts a
\* Running predecessor back to Ready and touches no other slot.
LEMMA ScheduleSwaps ==
    ASSUME NEW s \in BitMapScheduler, NEW t \in BOOLEAN, Triggered(s, t), Found(s)
    PROVE  LET r == schedule(s, t) IN
           /\ r \in BitMapScheduler
           /\ r.current = NextPartition(s)
           /\ r.task_table[r.current] = Running
           /\ \A i \in Slot \ {r.current} :
                 r.task_table[i] = IF i = s.current /\ s.task_table[i].kind = "Running"
                                   THEN Ready ELSE s.task_table[i]
<1>1. schedule(s, t) = Swap(s)
  BY Zenon DEF schedule
<1>2. NextPartition(s) \in Slot
  BY NextPartitionFacts, Zenon
<1>3. s.current \in Slot /\ s.task_table \in [Slot -> TaskState]
  BY Zenon DEF BitMapScheduler
<1>4. MIF \in 0 .. MIF
  BY SchedulerAssumption
<1>5. QED
  BY <1>1, <1>2, <1>3, <1>4, SlotFacts DEF Swap, BitMapScheduler

-----------------------------------------------------------------------------
(* The inductive invariant, over explicit schedulers S and mutexes M so     *)
(* that it can also be stated of what a handler has prepared when it calls  *)
(* switch_task.                                                             *)

St(S, h, i) == S[h].task_table[i]

Sane(S) ==
    /\ S \in [Hart -> BitMapScheduler]
    /\ \A h \in Hart, i \in Slot : St(S, h, i).kind = "None" <=> i \notin Tasks[h]
    /\ \A h \in Hart : S[h].current \in Tasks[h]
    /\ \A h \in Hart, i \in Slot : St(S, h, i).kind = "Running" => i = S[h].current
    /\ \A h \in Hart :
          St(S, h, IDLE).kind = IF S[h].current = IDLE THEN "Running" ELSE "Ready"

MutexesSane(M) ==
    /\ M \in [Mutex -> KernelMutex]
    /\ \A m \in Mutex :
          /\ M[m].locked <=> M[m].owner # NoOwner
          /\ M[m].waiters # {} => M[m].locked
          /\ M[m].locked => m \in LockCaps[WaiterHart(M[m].owner)][M[m].owner]
          /\ \A w \in M[m].waiters : m \in LockCaps[WaiterHart(w)][w]

BlockedSane(S, M) ==
    \A h \in Hart, i \in Slot :
        /\ St(S, h, i).kind = "BlockedOnMutex" =>
              /\ St(S, h, i).arg \in Mutex
              /\ i \in M[St(S, h, i).arg].waiters
              /\ h = WaiterHart(i)
        /\ St(S, h, i).kind = "BlockedOnIpcSend" => St(S, h, i).arg \in SendCaps[h][i]
        /\ St(S, h, i).kind = "BlockedOnIpcRecv" => St(S, h, i).arg \in RecvCaps[h][i]

Met(S) ==
    \A g, h \in Hart, i, j \in Slot :
        ~ /\ St(S, g, i).kind = "BlockedOnIpcSend"
          /\ St(S, h, j).kind = "BlockedOnIpcRecv"
          /\ St(S, g, i).arg = St(S, h, j).arg

Good(S, M) == Sane(S) /\ MutexesSane(M) /\ BlockedSane(S, M) /\ Met(S)

\* The current task of h may go on or has been given up, but is not blocked.
CurrentSane(S, h) == St(S, h, S[h].current).kind \in {"Running", "Ready", "Terminated"}

RestTypeOK ==
    /\ TICK_COUNT \in 0 .. TICK_MOD - 1
    /\ timer \in [Hart -> 0 .. TICK_MOD]
    /\ msip \in [Hart -> BOOLEAN]
    /\ context \in [Hart -> [Slot -> Context]]
    /\ SCHED_LOCK \in LockHolder
    /\ halted \subseteq Hart

IInv ==
    /\ Good(SCHEDULERS, MUTEXES)
    /\ \A h \in Hart : CurrentSane(SCHEDULERS, h)
    /\ SuspendedFrame
    /\ RestTypeOK

-----------------------------------------------------------------------------
(* Operators of the specification, pointwise                                *)

\* The hart WaiterHart names is one of the two.
LEMMA WaiterHartType == \A w \in Nat : WaiterHart(w) \in Hart
BY Zenon DEF WaiterHart, Hart

\* What SetState changes and what it leaves alone.
LEMMA SetStateFacts ==
    ASSUME NEW S \in [Hart -> BitMapScheduler], NEW h \in Hart, NEW i \in Slot,
           NEW st \in TaskState
    PROVE  LET R == SetState(S, h, i, st) IN
           /\ R \in [Hart -> BitMapScheduler]
           /\ \A g \in Hart : R[g].current = S[g].current
           /\ \A g \in Hart, j \in Slot :
                 St(R, g, j) = IF g = h /\ j = i THEN st ELSE St(S, g, j)
<1>1. S[h] \in BitMapScheduler
  BY Zenon
<1>2. QED
  BY <1>1, Zenon DEF SetState, St, BitMapScheduler

-----------------------------------------------------------------------------
(* The three ways in which a handler changes schedulers and mutexes         *)

\* Tasks other than idle made Ready, put to sleep or terminated.
LEMMA ReadyOrStopped ==
    ASSUME NEW S, NEW M, NEW R \in [Hart -> BitMapScheduler], Good(S, M),
           \A g \in Hart : R[g].current = S[g].current,
           \A g \in Hart, j \in Slot :
              \/ St(R, g, j) = St(S, g, j)
              \/ /\ j \in Tasks[g] \ {IDLE}
                 /\ St(R, g, j).kind \in {"Ready", "Terminated", "Blocked"}
    PROVE  Good(R, M)
<1>1. Sane(R)
  BY SlotFacts, KernelAssumption DEF Good, Sane
<1>2. BlockedSane(R, M)
  BY DEF Good, BlockedSane
<1>3. Met(R)
  BY DEF Good, Met
<1>4. QED
  BY <1>1, <1>2, <1>3, Zenon DEF Good

\* The current task of h, not idle, parked on a mutex or an endpoint.
LEMMA ParkedGood ==
    ASSUME NEW S, NEW M, NEW h \in Hart, NEW st \in TaskState, Good(S, M),
           NEW i \in Tasks[h] \ {IDLE}, i \in Slot,
           \/ /\ st.kind = "BlockedOnMutex" /\ st.arg \in Mutex
              /\ i \in M[st.arg].waiters /\ h = WaiterHart(i)
           \/ /\ st.kind = "BlockedOnIpcSend" /\ st.arg \in SendCaps[h][i]
              /\ \A g \in Hart, j \in Slot :
                    ~(St(S, g, j).kind = "BlockedOnIpcRecv" /\ St(S, g, j).arg = st.arg)
           \/ /\ st.kind = "BlockedOnIpcRecv" /\ st.arg \in RecvCaps[h][i]
              /\ \A g \in Hart, j \in Slot :
                    ~(St(S, g, j).kind = "BlockedOnIpcSend" /\ St(S, g, j).arg = st.arg)
    PROVE  Good(SetState(S, h, i, st), M)
<1> DEFINE R == SetState(S, h, i, st)
<1>1. /\ R \in [Hart -> BitMapScheduler]
      /\ \A g \in Hart : R[g].current = S[g].current
      /\ \A g \in Hart, j \in Slot :
            St(R, g, j) = IF g = h /\ j = i THEN st ELSE St(S, g, j)
  BY SetStateFacts DEF Good, Sane
<1> HIDE DEF R
<1>2. Sane(R)
  BY <1>1, SlotFacts, KernelAssumption DEF Good, Sane
<1>3. BlockedSane(R, M)
  BY <1>1 DEF Good, BlockedSane
<1>4. Met(R)
  BY <1>1 DEF Good, Met
<1>5. QED
  BY <1>2, <1>3, <1>4, Zenon DEF Good, R

\* The highest waiter is one of the waiters.
LEMMA HighestWaiterFacts ==
    ASSUME NEW W \in SUBSET Slot, W # {}
    PROVE  HighestWaiter(W) \in W
<1>1. \E w \in W : \A v \in W : w <= v
  BY LeastExists, SlotFacts, Zenon
<1>2. QED
  BY <1>1, Zenon DEF HighestWaiter

\* Some mutexes handed over, each to a waiter that is no longer blocked.
LEMMA HandedOverGood ==
    ASSUME NEW S, NEW M, Good(S, M), NEW N,
           N = [m \in Mutex |-> N[m]],
           \A m \in Mutex :
              \/ N[m] = M[m]
              \/ /\ N[m] = HandedOver(M[m])
                 /\ M[m].waiters # {} =>
                       St(S, WaiterHart(HighestWaiter(M[m].waiters)),
                             HighestWaiter(M[m].waiters)).kind # "BlockedOnMutex"
    PROVE  Good(S, N)
<1>1. ASSUME NEW m \in Mutex, N[m] = HandedOver(M[m])
      PROVE  /\ N[m] \in KernelMutex
             /\ N[m].locked <=> N[m].owner # NoOwner
             /\ N[m].waiters # {} => N[m].locked
             /\ N[m].locked => m \in LockCaps[WaiterHart(N[m].owner)][N[m].owner]
             /\ \A w \in N[m].waiters : m \in LockCaps[WaiterHart(w)][w]
             /\ N[m].waiters \subseteq M[m].waiters
             /\ \A w \in M[m].waiters \ N[m].waiters : w = HighestWaiter(M[m].waiters)
  <2>1. M[m] \in KernelMutex /\ M[m].waiters \in SUBSET Slot
    BY Zenon DEF Good, MutexesSane, KernelMutex
  <2>2. CASE M[m].waiters = {}
    <3>1. N[m] = [M[m] EXCEPT !.locked = FALSE, !.owner = NoOwner]
      BY <1>1, <2>2, Zenon DEF HandedOver
    <3>2. N[m] \in KernelMutex /\ ~N[m].locked /\ N[m].owner = NoOwner /\ N[m].waiters = {}
      BY <3>1, <2>1, <2>2, Zenon DEF KernelMutex
    <3>3. QED
      BY <3>2, <2>2, Zenon
  <2>3. CASE M[m].waiters # {}
    <3> DEFINE w == HighestWaiter(M[m].waiters)
    <3>1. w \in M[m].waiters
      BY <2>1, <2>3, HighestWaiterFacts, Zenon
    <3>2. N[m] = [locked |-> TRUE, owner |-> w, waiters |-> M[m].waiters \ {w}]
      BY <1>1, <2>3, Zenon DEF HandedOver
    <3>3. w # NoOwner
      BY <2>1, <3>1, SlotFacts, Zenon DEF NoOwner
    <3> HIDE DEF w
    <3>4. N[m] \in KernelMutex
      <4>1. w \in Slot /\ M[m].waiters \ {w} \in SUBSET Slot
        BY <3>1, <2>1, Zenon
      <4>2. ASSUME NEW W \in SUBSET Slot, NEW v \in Slot
            PROVE  [locked |-> TRUE, owner |-> v, waiters |-> W] \in KernelMutex
        BY Zenon DEF KernelMutex
      <4>3. QED
        BY <4>1, <4>2, <3>2, Zenon
    <3>5. \A v \in M[m].waiters : m \in LockCaps[WaiterHart(v)][v]
      BY Zenon DEF Good, MutexesSane
    <3>6. QED
      BY <3>1, <3>2, <3>3, <3>4, <3>5 DEF w
  <2>4. QED
    BY <2>2, <2>3, Zenon
<1>2. MutexesSane(N)
  <2>1. \A m \in Mutex : N[m] \in KernelMutex
    BY <1>1, Zenon DEF Good, MutexesSane
  <2>2. N \in [Mutex -> KernelMutex]
    BY <2>1, Zenon
  <2>3. QED
    BY <1>1, <2>2, Zenon DEF Good, MutexesSane
<1>3. BlockedSane(S, N)
  <2>1. ASSUME NEW h \in Hart, NEW i \in Slot, St(S, h, i).kind = "BlockedOnMutex"
        PROVE  i \in N[St(S, h, i).arg].waiters
    BY <1>1, <2>1 DEF Good, BlockedSane
  <2>2. QED
    BY <2>1, Zenon DEF Good, BlockedSane
<1>4. QED
  BY <1>2, <1>3, Zenon DEF Good

\* What switch_task needs of the schedulers a handler has prepared.
Dispatchable(S, h, t) ==
    /\ \A g \in Hart \ {h} : CurrentSane(S, g)
    /\ (t = FALSE /\ S[h].current # IDLE) \/ CurrentSane(S, h)

\* What it leaves behind.
Dispatched(S, M, h, t, R) ==
    /\ Good(R, M)
    /\ \A g \in Hart : CurrentSane(R, g)
    /\ \A g \in Hart \ {h} : R[g] = S[g]
    /\ R[h] = schedule(S[h], t)
    /\ Switches(S[h], t) \/ R[h].current = S[h].current

\* schedule() on hart h, from what the handler has prepared: the invariant
\* holds again, and the hart is left with a task that may run or, when a tick
\* or the other hart found it so, a terminated one.
LEMMA SwitchGood ==
    ASSUME NEW S, NEW M, NEW h \in Hart, NEW t \in BOOLEAN, Good(S, M),
           Dispatchable(S, h, t)
    PROVE  Dispatched(S, M, h, t, [S EXCEPT ![h] = schedule(S[h], t)])
<1> DEFINE R == [S EXCEPT ![h] = schedule(S[h], t)]
           r == schedule(S[h], t)
           s == S[h]
<1>1. /\ S \in [Hart -> BitMapScheduler] /\ s \in BitMapScheduler
      /\ s.current \in Slot /\ s.current \in Tasks[h]
  BY Zenon DEF Good, Sane, BitMapScheduler
<1>2. R[h] = r /\ \A g \in Hart \ {h} : R[g] = S[g]
  BY <1>1, Zenon
<1>3. CASE ~(Triggered(s, t) /\ Found(s))
  <2>1. /\ r \in BitMapScheduler /\ r.task_table = s.task_table
        /\ r.current = s.current
    BY <1>1, <1>3, ScheduleKeeps, Zenon
  <2>2. R \in [Hart -> BitMapScheduler]
    BY <1>1, <2>1, Zenon
  <2>3. /\ \A g \in Hart : R[g].current = S[g].current
        /\ \A g \in Hart, i \in Slot : St(R, g, i) = St(S, g, i)
    BY <1>2, <2>1, Zenon DEF St
  <2>4. Good(R, M)
    BY <2>2, <2>3, ReadyOrStopped, ZenonT(30)
  <2>5. CurrentSane(S, h)
    <3>1. CASE t = FALSE /\ s.current # IDLE
      <4>1. Triggered(s, t)
        BY <3>1, Zenon DEF Triggered
      <4>2. St(S, h, IDLE).kind = "Ready"
        BY <3>1, Zenon DEF Good, Sane
      <4>3. Found(s)
        BY <4>2, Zenon DEF Found, St
      <4>4. QED
        BY <1>3, <4>1, <4>3, Zenon
    <3>2. QED
      BY <3>1, Zenon DEF Dispatchable
  <2>6. \A g \in Hart : CurrentSane(R, g)
    <3>1. \A g \in Hart : S[g].current \in Slot
      BY <1>1, Zenon DEF BitMapScheduler
    <3>2. QED
      BY <2>3, <2>5, <3>1, Zenon DEF CurrentSane, Dispatchable
  <2>7. QED
    BY <1>2, <2>1, <2>4, <2>6, Zenon DEF Dispatched
<1>4. CASE Triggered(s, t) /\ Found(s)
  <2>1. /\ r \in BitMapScheduler /\ r.current = NextPartition(s)
        /\ r.task_table[r.current] = Running
        /\ \A i \in Slot \ {r.current} :
              r.task_table[i] = IF i = s.current /\ s.task_table[i].kind = "Running"
                                THEN Ready ELSE s.task_table[i]
    BY <1>1, <1>4, ScheduleSwaps
  <2>2. /\ NextPartition(s) \in Slot /\ s.task_table[NextPartition(s)].kind = "Ready"
    BY <1>1, <1>4, NextPartitionFacts, Zenon
  <2> HIDE DEF r
  <2>3. R \in [Hart -> BitMapScheduler]
    BY <1>1, <1>2, <2>1, Zenon DEF r
  <2> HIDE DEF R
  <2>4. r.current \in Slot /\ r.current \in Tasks[h]
    BY <2>1, <2>2 DEF Good, Sane, St
  <2>5. /\ St(R, h, r.current) = Running /\ R[h].current = r.current
        /\ \A i \in Slot \ {r.current} :
              St(R, h, i) = IF i = s.current /\ St(S, h, i).kind = "Running"
                            THEN Ready ELSE St(S, h, i)
        /\ \A g \in Hart \ {h}, i \in Slot : St(R, g, i) = St(S, g, i)
    BY <1>2, <2>1, Zenon DEF St
  <2>6. Running.kind = "Running" /\ Ready.kind = "Ready"
    BY Zenon DEF Running, Ready, State
  <2>7. Sane(R)
    <3>1. \A g \in Hart, i \in Slot : St(R, g, i).kind = "None" <=> i \notin Tasks[g]
      BY <1>1, <2>4, <2>5, <2>6 DEF Good, Sane
    <3>2. \A g \in Hart : R[g].current \in Tasks[g]
      BY <1>2, <2>4, <2>5, Zenon DEF Good, Sane
    <3>3. \A g \in Hart, i \in Slot : St(R, g, i).kind = "Running" => i = R[g].current
      BY <1>2, <2>5, <2>6 DEF Good, Sane
    <3>4. \A g \in Hart : St(R, g, IDLE).kind = IF R[g].current = IDLE THEN "Running" ELSE "Ready"
      BY <1>2, <2>5, <2>6, SlotFacts DEF Good, Sane
    <3>5. QED
      BY <2>3, <3>1, <3>2, <3>3, <3>4, Zenon DEF Sane
  <2>8. BlockedSane(R, M)
    BY <2>5, <2>6 DEF Good, BlockedSane
  <2>9. Met(R)
    BY <2>5, <2>6 DEF Good, Met
  <2>10. \A g \in Hart : CurrentSane(R, g)
    <3>1. \A g \in Hart : S[g].current \in Slot
      BY <1>1, Zenon DEF BitMapScheduler
    <3>2. QED
      BY <1>2, <2>5, <2>6, <3>1 DEF CurrentSane, Dispatchable
  <2>11. Switches(s, t)
    <3>1. s.task_table[s.current].kind # "None"
      BY <1>1, Zenon DEF Good, Sane, St
    <3>2. QED
      BY <1>4, <3>1, Zenon DEF Switches
  <2>12. QED
    BY <1>2, <2>7, <2>8, <2>9, <2>10, <2>11, Zenon DEF Good, R, r, Dispatched
<1>5. QED
  BY <1>3, <1>4, Zenon

\* The whole of switch_task re-establishes the invariant of schedulers,
\* mutexes and contexts.
LEMMA SwitchTaskInv ==
    ASSUME NEW S, NEW h \in Hart, NEW t \in BOOLEAN, IInv,
           Good(S, MUTEXES'),
           \A g \in Hart : S[g].current = Current(g),
           Dispatchable(S, h, t),
           switch_task(h, S, t)
    PROVE  /\ Good(SCHEDULERS, MUTEXES)'
           /\ (\A g \in Hart : CurrentSane(SCHEDULERS, g))'
           /\ SuspendedFrame'
           /\ context' \in [Hart -> [Slot -> Context]]
<1> DEFINE R == [S EXCEPT ![h] = schedule(S[h], t)]
<1>1. SCHEDULERS' = R
  BY Zenon DEF switch_task
<1>2. /\ Good(R, MUTEXES')
      /\ \A g \in Hart : CurrentSane(R, g)
      /\ \A g \in Hart \ {h} : R[g] = S[g]
      /\ R[h] = schedule(S[h], t)
      /\ Switches(S[h], t) \/ R[h].current = S[h].current
  <2>1. Dispatched(S, MUTEXES', h, t, R)
    BY SwitchGood, Zenon
  <2>2. QED
    BY <2>1, Zenon DEF Dispatched
<1> HIDE DEF R
<1>3. context \in [Hart -> [Slot -> Context]]
  BY Zenon DEF IInv, RestTypeOK
<1>4. CASE Switches(S[h], t)
  <2>1. context' = [context EXCEPT ![h] = [i \in Slot |->
                      IF i = R[h].current THEN "live"
                      ELSE IF i = S[h].current THEN "suspended"
                      ELSE context[h][i]]]
    BY <1>2, <1>4, Zenon DEF switch_task
  <2>2. context' \in [Hart -> [Slot -> Context]]
    BY <1>3, <2>1, Zenon DEF Context
  <2>3. ASSUME NEW g \in Hart, NEW i \in Slot, i # R[g].current
        PROVE  context'[g][i] # "live"
    <3>1. CASE g = h
      BY <1>3, <2>1, <2>3, <3>1, Zenon DEF IInv, SuspendedFrame, Current
    <3>2. CASE g # h
      BY <1>2, <1>3, <2>1, <2>3, <3>2, Zenon DEF IInv, SuspendedFrame, Current
    <3>3. QED
      BY <3>1, <3>2, Zenon
  <2>4. QED
    BY <1>1, <1>2, <2>2, <2>3, Zenon DEF SuspendedFrame, Current
<1>5. CASE ~Switches(S[h], t)
  <2>1. context' = context
    BY <1>5, Zenon DEF switch_task
  <2>2. \A g \in Hart : R[g].current = Current(g)
    BY <1>2, <1>5, Zenon
  <2>3. QED
    BY <1>1, <1>2, <1>3, <2>1, <2>2, Zenon DEF IInv, SuspendedFrame, Current
<1>6. QED
  BY <1>4, <1>5, Zenon

-----------------------------------------------------------------------------
(* One lemma per kind of step                                               *)

\* What every proof below uses of the invariant.
LEMMA InvFacts ==
    ASSUME IInv
    PROVE  /\ SCHEDULERS \in [Hart -> BitMapScheduler]
           /\ MUTEXES \in [Mutex -> KernelMutex]
           /\ \A h \in Hart : Current(h) \in Slot /\ Current(h) \in Tasks[h]
           /\ \A h \in Hart : SCHEDULERS[h].current = Current(h)
           /\ \A h \in Hart, i \in Slot : StateOf(h, i) = St(SCHEDULERS, h, i)
           /\ \A h \in Hart, i \in Slot : KindOf(h, i) = St(SCHEDULERS, h, i).kind
           /\ \A m \in Mutex : MUTEXES[m].waiters \in SUBSET Slot
BY Zenon DEF IInv, Good, Sane, MutexesSane, BitMapScheduler, KernelMutex, Current,
       StateOf, KindOf, St

\* A step of h that ends in switch_task and leaves the clock, the timers and
\* the lock well typed keeps the invariant.
LEMMA SwitchStep ==
    ASSUME NEW S, NEW h \in Hart, NEW t \in BOOLEAN, IInv,
           Good(S, MUTEXES'),
           \A g \in Hart : S[g].current = Current(g),
           Dispatchable(S, h, t),
           switch_task(h, S, t),
           TICK_COUNT' \in 0 .. TICK_MOD - 1,
           timer' \in [Hart -> 0 .. TICK_MOD],
           msip' \in [Hart -> BOOLEAN],
           SCHED_LOCK' \in LockHolder,
           halted' \subseteq Hart
    PROVE  IInv'
<1>1. /\ Good(SCHEDULERS, MUTEXES)'
      /\ (\A g \in Hart : CurrentSane(SCHEDULERS, g))'
      /\ SuspendedFrame'
      /\ context' \in [Hart -> [Slot -> Context]]
  BY SwitchTaskInv, Zenon
<1>2. QED
  BY <1>1, Zenon DEF IInv, RestTypeOK

\* A current task that may go on, unchanged or given another such state,
\* remains one.
LEMMA CurrentStays ==
    ASSUME IInv, NEW S, NEW h \in Hart, S[h].current = Current(h),
           \/ St(S, h, Current(h)) = St(SCHEDULERS, h, Current(h))
           \/ St(S, h, Current(h)).kind \in {"Ready", "Terminated"}
    PROVE  CurrentSane(S, h)
BY InvFacts, Zenon DEF IInv, CurrentSane

\* yield and the software interrupt: nothing is prepared.
LEMMA PlainSwitch ==
    ASSUME IInv, NEW h \in Hart, NEW t \in BOOLEAN
    PROVE  Dispatchable(SCHEDULERS, h, t) /\ Good(SCHEDULERS, MUTEXES)
BY Zenon DEF IInv, Dispatchable

\* The two steps of the timer interrupt preserve the invariant.
LEMMA TimerInv ==
    ASSUME IInv, NEW h \in Hart, TimerEntry(h) \/ TimerInterrupt(h)
    PROVE  IInv'
<1> USE InvFacts
<1>1. CASE TimerEntry(h)
  <2>1. TICK_COUNT' \in 0 .. TICK_MOD - 1
    BY <1>1, KernelAssumption DEF TimerEntry, IInv, RestTypeOK
  <2>2. timer' \in [Hart -> 0 .. TICK_MOD]
    BY <1>1, <2>1, KernelAssumption DEF TimerEntry, IInv, RestTypeOK
  <2>3. QED
    BY <1>1, <2>1, <2>2, Zenon DEF TimerEntry, IInv, RestTypeOK, SuspendedFrame, Current
<1>2. CASE TimerInterrupt(h)
  <2> DEFINE S == [SCHEDULERS EXCEPT ![h].task_table = Woken(@, timer[h])]
  <2>1. \A i \in Slot : Woken(SCHEDULERS[h].task_table, timer[h])[i] =
              IF St(SCHEDULERS, h, i).kind = "Blocked" /\ timer[h] >= St(SCHEDULERS, h, i).arg
              THEN Ready ELSE St(SCHEDULERS, h, i)
    BY Zenon DEF Woken, St
  <2>2. Woken(SCHEDULERS[h].task_table, timer[h]) \in [Slot -> TaskState]
    BY SlotFacts DEF Woken, BitMapScheduler
  <2>3. /\ S \in [Hart -> BitMapScheduler]
        /\ \A g \in Hart : S[g].current = Current(g)
        /\ \A g \in Hart \ {h}, i \in Slot : St(S, g, i) = St(SCHEDULERS, g, i)
        /\ \A i \in Slot : St(S, h, i) = Woken(SCHEDULERS[h].task_table, timer[h])[i]
    BY <2>2 DEF BitMapScheduler, St
  <2> HIDE DEF S
  <2>4. Ready.kind = "Ready"
    BY Zenon DEF Ready, State
  <2>5. \A g \in Hart, j \in Slot :
           \/ St(S, g, j) = St(SCHEDULERS, g, j)
           \/ j \in Tasks[g] \ {IDLE} /\ St(S, g, j).kind \in {"Ready", "Terminated", "Blocked"}
    <3>1. ASSUME NEW j \in Slot, St(SCHEDULERS, h, j).kind = "Blocked"
          PROVE  j \in Tasks[h] \ {IDLE}
      BY <3>1, Zenon DEF IInv, Good, Sane
    <3>2. ASSUME NEW j \in Slot
          PROVE  \/ St(S, h, j) = St(SCHEDULERS, h, j)
                 \/ j \in Tasks[h] \ {IDLE} /\ St(S, h, j).kind \in {"Ready", "Terminated", "Blocked"}
      BY <2>1, <2>3, <2>4, <3>1, Zenon
    <3>3. QED
      BY <2>3, <3>2, Zenon
  <2>6. Good(S, MUTEXES)
    BY <2>3, <2>5, ReadyOrStopped DEF IInv
  <2>7. \A g \in Hart : CurrentSane(S, g)
    <3>1. ASSUME NEW g \in Hart PROVE CurrentSane(S, g)
      <4>1. \/ St(S, g, Current(g)) = St(SCHEDULERS, g, Current(g))
            \/ St(S, g, Current(g)).kind \in {"Ready", "Terminated"}
        BY <2>1, <2>3, <2>4
      <4>2. QED
        BY <4>1, <2>3, CurrentStays, Zenon
    <3>2. QED
      BY <3>1, Zenon
  <2>8. Dispatchable(S, h, TRUE)
    BY <2>7, Zenon DEF Dispatchable
  <2>9. /\ switch_task(h, S, TRUE) /\ MUTEXES' = MUTEXES
        /\ timer' = [timer EXCEPT ![h] = NoTick]
        /\ UNCHANGED <<TICK_COUNT, msip, SCHED_LOCK, halted>>
    BY <1>2, Zenon DEF TimerInterrupt, S
  <2>10. /\ TICK_COUNT' \in 0 .. TICK_MOD - 1 /\ timer' \in [Hart -> 0 .. TICK_MOD]
         /\ msip' \in [Hart -> BOOLEAN] /\ SCHED_LOCK' \in LockHolder /\ halted' \subseteq Hart
    BY <2>9, KernelAssumption DEF IInv, RestTypeOK, NoTick
  <2>11. Good(S, MUTEXES')
    BY <2>6, <2>9, Zenon
  <2>12. QED
    BY <2>3, <2>8, <2>9, <2>10, <2>11, SwitchStep, Zenon
<1>3. QED
  BY <1>1, <1>2, Zenon

\* The software interrupt preserves the invariant.
LEMMA SoftwareInv ==
    ASSUME IInv, NEW h \in Hart, SoftwareInterrupt(h) \/ Sys1Yield(h)
    PROVE  IInv'
<1>1. switch_task(h, SCHEDULERS, FALSE) /\ MUTEXES' = MUTEXES
  BY Zenon DEF SoftwareInterrupt, Sys1Yield
<1>2. /\ TICK_COUNT' \in 0 .. TICK_MOD - 1 /\ timer' \in [Hart -> 0 .. TICK_MOD]
      /\ msip' \in [Hart -> BOOLEAN] /\ SCHED_LOCK' \in LockHolder /\ halted' \subseteq Hart
  BY Zenon DEF SoftwareInterrupt, Sys1Yield, IInv, RestTypeOK
<1>3. Good(SCHEDULERS, MUTEXES') /\ Dispatchable(SCHEDULERS, h, FALSE)
  BY <1>1, PlainSwitch, Zenon
<1>4. \A g \in Hart : SCHEDULERS[g].current = Current(g)
  BY Zenon DEF Current
<1>5. QED
  BY <1>1, <1>2, <1>3, <1>4, SwitchStep, Zenon

\* A handler that blocks the current task of h on st and reschedules.
LEMMA BlockStep ==
    ASSUME IInv, NEW h \in Hart, NEW st \in TaskState, Current(h) # IDLE,
           Good(SetState(SCHEDULERS, h, Current(h), st), MUTEXES'),
           switch_task(h, SetState(SCHEDULERS, h, Current(h), st), FALSE),
           UNCHANGED <<TICK_COUNT, timer, msip, SCHED_LOCK, halted>>
    PROVE  IInv'
<1> DEFINE S == SetState(SCHEDULERS, h, Current(h), st)
<1>1. /\ \A g \in Hart : S[g].current = Current(g)
      /\ \A g \in Hart, j \in Slot :
            St(S, g, j) = IF g = h /\ j = Current(h) THEN st ELSE St(SCHEDULERS, g, j)
  <2>1. /\ SCHEDULERS \in [Hart -> BitMapScheduler] /\ Current(h) \in Slot
        /\ \A g \in Hart : SCHEDULERS[g].current = Current(g)
    BY InvFacts, Zenon
  <2>2. QED
    BY <2>1, SetStateFacts
<1>2. Good(S, MUTEXES') /\ switch_task(h, S, FALSE)
  BY Zenon
<1> HIDE DEF S
<1>3. ASSUME NEW g \in Hart \ {h} PROVE CurrentSane(S, g)
  BY <1>1, <1>3, InvFacts, CurrentStays, Zenon
<1>4. Dispatchable(S, h, FALSE)
  BY <1>1, <1>3, Zenon DEF Dispatchable
<1>5. /\ TICK_COUNT' \in 0 .. TICK_MOD - 1 /\ timer' \in [Hart -> 0 .. TICK_MOD]
      /\ msip' \in [Hart -> BOOLEAN] /\ SCHED_LOCK' \in LockHolder /\ halted' \subseteq Hart
  BY Zenon DEF IInv, RestTypeOK
<1>6. QED
  BY <1>1, <1>2, <1>4, <1>5, SwitchStep, Zenon

\* Syscall 2 preserves the invariant.
LEMMA SleepInv ==
    ASSUME IInv, NEW h \in Hart, NEW ticks \in Sleeps, Sys2Sleep(h, ticks)
    PROVE  IInv'
<1> USE InvFacts
<1> DEFINE st == State("Blocked", (TICK_COUNT + ticks) % TICK_MOD)
           S  == SetState(SCHEDULERS, h, Current(h), st)
<1>1. (TICK_COUNT + ticks) % TICK_MOD \in Nat
  BY KernelAssumption DEF IInv, RestTypeOK
<1>2. st \in TaskState /\ st.kind = "Blocked"
  BY <1>1, Zenon DEF State, TaskState, Kind
<1>3. /\ switch_task(h, S, FALSE) /\ Current(h) # IDLE /\ MUTEXES' = MUTEXES
      /\ UNCHANGED <<TICK_COUNT, timer, msip, SCHED_LOCK, halted>>
  BY Zenon DEF Sys2Sleep, Traps
<1> HIDE DEF st
<1>4. /\ S \in [Hart -> BitMapScheduler]
      /\ \A g \in Hart : S[g].current = SCHEDULERS[g].current
      /\ \A g \in Hart, j \in Slot :
            St(S, g, j) = IF g = h /\ j = Current(h) THEN st ELSE St(SCHEDULERS, g, j)
  BY <1>2, SetStateFacts
<1>5. Good(S, MUTEXES)
  <2> HIDE DEF S
  <2>1. \A g \in Hart, j \in Slot :
           \/ St(S, g, j) = St(SCHEDULERS, g, j)
           \/ j \in Tasks[g] \ {IDLE} /\ St(S, g, j).kind \in {"Ready", "Terminated", "Blocked"}
    BY <1>2, <1>3, <1>4
  <2>2. QED
    BY <1>4, <2>1, ReadyOrStopped DEF IInv
<1>6. Good(S, MUTEXES')
  BY <1>3, <1>5, Zenon
<1>7. QED
  BY <1>2, <1>3, <1>6, BlockStep, Zenon

\* Syscall 3 preserves the invariant.
LEMMA LockInv ==
    ASSUME IInv, NEW h \in Hart, NEW m \in Mutex, Sys3Lock(h, m)
    PROVE  IInv'
<1> USE InvFacts
<1> DEFINE c == Current(h)
<1>1. /\ c # IDLE /\ m \in LockCaps[h][c]
      /\ UNCHANGED <<TICK_COUNT, timer, msip, SCHED_LOCK, halted>>
  BY Zenon DEF Sys3Lock, Traps
<1>2. h = WaiterHart(c) /\ c \in Tasks[h] \ {IDLE}
  BY <1>1, CapabilityAssumption, Zenon
<1>3. c # NoOwner /\ c \in Slot
  BY SlotFacts, Zenon DEF NoOwner
<1>4. MUTEXES[m] \in KernelMutex /\ MutexesSane(MUTEXES)
  BY Zenon DEF IInv, Good
<1>5. CASE ~MUTEXES[m].locked
  <2>1. /\ MUTEXES' = [MUTEXES EXCEPT ![m].locked = TRUE, ![m].owner = c]
        /\ UNCHANGED <<SCHEDULERS, context>>
    BY <1>5, Zenon DEF Sys3Lock
  <2>2. /\ MUTEXES' \in [Mutex -> KernelMutex]
        /\ MUTEXES'[m].locked = TRUE /\ MUTEXES'[m].owner = c
        /\ MUTEXES'[m].waiters = MUTEXES[m].waiters
        /\ \A n \in Mutex \ {m} : MUTEXES'[n] = MUTEXES[n]
    BY <2>1, <1>3, <1>4, Zenon DEF KernelMutex
  <2>3. MutexesSane(MUTEXES')
    BY <1>1, <1>2, <1>3, <1>4, <2>2 DEF MutexesSane
  <2>4. BlockedSane(SCHEDULERS, MUTEXES')
    BY <2>2 DEF IInv, Good, BlockedSane
  <2>5. QED
    BY <1>1, <2>1, <2>3, <2>4, Zenon DEF IInv, Good, RestTypeOK, SuspendedFrame, Current
<1>6. CASE MUTEXES[m].locked
  <2> DEFINE st == State("BlockedOnMutex", m)
  <2>1. /\ MUTEXES' = [MUTEXES EXCEPT ![m].waiters = @ \cup {c}]
        /\ switch_task(h, SetState(SCHEDULERS, h, c, st), FALSE)
    BY <1>6, Zenon DEF Sys3Lock
  <2>2. /\ MUTEXES' \in [Mutex -> KernelMutex]
        /\ MUTEXES'[m].locked = MUTEXES[m].locked /\ MUTEXES'[m].owner = MUTEXES[m].owner
        /\ MUTEXES'[m].waiters = MUTEXES[m].waiters \cup {c}
        /\ \A n \in Mutex \ {m} : MUTEXES'[n] = MUTEXES[n]
    BY <2>1, <1>3, <1>4, Zenon DEF KernelMutex
  <2>3. MutexesSane(MUTEXES')
    <3>1. ASSUME NEW n \in Mutex
          PROVE  /\ MUTEXES'[n].locked <=> MUTEXES'[n].owner # NoOwner
                 /\ MUTEXES'[n].waiters # {} => MUTEXES'[n].locked
                 /\ MUTEXES'[n].locked =>
                       n \in LockCaps[WaiterHart(MUTEXES'[n].owner)][MUTEXES'[n].owner]
                 /\ \A w \in MUTEXES'[n].waiters : n \in LockCaps[WaiterHart(w)][w]
      <4>1. CASE n = m
        BY <1>1, <1>2, <1>4, <1>6, <2>2, <4>1, Zenon DEF MutexesSane
      <4>2. CASE n # m
        BY <1>4, <2>2, <4>2, Zenon DEF MutexesSane
      <4>3. QED
        BY <4>1, <4>2, Zenon
    <3>2. QED
      BY <2>2, <3>1, Zenon DEF MutexesSane
  <2>4. BlockedSane(SCHEDULERS, MUTEXES')
    BY <2>2 DEF IInv, Good, BlockedSane
  <2>5. Good(SCHEDULERS, MUTEXES')
    BY <2>3, <2>4, Zenon DEF IInv, Good
  <2>6. st \in TaskState /\ st.kind = "BlockedOnMutex" /\ st.arg = m
    BY KernelAssumption, Zenon DEF State, TaskState, Kind
  <2>7. Good(SetState(SCHEDULERS, h, c, st), MUTEXES')
    BY <1>2, <1>3, <2>2, <2>5, <2>6, ParkedGood
  <2>8. QED
    BY <1>1, <2>1, <2>6, <2>7, BlockStep, Zenon
<1>7. QED
  BY <1>4, <1>5, <1>6, Zenon DEF KernelMutex

\* The task a waiters bit stands for is registered, and is not an idle task.
LEMMA WaiterFacts ==
    ASSUME IInv, NEW m \in Mutex, MUTEXES[m].waiters # {}
    PROVE  LET w == HighestWaiter(MUTEXES[m].waiters) IN
           /\ w \in MUTEXES[m].waiters /\ w \in Slot
           /\ WaiterHart(w) \in Hart
           /\ w \in Tasks[WaiterHart(w)] \ {IDLE}
<1> DEFINE w == HighestWaiter(MUTEXES[m].waiters)
<1>1. w \in MUTEXES[m].waiters /\ w \in Slot
  BY InvFacts, HighestWaiterFacts, Zenon
<1> HIDE DEF w
<1>2. WaiterHart(w) \in Hart
  BY <1>1, SlotFacts, WaiterHartType, Zenon
<1>3. m \in LockCaps[WaiterHart(w)][w]
  BY <1>1, Zenon DEF IInv, Good, MutexesSane
<1>4. w \in Tasks[WaiterHart(w)] \ {IDLE}
  BY <1>1, <1>2, <1>3, CapabilityAssumption, Zenon
<1>5. QED
  BY <1>1, <1>2, <1>4, Zenon DEF w

\* Some tasks made Ready or terminated in S: what a handler may then hand to
\* switch_task.
LEMMA WakeOrStop ==
    ASSUME IInv, NEW S \in [Hart -> BitMapScheduler],
           \A g \in Hart : S[g].current = Current(g),
           \A g \in Hart, j \in Slot :
              \/ St(S, g, j) = St(SCHEDULERS, g, j)
              \/ /\ j \in Tasks[g] \ {IDLE}
                 /\ St(S, g, j).kind \in {"Ready", "Terminated"}
    PROVE  /\ Good(S, MUTEXES)
           /\ \A g \in Hart : CurrentSane(S, g)
           /\ \A h \in Hart, t \in BOOLEAN : Dispatchable(S, h, t)
<1>1. /\ \A g \in Hart : S[g].current = SCHEDULERS[g].current
      /\ \A g \in Hart : Current(g) \in Slot
  BY InvFacts, Zenon
<1>2. Good(SCHEDULERS, MUTEXES)
  BY Zenon DEF IInv
<1>3. Good(S, MUTEXES)
  BY <1>1, <1>2, ReadyOrStopped
<1>4. ASSUME NEW g \in Hart PROVE CurrentSane(S, g)
  <2>1. \/ St(S, g, Current(g)) = St(SCHEDULERS, g, Current(g))
        \/ St(S, g, Current(g)).kind \in {"Ready", "Terminated"}
    BY <1>1, Zenon
  <2>2. QED
    BY <2>1, CurrentStays, Zenon
<1>5. QED
  BY <1>3, <1>4, Zenon DEF Dispatchable

\* Syscall 4 by the owner preserves the invariant.
LEMMA UnlockInv ==
    ASSUME IInv, NEW h \in Hart, NEW m \in Mutex, Sys4Unlock(h, m)
    PROVE  IInv'
<1> DEFINE W == MUTEXES[m].waiters
           w == HighestWaiter(W)
           S == IF W # {} THEN SetState(SCHEDULERS, WaiterHart(w), w, Ready) ELSE SCHEDULERS
<1>1. /\ MUTEXES' = [MUTEXES EXCEPT ![m] = HandedOver(@)]
      /\ msip' = IF W # {} /\ WaiterHart(w) # h
                 THEN [msip EXCEPT ![WaiterHart(w)] = TRUE] ELSE msip
      /\ switch_task(h, S, FALSE)
      /\ UNCHANGED <<TICK_COUNT, timer, SCHED_LOCK, halted>>
  BY Zenon DEF Sys4Unlock
<1>2. SCHEDULERS \in [Hart -> BitMapScheduler] /\ MUTEXES \in [Mutex -> KernelMutex]
      /\ \A g \in Hart : SCHEDULERS[g].current = Current(g)
  BY InvFacts, Zenon
<1>3. W # {} => /\ w \in Slot /\ WaiterHart(w) \in Hart
                /\ w \in Tasks[WaiterHart(w)] \ {IDLE}
  BY WaiterFacts, Zenon
<1>4. Ready \in TaskState /\ Ready.kind = "Ready"
  BY SlotFacts, Zenon DEF Ready, State
<1>5. /\ S \in [Hart -> BitMapScheduler]
      /\ \A g \in Hart : S[g].current = Current(g)
      /\ \A g \in Hart, j \in Slot :
            St(S, g, j) = IF W # {} /\ g = WaiterHart(w) /\ j = w
                          THEN Ready ELSE St(SCHEDULERS, g, j)
  <2>1. CASE W = {}
    BY <1>2, <2>1, Zenon
  <2>2. CASE W # {}
    <3>1. S = SetState(SCHEDULERS, WaiterHart(w), w, Ready)
      BY <2>2, Zenon
    <3> HIDE DEF w, W, S
    <3>2. QED
      BY <1>2, <1>3, <1>4, <2>2, <3>1, SetStateFacts
  <2>3. QED
    BY <2>1, <2>2, Zenon
<1> HIDE DEF S
<1>6. /\ Good(S, MUTEXES)
      /\ Dispatchable(S, h, FALSE)
  BY <1>3, <1>4, <1>5, WakeOrStop, Zenon
<1>7. Good(S, MUTEXES')
  <2>1. MUTEXES' = [n \in Mutex |-> MUTEXES'[n]]
    BY <1>1, <1>2, Zenon
  <2>2. W # {} => St(S, WaiterHart(w), w).kind # "BlockedOnMutex"
    BY <1>3, <1>4, <1>5, Zenon
  <2>3. \A n \in Mutex :
           \/ MUTEXES'[n] = MUTEXES[n]
           \/ /\ MUTEXES'[n] = HandedOver(MUTEXES[n])
              /\ MUTEXES[n].waiters # {} =>
                    St(S, WaiterHart(HighestWaiter(MUTEXES[n].waiters)),
                          HighestWaiter(MUTEXES[n].waiters)).kind # "BlockedOnMutex"
    BY <1>1, <1>2, <2>2, Zenon
  <2>4. QED
    BY <1>6, <2>1, <2>3, HandedOverGood
<1>8. msip' \in [Hart -> BOOLEAN]
  BY <1>1, <1>3, Zenon DEF IInv, RestTypeOK
<1>9. /\ TICK_COUNT' \in 0 .. TICK_MOD - 1 /\ timer' \in [Hart -> 0 .. TICK_MOD]
      /\ SCHED_LOCK' \in LockHolder /\ halted' \subseteq Hart
  BY <1>1, Zenon DEF IInv, RestTypeOK
<1>10. switch_task(h, S, FALSE)
  BY <1>1, Zenon
<1>11. QED
  BY <1>5, <1>6, <1>7, <1>8, <1>9, <1>10, SwitchStep, Zenon

\* The steps that only stop a hart or move the watchdog's lock.
LEMMA LockHolderInv ==
    ASSUME IInv,
           \/ \E h \in Hart : UnhandledException(h) \/ \E m \in Mutex : Sys4UnlockPanics(h, m)
           \/ WatchdogLocks \/ WatchdogUnlocks
    PROVE  IInv'
<1>1. UNCHANGED <<SCHEDULERS, MUTEXES, TICK_COUNT, timer, msip, context>>
  BY Zenon DEF UnhandledException, Sys4UnlockPanics, WatchdogLocks, WatchdogUnlocks
<1>2. SCHED_LOCK' \in LockHolder /\ halted' \subseteq Hart
  BY Zenon DEF UnhandledException, Sys4UnlockPanics, WatchdogLocks, WatchdogUnlocks,
         IInv, RestTypeOK, LockHolder
<1>3. QED
  BY <1>1, <1>2, Zenon DEF IInv, Good, RestTypeOK, SuspendedFrame, Current, CurrentSane

\* The search for a parked peer over both harts finds one if there is one.
LEMMA FirstParkedFacts ==
    ASSUME NEW kind, NEW e, Parked(kind, e) # {}
    PROVE  FirstParked(kind, e) \in Parked(kind, e)
<1> DEFINE P == Parked(kind, e)
           On(h) == {i \in Slot : <<h, i>> \in P}
<1>1. P \subseteq Hart \X Slot
  BY Zenon DEF Parked
<1>2. \A h \in Hart : On(h) \in SUBSET Nat
  BY SlotFacts, Zenon
<1>3. On(0) # {} \/ On(1) # {}
  BY <1>1 DEF Hart
<1> HIDE DEF P
<1>4. \E p \in P : \A q \in P : p[1] < q[1] \/ (p[1] = q[1] /\ p[2] <= q[2])
  <2>1. CASE On(0) # {}
    <3>1. PICK i \in On(0) : \A j \in On(0) : i <= j
      BY <1>2, <2>1, LeastExists, Zenon DEF Hart
    <3>2. \A q \in P : 0 < q[1] \/ (0 = q[1] /\ i <= q[2])
      BY <1>1, <3>1 DEF Hart
    <3>3. <<0, i>> \in P
      BY <3>1, Zenon
    <3>4. QED
      BY <3>2, <3>3, Zenon
  <2>2. CASE On(0) = {}
    <3>1. PICK i \in On(1) : \A j \in On(1) : i <= j
      BY <1>2, <1>3, <2>2, LeastExists, Zenon DEF Hart
    <3>2. \A q \in P : 1 = q[1] /\ i <= q[2]
      BY <1>1, <2>2, <3>1 DEF Hart
    <3>3. <<1, i>> \in P
      BY <3>1, Zenon
    <3>4. QED
      BY <3>2, <3>3, Zenon
  <2>3. QED
    BY <2>1, <2>2, Zenon
<1>5. QED
  BY <1>4, Zenon DEF FirstParked, P

\* Syscalls 6 and 7 preserve the invariant.
LEMMA IpcInv ==
    ASSUME IInv, NEW h \in Hart, NEW e \in Endpoint, Sys6Send(h, e) \/ Sys7Recv(h, e)
    PROVE  IInv'
<1>1. PICK peerKind, ownKind :
         /\ \/ /\ peerKind = "BlockedOnIpcRecv" /\ ownKind = "BlockedOnIpcSend"
               /\ e \in SendCaps[h][Current(h)]
            \/ /\ peerKind = "BlockedOnIpcSend" /\ ownKind = "BlockedOnIpcRecv"
               /\ e \in RecvCaps[h][Current(h)]
         /\ Rendezvous(h, e, peerKind, ownKind)
  BY Zenon DEF Sys6Send, Sys7Recv
<1>2. Current(h) # IDLE
  BY Zenon DEF Sys6Send, Sys7Recv, Traps
<1>3. /\ SCHEDULERS \in [Hart -> BitMapScheduler]
      /\ \A g \in Hart : SCHEDULERS[g].current = Current(g)
      /\ Current(h) \in Slot /\ Current(h) \in Tasks[h]
  BY InvFacts, Zenon
<1>4. UNCHANGED <<MUTEXES, TICK_COUNT, timer, SCHED_LOCK, halted>>
  BY <1>1, Zenon DEF Rendezvous
<1>5. CASE Parked(peerKind, e) # {}
  <2> DEFINE p == FirstParked(peerKind, e)
             g == p[1]
             i == p[2]
             S == SetState(SCHEDULERS, g, i, Ready)
  <2>1. p \in Parked(peerKind, e)
    BY <1>5, FirstParkedFacts, Zenon
  <2>2. g \in Hart /\ i \in Slot /\ St(SCHEDULERS, g, i).kind = peerKind
    BY <2>1, Zenon DEF Parked, KindOf, St
  <2>3. i \in Tasks[g] \ {IDLE}
    BY <1>1, <2>2 DEF IInv, Good, Sane
  <2>4. /\ SCHEDULERS' = S
        /\ msip' = IF g # h THEN [msip EXCEPT ![g] = TRUE] ELSE msip
        /\ context' = context
    BY <1>1, <1>5, Zenon DEF Rendezvous
  <2> HIDE DEF g, i
  <2>5. Ready \in TaskState /\ Ready.kind = "Ready"
    BY SlotFacts, Zenon DEF Ready, State
  <2>6. /\ S \in [Hart -> BitMapScheduler]
        /\ \A k \in Hart : S[k].current = Current(k)
        /\ \A k \in Hart, j \in Slot :
              St(S, k, j) = IF k = g /\ j = i THEN Ready ELSE St(SCHEDULERS, k, j)
    <3>1. /\ S \in [Hart -> BitMapScheduler]
          /\ \A k \in Hart : S[k].current = SCHEDULERS[k].current
          /\ \A k \in Hart, j \in Slot :
                St(S, k, j) = IF k = g /\ j = i THEN Ready ELSE St(SCHEDULERS, k, j)
      BY <1>3, <2>2, <2>5, SetStateFacts, SMTT(30)
    <3>2. QED
      BY <1>3, <3>1, Zenon
  <2> HIDE DEF S
  <2>7. Good(S, MUTEXES) /\ \A k \in Hart : CurrentSane(S, k)
    BY <2>3, <2>5, <2>6, WakeOrStop, Zenon
  <2>8. msip' \in [Hart -> BOOLEAN]
    BY <2>2, <2>4, Zenon DEF IInv, RestTypeOK
  <2>9. SuspendedFrame'
    BY <2>4, <2>6, Zenon DEF IInv, SuspendedFrame, Current
  <2>10. QED
    BY <1>4, <2>4, <2>7, <2>8, <2>9, Zenon DEF IInv, RestTypeOK
<1>6. CASE Parked(peerKind, e) = {}
  <2> DEFINE st == State(ownKind, e)
  <2>1. switch_task(h, SetState(SCHEDULERS, h, Current(h), st), FALSE) /\ msip' = msip
    BY <1>1, <1>6, ZenonT(30) DEF Rendezvous
  <2>2. st \in TaskState /\ st.kind = ownKind /\ st.arg = e
    BY <1>1, KernelAssumption, Zenon DEF State, TaskState, Kind
  <2>3. \A g \in Hart, j \in Slot :
           ~(St(SCHEDULERS, g, j).kind = peerKind /\ St(SCHEDULERS, g, j).arg = e)
    <3>1. ASSUME NEW g \in Hart, NEW j \in Slot, St(SCHEDULERS, g, j).kind = peerKind,
                 St(SCHEDULERS, g, j).arg = e
          PROVE  <<g, j>> \in Parked(peerKind, e)
      BY <3>1, Zenon DEF Parked, KindOf, StateOf, St
    <3>2. QED
      BY <1>6, <3>1, Zenon
  <2> HIDE DEF st
  <2>4. Good(SCHEDULERS, MUTEXES)
    BY Zenon DEF IInv
  <2>5. Good(SetState(SCHEDULERS, h, Current(h), st), MUTEXES)
    BY <1>1, <1>2, <1>3, <2>2, <2>3, <2>4, ParkedGood
  <2>6. Good(SetState(SCHEDULERS, h, Current(h), st), MUTEXES')
    BY <1>4, <2>5, Zenon
  <2>7. QED
    BY <1>2, <1>4, <2>1, <2>2, <2>6, BlockStep, Zenon
<1>7. QED
  BY <1>5, <1>6, Zenon

\* Termination of a task with the recovery of its mutexes, by system call 8
\* or by a contained fault.
LEMMA TerminationGood ==
    ASSUME IInv, NEW h \in Hart, NEW i \in Slot, i \in Tasks[h] \ {IDLE}
    PROVE  LET S == TerminatedAndRecovered(h, i) IN
           /\ S \in [Hart -> BitMapScheduler]
           /\ \A g \in Hart : S[g].current = Current(g)
           /\ Good(S, Recovered(i))
           /\ \A g \in Hart : CurrentSane(S, g)
           /\ \A t \in BOOLEAN : Dispatchable(S, h, t)
<1> DEFINE S == TerminatedAndRecovered(h, i)
           T(g) == [j \in Slot |->
              IF j \in NewOwners(i) /\ g = WaiterHart(j) /\ KindOf(g, j) # "None" THEN Ready
              ELSE IF g = h /\ j = i THEN Terminated
              ELSE StateOf(g, j)]
<1>1. /\ SCHEDULERS \in [Hart -> BitMapScheduler]
      /\ \A g \in Hart : SCHEDULERS[g].current = Current(g)
      /\ \A g \in Hart, j \in Slot : StateOf(g, j) = St(SCHEDULERS, g, j)
      /\ \A g \in Hart, j \in Slot : KindOf(g, j) = St(SCHEDULERS, g, j).kind
  BY InvFacts, Zenon
<1>2. /\ Ready \in TaskState /\ Ready.kind = "Ready"
      /\ Terminated \in TaskState /\ Terminated.kind = "Terminated"
  BY SlotFacts, Zenon DEF Ready, Terminated, State
<1>3. \A g \in Hart, j \in Slot : StateOf(g, j) \in TaskState
  BY <1>1 DEF BitMapScheduler, St
<1>4. \A g \in Hart : T(g) \in [Slot -> TaskState]
  BY <1>2, <1>3, Zenon
<1>5. \A g \in Hart : S[g] = [SCHEDULERS[g] EXCEPT !.task_table = T(g)]
  BY Zenon DEF TerminatedAndRecovered
<1>6. S = [g \in Hart |-> S[g]]
  BY Zenon DEF TerminatedAndRecovered
<1> HIDE DEF S
<1>7. /\ \A g \in Hart : S[g] \in BitMapScheduler
      /\ \A g \in Hart : S[g].current = Current(g)
      /\ \A g \in Hart : S[g].task_table = T(g)
  <2> HIDE DEF T
  <2>1. ASSUME NEW s \in BitMapScheduler, NEW table \in [Slot -> TaskState]
        PROVE  LET r == [s EXCEPT !.task_table = table] IN
               r \in BitMapScheduler /\ r.current = s.current /\ r.task_table = table
    BY Zenon DEF BitMapScheduler
  <2>2. ASSUME NEW g \in Hart
        PROVE  /\ S[g] \in BitMapScheduler /\ S[g].current = SCHEDULERS[g].current
               /\ S[g].task_table = T(g)
    <3>1. SCHEDULERS[g] \in BitMapScheduler /\ T(g) \in [Slot -> TaskState]
      BY <1>1, <1>4, Zenon
    <3>2. S[g] = [SCHEDULERS[g] EXCEPT !.task_table = T(g)]
      BY <1>5, Zenon
    <3>3. QED
      BY <2>1, <3>1, <3>2
  <2>3. QED
    BY <1>1, <2>2, Zenon
<1>8. S \in [Hart -> BitMapScheduler]
  BY <1>6, <1>7, Zenon
<1>9. \A g \in Hart, j \in Slot :
         St(S, g, j) =
            IF j \in NewOwners(i) /\ g = WaiterHart(j) /\ St(SCHEDULERS, g, j).kind # "None"
            THEN Ready
            ELSE IF g = h /\ j = i THEN Terminated
            ELSE St(SCHEDULERS, g, j)
  <2>1. \A g \in Hart, j \in Slot : St(S, g, j) = T(g)[j]
    BY <1>7, Zenon DEF St
  <2>2. QED
    BY <1>1, <2>1
<1>10. ASSUME NEW w \in NewOwners(i)
       PROVE  w \in Slot /\ WaiterHart(w) \in Hart /\ w \in Tasks[WaiterHart(w)] \ {IDLE}
  <2>1. PICK m \in Mutex : MUTEXES[m].waiters # {} /\ w = HighestWaiter(MUTEXES[m].waiters)
    BY <1>10, Zenon DEF NewOwners
  <2>2. QED
    BY <2>1, WaiterFacts, Zenon
<1>11. \A g \in Hart, j \in Slot :
          \/ St(S, g, j) = St(SCHEDULERS, g, j)
          \/ j \in Tasks[g] \ {IDLE} /\ St(S, g, j).kind \in {"Ready", "Terminated"}
  BY <1>2, <1>9, <1>10, Zenon
<1>12. /\ Good(S, MUTEXES)
       /\ \A g \in Hart : CurrentSane(S, g)
       /\ \A t \in BOOLEAN : Dispatchable(S, h, t)
  BY <1>7, <1>8, <1>11, WakeOrStop, Zenon
<1>13. Good(S, Recovered(i))
  <2> DEFINE N == Recovered(i)
  <2>1. N = [m \in Mutex |-> N[m]]
    BY Zenon DEF Recovered
  <2>2. ASSUME NEW m \in Mutex, MUTEXES[m].owner = i, MUTEXES[m].waiters # {}
        PROVE  St(S, WaiterHart(HighestWaiter(MUTEXES[m].waiters)),
                     HighestWaiter(MUTEXES[m].waiters)).kind # "BlockedOnMutex"
    <3> DEFINE w == HighestWaiter(MUTEXES[m].waiters)
    <3>1. w \in NewOwners(i)
      BY <2>2, Zenon DEF NewOwners
    <3> HIDE DEF w
    <3>2. w \in Slot /\ WaiterHart(w) \in Hart /\ w \in Tasks[WaiterHart(w)]
      BY <1>10, <3>1, Zenon
    <3>3. St(SCHEDULERS, WaiterHart(w), w).kind # "None"
      BY <3>2, Zenon DEF IInv, Good, Sane
    <3>4. St(S, WaiterHart(w), w) = Ready
      BY <1>9, <3>1, <3>2, <3>3, Zenon
    <3>5. QED
      BY <1>2, <3>4, Zenon DEF w
  <2>3. \A m \in Mutex :
           \/ N[m] = MUTEXES[m]
           \/ /\ N[m] = HandedOver(MUTEXES[m])
              /\ MUTEXES[m].waiters # {} =>
                    St(S, WaiterHart(HighestWaiter(MUTEXES[m].waiters)),
                          HighestWaiter(MUTEXES[m].waiters)).kind # "BlockedOnMutex"
    BY <2>2, Zenon DEF Recovered
  <2> HIDE DEF N
  <2>4. Good(S, N)
    BY <1>12, <2>1, <2>3, HandedOverGood
  <2>5. QED
    BY <2>4, Zenon DEF N
<1>14. QED
  BY <1>7, <1>8, <1>12, <1>13, Zenon DEF S

\* A contained fault preserves the invariant.
LEMMA FaultInv ==
    ASSUME IInv, NEW h \in Hart, Fault(h)
    PROVE  IInv'
<1> DEFINE i == Current(h)
           S == TerminatedAndRecovered(h, i)
<1>1. /\ i # IDLE /\ MUTEXES' = Recovered(i) /\ switch_task(h, S, FALSE)
      /\ UNCHANGED <<TICK_COUNT, timer, msip, SCHED_LOCK, halted>>
  BY Zenon DEF Fault, Traps
<1>2. i \in Slot /\ i \in Tasks[h] \ {IDLE}
  BY <1>1, InvFacts, Zenon
<1> HIDE DEF i
<1>3. /\ \A g \in Hart : S[g].current = Current(g)
      /\ Good(S, Recovered(i))
      /\ Dispatchable(S, h, FALSE)
  BY <1>2, TerminationGood, Zenon
<1> HIDE DEF S
<1>4. /\ TICK_COUNT' \in 0 .. TICK_MOD - 1 /\ timer' \in [Hart -> 0 .. TICK_MOD]
      /\ msip' \in [Hart -> BOOLEAN] /\ SCHED_LOCK' \in LockHolder /\ halted' \subseteq Hart
  BY <1>1, Zenon DEF IInv, RestTypeOK
<1>5. Good(S, MUTEXES')
  BY <1>1, <1>3, Zenon
<1>6. QED
  BY <1>1, <1>3, <1>4, <1>5, SwitchStep, Zenon

\* Syscall 8 preserves the invariant.
LEMMA TerminateInv ==
    ASSUME IInv, NEW i \in Targets, Sys8Terminate(i)
    PROVE  IInv'
<1> DEFINE h == IF KindOf(0, i) # "None" THEN 0 ELSE 1
           S == TerminatedAndRecovered(h, i)
<1>1. /\ KindOf(h, i) # "None" /\ SCHEDULERS' = S /\ MUTEXES' = Recovered(i)
      /\ msip' = IF h # 0 THEN [msip EXCEPT ![h] = TRUE] ELSE msip
      /\ UNCHANGED <<TICK_COUNT, timer, context, SCHED_LOCK, halted>>
  BY Zenon DEF Sys8Terminate
<1>2. h \in Hart
  BY Zenon DEF Hart
<1> HIDE DEF h
<1>3. i \in Slot /\ i # IDLE
  BY KernelAssumption, Zenon
<1>4. i \in Tasks[h] \ {IDLE}
  BY <1>1, <1>2, <1>3, InvFacts, SMTT(30) DEF IInv, Good, Sane
<1>5. /\ \A g \in Hart : S[g].current = Current(g)
      /\ Good(S, Recovered(i))
      /\ \A g \in Hart : CurrentSane(S, g)
  BY <1>2, <1>3, <1>4, TerminationGood, Zenon
<1> HIDE DEF S
<1>6. SuspendedFrame'
  BY <1>1, <1>5, Zenon DEF IInv, SuspendedFrame, Current
<1>7. msip' \in [Hart -> BOOLEAN]
  BY <1>1, <1>2, Zenon DEF IInv, RestTypeOK
<1>8. QED
  BY <1>1, <1>5, <1>6, <1>7, Zenon DEF IInv, RestTypeOK

\* A restart by the watchdog preserves the invariant.
LEMMA RestartInv ==
    ASSUME IInv, NEW p \in Restartable, WatchdogRestarts(p[1], p[2])
    PROVE  IInv'
<1> DEFINE h == p[1]
           i == p[2]
           S == SetState(SCHEDULERS, h, i, Ready)
<1>1. h \in Hart /\ i \in Slot /\ i \in Tasks[h] \ {IDLE}
  BY KernelAssumption, Zenon
<1>2. /\ SCHEDULERS' = S /\ context' = [context EXCEPT ![h][i] = "fresh"]
      /\ UNCHANGED <<MUTEXES, TICK_COUNT, timer, msip, SCHED_LOCK, halted>>
  BY Zenon DEF WatchdogRestarts
<1> HIDE DEF h, i
<1>3. /\ SCHEDULERS \in [Hart -> BitMapScheduler]
      /\ \A g \in Hart : SCHEDULERS[g].current = Current(g)
  BY InvFacts, Zenon
<1>4. Ready \in TaskState /\ Ready.kind = "Ready"
  BY SlotFacts, Zenon DEF Ready, State
<1>5. /\ S \in [Hart -> BitMapScheduler]
      /\ \A k \in Hart : S[k].current = SCHEDULERS[k].current
      /\ \A k \in Hart, j \in Slot :
            St(S, k, j) = IF k = h /\ j = i THEN Ready ELSE St(SCHEDULERS, k, j)
  BY <1>1, <1>3, <1>4, SetStateFacts, SMTT(30)
<1> HIDE DEF S
<1>6. Good(S, MUTEXES) /\ \A k \in Hart : CurrentSane(S, k)
  <2>1. \A k \in Hart : S[k].current = Current(k)
    BY <1>3, <1>5, Zenon
  <2>2. QED
    BY <1>1, <1>4, <1>5, <2>1, WakeOrStop, Zenon
<1>7. context' \in [Hart -> [Slot -> Context]]
  BY <1>1, <1>2, Zenon DEF IInv, RestTypeOK, Context
<1>8. SuspendedFrame'
  BY <1>1, <1>2, <1>3, <1>5, Zenon DEF IInv, RestTypeOK, SuspendedFrame, Current
<1>9. QED
  BY <1>2, <1>6, <1>7, <1>8, Zenon DEF IInv, RestTypeOK

-----------------------------------------------------------------------------
(* The theorem                                                              *)

\* The scheduler of a hart after boot.
LEMMA BootScheduler ==
    ASSUME NEW tasks \in SUBSET Slot, IDLE \in tasks
    PROVE  LET s == start_first_task(Registered(tasks)) IN
           /\ s \in BitMapScheduler
           /\ s.current \in tasks /\ s.current \in Slot
           /\ \A i \in Slot : s.task_table[i] =
                 IF i = s.current THEN Running ELSE IF i \in tasks THEN Ready ELSE NoTask
<1> DEFINE b == Registered(tasks)
           f == FirstReady(b)
<1>1. /\ b.task_table = [i \in Slot |-> IF i \in tasks THEN Ready ELSE NoTask]
      /\ b \in BitMapScheduler
  BY SlotFacts, SchedulerAssumption DEF Registered, BitMapScheduler
<1>2. Ready.kind = "Ready" /\ NoTask.kind = "None"
  BY Zenon DEF Ready, NoTask, State
<1>3. b.task_table[IDLE].kind = "Ready"
  BY <1>1, <1>2, SlotFacts, Zenon
<1> HIDE DEF b
<1>4. f \in Slot /\ b.task_table[f].kind = "Ready"
  BY <1>1, <1>3, SlotFacts, FirstReadyFacts, Zenon
<1>5. f \in tasks
  BY <1>1, <1>2, <1>4, Zenon
<1>6. start_first_task(b) =
         [task_table |-> [b.task_table EXCEPT ![f] = Running], current |-> f, remaining |-> MIF]
  BY Zenon DEF start_first_task
<1> HIDE DEF f
<1>7. /\ [b.task_table EXCEPT ![f] = Running] \in [Slot -> TaskState]
      /\ \A i \in Slot : [b.task_table EXCEPT ![f] = Running][i] =
            IF i = f THEN Running ELSE IF i \in tasks THEN Ready ELSE NoTask
  BY <1>1, <1>4, SlotFacts, Zenon DEF BitMapScheduler
<1>8. MIF \in 0 .. MIF
  BY SchedulerAssumption
<1>9. /\ start_first_task(b) \in BitMapScheduler /\ start_first_task(b).current = f
      /\ start_first_task(b).task_table = [b.task_table EXCEPT ![f] = Running]
  BY <1>4, <1>6, <1>7, <1>8 DEF BitMapScheduler
<1>10. QED
  BY <1>4, <1>5, <1>7, <1>9, Zenon DEF b

\* The invariant holds after boot.
LEMMA InitInv == Init => IInv
<1> SUFFICES ASSUME Init PROVE IInv
  BY Zenon
<1>1. \A h \in Hart : Tasks[h] \in SUBSET Slot /\ IDLE \in Tasks[h]
  BY KernelAssumption, Zenon
<1>2. \A h \in Hart : SCHEDULERS[h] = start_first_task(Registered(Tasks[h]))
  BY Zenon DEF Init
<1>3. ASSUME NEW h \in Hart
      PROVE  /\ SCHEDULERS[h] \in BitMapScheduler
             /\ SCHEDULERS[h].current \in Tasks[h] /\ SCHEDULERS[h].current \in Slot
             /\ \A i \in Slot : St(SCHEDULERS, h, i) =
                   IF i = SCHEDULERS[h].current THEN Running
                   ELSE IF i \in Tasks[h] THEN Ready ELSE NoTask
  BY <1>1, <1>2, BootScheduler DEF St
<1>4. Running.kind = "Running" /\ Ready.kind = "Ready" /\ NoTask.kind = "None"
  BY Zenon DEF Running, Ready, NoTask, State
<1>5. SCHEDULERS = [h \in Hart |-> SCHEDULERS[h]]
  BY Zenon DEF Init
<1>6. Sane(SCHEDULERS)
  <2>1. SCHEDULERS \in [Hart -> BitMapScheduler]
    BY <1>3, <1>5, Zenon
  <2>2. QED
    BY <1>1, <1>3, <1>4, <2>1, SlotFacts, Zenon DEF Sane
<1>7. MutexesSane(MUTEXES)
  <2>1. \A m \in Mutex : MUTEXES[m] = [locked |-> FALSE, owner |-> NoOwner, waiters |-> {}]
    BY Zenon DEF Init
  <2>2. [locked |-> FALSE, owner |-> NoOwner, waiters |-> {}] \in KernelMutex
    BY Zenon DEF KernelMutex
  <2>3. MUTEXES \in [Mutex -> KernelMutex]
    BY <2>2, Zenon DEF Init
  <2>4. QED
    BY <2>1, <2>3 DEF MutexesSane
<1>8. BlockedSane(SCHEDULERS, MUTEXES) /\ Met(SCHEDULERS)
  BY <1>3, <1>4, Zenon DEF BlockedSane, Met
<1>9. \A h \in Hart : CurrentSane(SCHEDULERS, h)
  BY <1>3, <1>4, Zenon DEF CurrentSane
<1>10. SuspendedFrame
  BY Zenon DEF Init, SuspendedFrame, Current
<1>11. RestTypeOK
  BY KernelAssumption DEF Init, RestTypeOK, NoTick, Context, LockHolder
<1>12. QED
  BY <1>6, <1>7, <1>8, <1>9, <1>10, <1>11, Zenon DEF IInv, Good

\* Every step preserves the invariant.
LEMMA NextInv == IInv /\ [Next]_vars => IInv'
<1> SUFFICES ASSUME IInv, [Next]_vars PROVE IInv'
  BY Zenon
<1>1. CASE UNCHANGED vars
  BY <1>1, Zenon DEF vars, IInv, Good, RestTypeOK, SuspendedFrame, Current, CurrentSane
<1>2. ASSUME NEW h \in Hart, HartStep(h) PROVE IInv'
  BY <1>2, TimerInv, SoftwareInv, SleepInv, LockInv, UnlockInv, LockHolderInv, IpcInv, FaultInv,
     Zenon
     DEF HartStep
<1>3. CASE WatchdogStep
  BY <1>3, LockHolderInv, TerminateInv, RestartInv, Zenon DEF WatchdogStep
<1>4. QED
  BY <1>1, <1>2, <1>3, Zenon DEF Next

\* The invariant holds in every reachable state.
LEMMA InductiveInvariant == Spec => []IInv
BY InitInv, NextInv, PTL DEF Spec

\* The kernel's safety invariants follow from the inductive one.
LEMMA InvImplies ==
    ASSUME IInv
    PROVE  /\ TypeOK /\ UnwrapSound /\ RunningIsCurrent /\ IdleAvailable
           /\ NoLostWaiter /\ NoMissedRendezvous /\ CapabilityConfined /\ SuspendedFrame
<1> USE InvFacts
<1>1. TypeOK
  BY Zenon DEF IInv, RestTypeOK, TypeOK
<1>2. RunningIsCurrent
  BY DEF IInv, Good, Sane, CurrentSane, RunningIsCurrent
<1>3. IdleAvailable
  BY SlotFacts DEF IInv, Good, Sane, IdleAvailable
<1>4. NoLostWaiter
  BY Zenon DEF IInv, Good, MutexesSane, BlockedSane, NoLostWaiter
<1>5. NoMissedRendezvous
  <2>1. ASSUME NEW e \in Endpoint, NEW p \in Parked("BlockedOnIpcSend", e),
               NEW q \in Parked("BlockedOnIpcRecv", e)
        PROVE  FALSE
    <3>1. /\ p[1] \in Hart /\ p[2] \in Slot /\ q[1] \in Hart /\ q[2] \in Slot
          /\ St(SCHEDULERS, p[1], p[2]).kind = "BlockedOnIpcSend"
          /\ St(SCHEDULERS, q[1], q[2]).kind = "BlockedOnIpcRecv"
          /\ St(SCHEDULERS, p[1], p[2]).arg = e /\ St(SCHEDULERS, q[1], q[2]).arg = e
      BY Zenon DEF Parked, KindOf, StateOf, St
    <3>2. QED
      BY <3>1 DEF IInv, Good, Met
  <2>2. QED
    BY <2>1, Zenon DEF NoMissedRendezvous
<1>6. CapabilityConfined
  BY Zenon DEF IInv, Good, MutexesSane, BlockedSane, CapabilityConfined
<1>7. UnwrapSound
  <2>1. ASSUME NEW m \in Mutex, NEW w \in MUTEXES[m].waiters
        PROVE  w \in Tasks[WaiterHart(w)]
    <3>1. w \in Slot /\ WaiterHart(w) \in Hart
      BY SlotFacts, WaiterHartType, Zenon
    <3>2. m \in LockCaps[WaiterHart(w)][w]
      BY Zenon DEF IInv, Good, MutexesSane
    <3>3. QED
      BY <3>1, <3>2, CapabilityAssumption, Zenon
  <2>2. QED
    BY <2>1, SMTT(30) DEF IInv, Good, Sane, UnwrapSound
<1>8. QED
  BY <1>1, <1>2, <1>3, <1>4, <1>5, <1>6, <1>7, Zenon DEF IInv

\* Whatever the tasks do, in every reachable state of the kernel: the state is
\* well typed; no unwrap() of a task-table slot can fail; the Running state
\* and the current index agree; idle can be fallen back on; no wake-up of a
\* mutex waiter and no rendezvous is lost; mutexes and endpoints stay with the
\* holders of their capabilities; and saved frames are suspended ones.
LEMMA KernelSafety ==
    Spec => [](/\ TypeOK /\ UnwrapSound /\ RunningIsCurrent /\ IdleAvailable
               /\ NoLostWaiter /\ NoMissedRendezvous /\ CapabilityConfined
               /\ SuspendedFrame)
BY InductiveInvariant, InvImplies, PTL

\* The kernel state keeps its type: every index the handlers store is a slot,
\* and every task state they store is a TaskState.
THEOREM KernelTypes == Spec => []TypeOK
BY KernelSafety, PTL

\* The task_table invariant the comment of trap.rs relies on: no unwrap() in
\* the trap handlers meets an empty slot.
THEOREM NoUnwrapFails == Spec => []UnwrapSound
BY KernelSafety, PTL

\* On both harts the task state and current_partition_idx agree.
THEOREM RunningAgrees == Spec => []RunningIsCurrent
BY KernelSafety, PTL

\* Each hart can always fall back on its idle task.
THEOREM IdleFallback == Spec => []IdleAvailable
BY KernelSafety, PTL

\* A task blocked on a mutex is never forgotten by unlock or recovery.
THEOREM NoWaiterLost == Spec => []NoLostWaiter
BY KernelSafety, PTL

\* The rendezvous of the two harts is never missed.
THEOREM RendezvousMet == Spec => []NoMissedRendezvous
BY KernelSafety, PTL

\* Mutexes and endpoints stay with the holders of their capabilities.
THEOREM CapabilitiesConfine == Spec => []CapabilityConfined
BY KernelSafety, PTL

\* Frames written through saved_sp belong to suspended tasks.
THEOREM FramesSuspended == Spec => []SuspendedFrame
BY KernelSafety, PTL

-----------------------------------------------------------------------------
(* When a terminated task comes back: the action property TerminatedLeaves, *)
(* from the same invariant, one lemma per way in which a handler prepares   *)
(* the task tables.                                                         *)

\* Slot i of hart h holds a terminated task no handler can reach.
Gone(h, i) == KindOf(h, i) = "Terminated" /\ ~Reachable(h, i)

\* switch_task leaves a terminated task alone that is not the current one: it
\* dispatches Ready tasks only.
LEMMA SwitchKeepsGone ==
    ASSUME NEW S \in [Hart -> BitMapScheduler], NEW g \in Hart, NEW t \in BOOLEAN,
           switch_task(g, S, t), NEW h \in Hart, NEW i \in Slot,
           St(S, h, i).kind = "Terminated", i # S[h].current
    PROVE  KindOf(h, i)' = "Terminated"
<1>1. SCHEDULERS' = [S EXCEPT ![g] = schedule(S[g], t)]
  BY Zenon DEF switch_task
<1>2. CASE h # g
  BY <1>1, <1>2, Zenon DEF KindOf, St
<1>3. CASE h = g
  <2>1. S[g] \in BitMapScheduler
    BY Zenon
  <2>2. SCHEDULERS'[h] = schedule(S[g], t)
    BY <1>1, <1>3, Zenon
  <2>3. CASE ~(Triggered(S[g], t) /\ Found(S[g]))
    BY <1>3, <2>1, <2>2, <2>3, ScheduleKeeps DEF KindOf, St
  <2>4. CASE Triggered(S[g], t) /\ Found(S[g])
    <3>1. S[g].task_table[NextPartition(S[g])].kind = "Ready"
      BY <2>1, <2>4, NextPartitionFacts, Zenon
    <3>2. i # NextPartition(S[g])
      BY <1>3, <3>1, Zenon DEF St
    <3>3. schedule(S[g], t).task_table[i] = S[g].task_table[i]
      BY <1>3, <2>1, <2>4, <3>2, ScheduleSwaps
    <3>4. QED
      BY <1>3, <2>2, <3>3, Zenon DEF KindOf, St
  <2>5. QED
    BY <2>3, <2>4, Zenon
<1>4. QED
  BY <1>2, <1>3, Zenon

\* Changing the state of another slot, before switch_task, does not help.
LEMMA SetStateKeepsGone ==
    ASSUME IInv, NEW g \in Hart, NEW f \in Hart, NEW j \in Slot, NEW st \in TaskState,
           NEW t \in BOOLEAN, switch_task(g, SetState(SCHEDULERS, f, j, st), t),
           NEW h \in Hart, NEW i \in Slot, Gone(h, i), ~(f = h /\ j = i)
    PROVE  KindOf(h, i)' = "Terminated"
<1> DEFINE S == SetState(SCHEDULERS, f, j, st)
<1>1. /\ SCHEDULERS \in [Hart -> BitMapScheduler]
      /\ SCHEDULERS[h].current = Current(h)
      /\ KindOf(h, i) = St(SCHEDULERS, h, i).kind
  BY InvFacts, Zenon
<1>2. /\ S \in [Hart -> BitMapScheduler] /\ S[h].current = SCHEDULERS[h].current
      /\ St(S, h, i) = St(SCHEDULERS, h, i)
  BY <1>1, SetStateFacts, SMTT(30)
<1> HIDE DEF S
<1>3. i # Current(h) /\ KindOf(h, i) = "Terminated"
  BY Zenon DEF Gone, Reachable
<1>4. switch_task(g, S, t)
  BY Zenon DEF S
<1>5. QED
  BY <1>1, <1>2, <1>3, <1>4, SwitchKeepsGone, ZenonT(30)

\* The timer wakes sleepers only.
LEMMA TimerKeepsGone ==
    ASSUME IInv, NEW g \in Hart, TimerInterrupt(g),
           NEW h \in Hart, NEW i \in Slot, Gone(h, i)
    PROVE  KindOf(h, i)' = "Terminated"
<1> DEFINE S == [SCHEDULERS EXCEPT ![g].task_table = Woken(@, timer[g])]
<1>1. /\ SCHEDULERS \in [Hart -> BitMapScheduler]
      /\ SCHEDULERS[h].current = Current(h)
      /\ KindOf(h, i) = St(SCHEDULERS, h, i).kind
  BY InvFacts, Zenon
<1>2. Woken(SCHEDULERS[g].task_table, timer[g]) \in [Slot -> TaskState]
  BY <1>1, SlotFacts DEF Woken, BitMapScheduler
<1>3. i # Current(h) /\ St(SCHEDULERS, h, i).kind = "Terminated"
  BY <1>1, Zenon DEF Gone, Reachable
<1>4. g = h => Woken(SCHEDULERS[g].task_table, timer[g])[i] = St(SCHEDULERS, h, i)
  BY <1>3, Zenon DEF Woken, St
<1>5. /\ S \in [Hart -> BitMapScheduler] /\ S[h].current = SCHEDULERS[h].current
      /\ St(S, h, i) = St(SCHEDULERS, h, i)
  BY <1>1, <1>2, <1>4, Zenon DEF BitMapScheduler, St
<1>6. switch_task(g, S, TRUE)
  BY Zenon DEF TimerInterrupt
<1> HIDE DEF S
<1>7. QED
  BY <1>1, <1>3, <1>5, <1>6, SwitchKeepsGone, ZenonT(30)

\* The recovery after a termination makes tasks with a waiters bit Ready.
LEMMA RecoveryKeepsGone ==
    ASSUME IInv, NEW f \in Hart, NEW j \in Slot, j \in Tasks[f] \ {IDLE},
           NEW h \in Hart, NEW i \in Slot, Gone(h, i)
    PROVE  LET S == TerminatedAndRecovered(f, j) IN
           /\ S \in [Hart -> BitMapScheduler] /\ S[h].current = Current(h)
           /\ St(S, h, i).kind = "Terminated"
<1> DEFINE S == TerminatedAndRecovered(f, j)
<1>1. S \in [Hart -> BitMapScheduler] /\ S[h].current = Current(h)
  BY TerminationGood, Zenon
<1>2. S[h].task_table[i] =
         IF i \in NewOwners(j) /\ h = WaiterHart(i) /\ KindOf(h, i) # "None" THEN Ready
         ELSE IF h = f /\ i = j THEN Terminated
         ELSE StateOf(h, i)
  <2>1. SCHEDULERS[h] \in BitMapScheduler
    BY InvFacts, Zenon
  <2>2. QED
    BY <2>1, Zenon DEF TerminatedAndRecovered, BitMapScheduler
<1>3. ~(i \in NewOwners(j) /\ h = WaiterHart(i))
  <2>1. ASSUME i \in NewOwners(j), h = WaiterHart(i) PROVE FALSE
    <3>1. PICK m \in Mutex : MUTEXES[m].waiters # {} /\ i = HighestWaiter(MUTEXES[m].waiters)
      BY <2>1, Zenon DEF NewOwners
    <3>2. i \in MUTEXES[m].waiters
      BY <3>1, WaiterFacts, Zenon
    <3>3. QED
      BY <2>1, <3>2, Zenon DEF Gone, Reachable
  <2>2. QED
    BY <2>1, Zenon
<1>4. StateOf(h, i).kind = "Terminated" /\ Terminated.kind = "Terminated"
  BY Zenon DEF Gone, KindOf, StateOf, Terminated, State
<1>5. St(S, h, i).kind = "Terminated"
  BY <1>2, <1>3, <1>4, Zenon DEF St
<1>6. QED
  BY <1>1, <1>5, Zenon

-----------------------------------------------------------------------------

\* No trap handler of a hart brings a gone task back.
LEMMA HartKeepsGone ==
    ASSUME IInv, NEW g \in Hart, HartStep(g),
           NEW h \in Hart, NEW i \in Slot, Gone(h, i)
    PROVE  KindOf(h, i)' = "Terminated"
<1>1. /\ SCHEDULERS \in [Hart -> BitMapScheduler]
      /\ \A f \in Hart : Current(f) \in Slot /\ Current(f) \in Tasks[f]
      /\ SCHEDULERS[h].current = Current(h)
      /\ KindOf(h, i) = St(SCHEDULERS, h, i).kind
  BY InvFacts, Zenon
<1>2. i # Current(h) /\ KindOf(h, i) = "Terminated"
  BY Zenon DEF Gone, Reachable
<1>3. CASE SCHEDULERS' = SCHEDULERS
  BY <1>2, <1>3, Zenon DEF KindOf
<1>4. ASSUME NEW t \in BOOLEAN, switch_task(g, SCHEDULERS, t)
      PROVE  KindOf(h, i)' = "Terminated"
  BY <1>1, <1>2, <1>4, SwitchKeepsGone, Zenon
<1>5. ASSUME NEW st \in TaskState,
             switch_task(g, SetState(SCHEDULERS, g, Current(g), st), FALSE)
      PROVE  KindOf(h, i)' = "Terminated"
  <2>1. ~(g = h /\ Current(g) = i)
    BY <1>2, Zenon
  <2>2. QED
    BY <1>1, <1>5, <2>1, SetStateKeepsGone, Zenon
<1>6. CASE TimerEntry(g) \/ UnhandledException(g)
           \/ \E m \in Mutex : Sys4UnlockPanics(g, m)
  BY <1>3, <1>6, Zenon DEF TimerEntry, UnhandledException, Sys4UnlockPanics
<1>7. CASE TimerInterrupt(g)
  BY <1>7, TimerKeepsGone, Zenon
<1>8. CASE SoftwareInterrupt(g) \/ Sys1Yield(g)
  BY <1>4, <1>8, Zenon DEF SoftwareInterrupt, Sys1Yield
<1>9. ASSUME NEW ticks \in Sleeps, Sys2Sleep(g, ticks)
      PROVE  KindOf(h, i)' = "Terminated"
  <2>1. (TICK_COUNT + ticks) % TICK_MOD \in Nat
    BY KernelAssumption DEF IInv, RestTypeOK
  <2>2. State("Blocked", (TICK_COUNT + ticks) % TICK_MOD) \in TaskState
    BY <2>1, Zenon DEF State, TaskState, Kind
  <2>3. QED
    BY <1>5, <1>9, <2>2, Zenon DEF Sys2Sleep
<1>10. ASSUME NEW m \in Mutex, Sys3Lock(g, m)
       PROVE  KindOf(h, i)' = "Terminated"
  <2>1. State("BlockedOnMutex", m) \in TaskState
    BY KernelAssumption, Zenon DEF State, TaskState, Kind
  <2>2. QED
    BY <1>3, <1>5, <1>10, <2>1, Zenon DEF Sys3Lock
<1>11. ASSUME NEW m \in Mutex, Sys4Unlock(g, m)
       PROVE  KindOf(h, i)' = "Terminated"
  <2> DEFINE w == HighestWaiter(MUTEXES[m].waiters)
  <2>1. CASE MUTEXES[m].waiters = {}
    BY <1>4, <1>11, <2>1, Zenon DEF Sys4Unlock
  <2>2. CASE MUTEXES[m].waiters # {}
    <3>1. w \in MUTEXES[m].waiters /\ w \in Slot /\ WaiterHart(w) \in Hart
      BY <2>2, WaiterFacts, Zenon
    <3>2. ~(WaiterHart(w) = h /\ w = i)
      BY <3>1, Zenon DEF Gone, Reachable
    <3>3. switch_task(g, SetState(SCHEDULERS, WaiterHart(w), w, Ready), FALSE)
      BY <1>11, <2>2, Zenon DEF Sys4Unlock
    <3>4. PICK f \in Hart, j \in Slot : f = WaiterHart(w) /\ j = w
      BY <3>1, Zenon
    <3>5. switch_task(g, SetState(SCHEDULERS, f, j, Ready), FALSE) /\ ~(f = h /\ j = i)
      BY <3>2, <3>3, <3>4, Zenon
    <3>6. Ready \in TaskState
      BY SlotFacts, Zenon
    <3>7. QED
      BY <3>5, <3>6, SetStateKeepsGone, ZenonT(30)
  <2>3. QED
    BY <2>1, <2>2, Zenon
<1>12. ASSUME NEW e \in Endpoint, Sys6Send(g, e) \/ Sys7Recv(g, e)
       PROVE  KindOf(h, i)' = "Terminated"
  <2>1. PICK peerKind \in {"BlockedOnIpcSend", "BlockedOnIpcRecv"},
             ownKind \in {"BlockedOnIpcSend", "BlockedOnIpcRecv"} :
                Rendezvous(g, e, peerKind, ownKind)
    BY <1>12, Zenon DEF Sys6Send, Sys7Recv
  <2>2. CASE Parked(peerKind, e) = {}
    <3>1. State(ownKind, e) \in TaskState
      BY KernelAssumption, Zenon DEF State, TaskState, Kind
    <3>2. switch_task(g, SetState(SCHEDULERS, g, Current(g), State(ownKind, e)), FALSE)
      BY <2>1, <2>2, Zenon DEF Rendezvous
    <3>3. QED
      BY <1>5, <3>1, <3>2, Zenon
  <2>3. CASE Parked(peerKind, e) # {}
    <3> DEFINE peer == FirstParked(peerKind, e)
    <3>1. SCHEDULERS' = SetState(SCHEDULERS, peer[1], peer[2], Ready)
      BY <2>1, <2>3, Zenon DEF Rendezvous
    <3>2. peer[1] \in Hart /\ peer[2] \in Slot /\ KindOf(peer[1], peer[2]) = peerKind
      BY <2>3, FirstParkedFacts, Zenon DEF Parked
    <3>3. PICK f \in Hart, j \in Slot :
             SCHEDULERS' = SetState(SCHEDULERS, f, j, Ready) /\ KindOf(f, j) = peerKind
      BY <3>1, <3>2, Zenon
    <3>4. ~(f = h /\ j = i)
      BY <1>2, <3>3, Zenon
    <3>5. Ready \in TaskState
      BY SlotFacts, Zenon
    <3>6. St(SCHEDULERS', h, i) = St(SCHEDULERS, h, i)
      BY <1>1, <3>3, <3>4, <3>5, SetStateFacts
    <3>7. QED
      BY <1>1, <1>2, <3>6, Zenon DEF KindOf, St
  <2>4. QED
    BY <2>2, <2>3, Zenon
<1>13. CASE Fault(g)
  <2> DEFINE S == TerminatedAndRecovered(g, Current(g))
  <2>1. switch_task(g, S, FALSE) /\ Current(g) # IDLE
    BY <1>13, ZenonT(30) DEF Fault, Traps
  <2>2. /\ S \in [Hart -> BitMapScheduler] /\ S[h].current = Current(h)
        /\ St(S, h, i).kind = "Terminated"
    BY <1>1, <2>1, RecoveryKeepsGone, Zenon
  <2> HIDE DEF S
  <2>3. QED
    BY <1>2, <2>1, <2>2, SwitchKeepsGone, Zenon
<1>14. QED
  BY <1>6, <1>7, <1>8, <1>9, <1>10, <1>11, <1>12, <1>13, Zenon DEF HartStep

\* In the watchdog's scan only a restart does.
LEMMA WatchdogKeepsGone ==
    ASSUME IInv, WatchdogStep, NEW h \in Hart, NEW i \in Slot, Gone(h, i),
           ~(Scanning /\ <<h, i>> \in Restartable)
    PROVE  KindOf(h, i)' = "Terminated"
<1>1. KindOf(h, i) = "Terminated" /\ KindOf(h, i) = St(SCHEDULERS, h, i).kind
  BY InvFacts, Zenon DEF Gone
<1>2. CASE WatchdogLocks \/ WatchdogUnlocks
  BY <1>1, <1>2, Zenon DEF WatchdogLocks, WatchdogUnlocks, KindOf
<1>3. ASSUME NEW j \in Targets, Sys8Terminate(j)
      PROVE  KindOf(h, i)' = "Terminated"
  <2> DEFINE f == IF KindOf(0, j) # "None" THEN 0 ELSE 1
  <2>1. KindOf(f, j) # "None" /\ SCHEDULERS' = TerminatedAndRecovered(f, j)
    BY <1>3, Zenon DEF Sys8Terminate
  <2>2. f \in Hart /\ j \in Slot /\ j # IDLE
    BY KernelAssumption, Zenon DEF Hart
  <2> HIDE DEF f
  <2>3. j \in Tasks[f] \ {IDLE}
    BY <2>1, <2>2, InvFacts, SMTT(30) DEF IInv, Good, Sane
  <2>4. St(TerminatedAndRecovered(f, j), h, i).kind = "Terminated"
    BY <2>2, <2>3, RecoveryKeepsGone, SMTT(30)
  <2>5. QED
    BY <2>1, <2>4, Zenon DEF KindOf, St
<1>4. ASSUME NEW p \in Restartable, WatchdogRestarts(p[1], p[2])
      PROVE  KindOf(h, i)' = "Terminated"
  <2>1. Scanning /\ SCHEDULERS' = SetState(SCHEDULERS, p[1], p[2], Ready)
    BY <1>4, Zenon DEF WatchdogRestarts
  <2>2. p[1] \in Hart /\ p[2] \in Slot /\ p = <<p[1], p[2]>>
    BY KernelAssumption
  <2>3. ~(p[1] = h /\ p[2] = i)
    BY <2>1, <2>2, Zenon
  <2>4. St(SCHEDULERS', h, i) = St(SCHEDULERS, h, i)
    BY <2>1, <2>2, <2>3, SlotFacts, InvFacts, SetStateFacts
  <2>5. QED
    BY <1>1, <2>4, Zenon DEF KindOf, St
<1>5. QED
  BY <1>2, <1>3, <1>4, Zenon DEF WatchdogStep

\* For every registration and every capability table, a terminated task comes
\* back only by a restart in the watchdog's scan, while its hart still executes
\* it, or through a waiters bit it has left behind (trap.rs, every handler).
THEOREM TerminatedOnlyLeaves == Spec => TerminatedLeaves
<1> DEFINE Leaves == \A h \in Hart, i \in Slot :
              KindOf(h, i) = "Terminated" /\ KindOf(h, i)' # "Terminated" =>
                 \/ Scanning /\ <<h, i>> \in Restartable
                 \/ Reachable(h, i)
<1>1. IInv /\ [Next]_vars => [Leaves]_vars
  <2> SUFFICES ASSUME IInv, Next, NEW h \in Hart, NEW i \in Slot,
                      Gone(h, i), ~(Scanning /\ <<h, i>> \in Restartable)
               PROVE  KindOf(h, i)' = "Terminated"
    BY Zenon DEF Gone
  <2>1. QED
    BY HartKeepsGone, WatchdogKeepsGone, Zenon DEF Next
<1>2. QED
  BY <1>1, InductiveInvariant, PTL DEF Spec, TerminatedLeaves

-----------------------------------------------------------------------------
(* What a switch and a termination leave, for the modules that go on        *)

\* The task may go on.
Up(st) == st.kind \in {"Ready", "Running"}

\* Equal but for the dispatcher, which exchanges Ready and Running and nothing
\* else.
SameMode(x, y) == x = y \/ (Up(x) /\ Up(y))

\* switch_task changes no task's mode.
LEMMA SwitchModes ==
    ASSUME NEW S \in [Hart -> BitMapScheduler], NEW g \in Hart, NEW t \in BOOLEAN,
           switch_task(g, S, t), NEW h \in Hart, NEW i \in Slot
    PROVE  SameMode(St(S, h, i), St(SCHEDULERS', h, i))
<1>1. SCHEDULERS' = [S EXCEPT ![g] = schedule(S[g], t)]
  BY Zenon DEF switch_task
<1>2. CASE h # g
  BY <1>1, <1>2, Zenon DEF SameMode, St
<1>3. CASE h = g
  <2>1. S[g] \in BitMapScheduler /\ SCHEDULERS'[h] = schedule(S[g], t)
    BY <1>1, <1>3, Zenon
  <2>2. CASE ~(Triggered(S[g], t) /\ Found(S[g]))
    BY <1>3, <2>1, <2>2, ScheduleKeeps, SMTT(30) DEF SameMode, St
  <2>3. CASE Triggered(S[g], t) /\ Found(S[g])
    <3>1. S[g].task_table[NextPartition(S[g])].kind = "Ready"
      BY <2>1, <2>3, NextPartitionFacts, Zenon
    <3>2. /\ schedule(S[g], t).task_table[NextPartition(S[g])] = Running
          /\ \A j \in Slot \ {NextPartition(S[g])} :
                schedule(S[g], t).task_table[j] =
                   IF j = S[g].current /\ S[g].task_table[j].kind = "Running"
                   THEN Ready ELSE S[g].task_table[j]
      BY <2>1, <2>3, ScheduleSwaps
    <3>3. Running.kind = "Running" /\ Ready.kind = "Ready"
      BY Zenon DEF Running, Ready, State
    <3>4. QED
      BY <1>3, <2>1, <3>1, <3>2, <3>3, Zenon DEF SameMode, Up, St
  <2>4. QED
    BY <2>2, <2>3, Zenon
<1>4. QED
  BY <1>2, <1>3, Zenon

\* What a termination and the recovery of the mutexes leave, slot by slot.
LEMMA TerminationFacts ==
    ASSUME IInv, NEW h \in Hart, NEW i \in Slot, i \in Tasks[h] \ {IDLE},
           NEW g \in Hart, NEW j \in Slot
    PROVE  /\ St(TerminatedAndRecovered(h, i), g, j) =
                IF j \in NewOwners(i) /\ g = WaiterHart(j) /\ KindOf(g, j) # "None" THEN Ready
                ELSE IF g = h /\ j = i THEN Terminated
                ELSE St(SCHEDULERS, g, j)
           /\ j \in NewOwners(i) =>
                \E m \in Mutex : MUTEXES[m].owner = i /\ j \in MUTEXES[m].waiters
           /\ j \in NewOwners(i) => j # IDLE
<1>1. SCHEDULERS[g] \in BitMapScheduler /\ StateOf(g, j) = St(SCHEDULERS, g, j)
  BY InvFacts, Zenon
<1>2. St(TerminatedAndRecovered(h, i), g, j) =
        IF j \in NewOwners(i) /\ g = WaiterHart(j) /\ KindOf(g, j) # "None" THEN Ready
        ELSE IF g = h /\ j = i THEN Terminated
        ELSE St(SCHEDULERS, g, j)
  BY <1>1, Zenon DEF TerminatedAndRecovered, BitMapScheduler, St
<1>3. ASSUME j \in NewOwners(i)
      PROVE  /\ \E m \in Mutex : MUTEXES[m].owner = i /\ j \in MUTEXES[m].waiters
             /\ j # IDLE
  <2>1. PICK m \in Mutex : /\ MUTEXES[m].owner = i /\ MUTEXES[m].waiters # {}
                           /\ j = HighestWaiter(MUTEXES[m].waiters)
    BY <1>3, Zenon DEF NewOwners
  <2>2. j \in MUTEXES[m].waiters /\ j # IDLE
    BY <2>1, WaiterFacts, Zenon
  <2>3. QED
    BY <2>1, <2>2, Zenon
<1>4. QED
  BY <1>2, <1>3, Zenon

\* After switch_task a hart executes a task that may go on: there is always the
\* idle task to switch to.
LEMMA SwitchRuns ==
    ASSUME IInv, NEW S \in [Hart -> BitMapScheduler], NEW h \in Hart, NEW t \in BOOLEAN,
           S[h].current = Current(h), St(S, h, IDLE) = St(SCHEDULERS, h, IDLE),
           switch_task(h, S, t)
    PROVE  Up(St(SCHEDULERS', h, SCHEDULERS'[h].current))
<1> DEFINE s == S[h]
<1>1. s \in BitMapScheduler /\ SCHEDULERS'[h] = schedule(s, t)
  BY Zenon DEF switch_task
<1>2. s.task_table[IDLE].kind = IF s.current = IDLE THEN "Running" ELSE "Ready"
  BY ZenonT(30) DEF IInv, Good, Sane, St, Current
<1> HIDE DEF s
<1>3. CASE Triggered(s, t) /\ Found(s)
  <2>1. schedule(s, t).task_table[schedule(s, t).current] = Running
    BY <1>1, <1>3, ScheduleSwaps, Zenon
  <2>2. QED
    BY <1>1, <2>1, SMTT(30) DEF Up, St, Running, State
<1>4. CASE ~(Triggered(s, t) /\ Found(s))
  <2>1. Up(s.task_table[s.current])
    BY <1>2, <1>4, Zenon DEF Triggered, Found, CurrentRunnable, Up
  <2>2. /\ schedule(s, t).task_table = s.task_table
        /\ schedule(s, t).current = s.current
    BY <1>1, <1>4, ScheduleKeeps, Zenon
  <2>3. QED
    BY <1>1, <2>1, <2>2, Zenon DEF St
<1>5. QED
  BY <1>3, <1>4, Zenon

-----------------------------------------------------------------------------
(* Waiters bits and resumable frames.  A waiters bit without its blocked    *)
(* task and a Ready task without a frame are in order when they belong to a *)
(* set of excused bits A and slots B; stated of schedulers S, mutexes M and *)
(* frames F.  The sets are fixed by the theorems at the end.                *)

Waiting(S, M, A) ==
    \A m \in Mutex : \A w \in M[m].waiters :
        <<m, w>> \in A \/ St(S, WaiterHart(w), w) = State("BlockedOnMutex", m)

Resumable(S, F, B) ==
    \A h \in Hart, i \in Slot :
        St(S, h, i).kind = "Ready" /\ <<h, i>> \notin B => F[h][i] # "live"

InOrder(A, B) == Waiting(SCHEDULERS, MUTEXES, A) /\ Resumable(SCHEDULERS, context, B)

InOrderNext(A, B) == Waiting(SCHEDULERS', MUTEXES', A) /\ Resumable(SCHEDULERS', context', B)

\* The excused bits and slots are closed under a step: when an excused bit is
\* handed over, all bits of its slot are excused and so is the slot if its hart
\* executes it, and the bits of what syscall 8 may terminate are excused.
Excuses(A, B) ==
    /\ \A m \in Mutex : \A w \in MUTEXES[m].waiters \ MUTEXES'[m].waiters :
          <<m, w>> \in A =>
              /\ \A n \in Mutex : w \in MUTEXES[n].waiters => <<n, w>> \in A
              /\ w = Current(WaiterHart(w)) => <<WaiterHart(w), w>> \in B
    /\ Scanning => \A m \in Mutex, i \in Targets : i \in MUTEXES[m].waiters => <<m, i>> \in A

\* switch_task keeps bits and frames in order, from what the handler has
\* prepared: it moves no blocked task, and what it preempts has a new frame.
LEMMA SwitchKeepsFrames ==
    ASSUME IInv, NEW A, NEW B, MUTEXES' \in [Mutex -> KernelMutex],
           NEW S \in [Hart -> BitMapScheduler], NEW g \in Hart, NEW t \in BOOLEAN,
           switch_task(g, S, t), \A h \in Hart : S[h].current = Current(h),
           St(S, g, Current(g)).kind # "None",
           Waiting(S, MUTEXES', A), Resumable(S, context, B)
    PROVE  InOrderNext(A, B)
<1>1. Waiting(SCHEDULERS', MUTEXES', A)
  <2> SUFFICES ASSUME NEW m \in Mutex, NEW w \in MUTEXES'[m].waiters,
                      <<m, w>> \notin A
               PROVE  St(SCHEDULERS', WaiterHart(w), w) = State("BlockedOnMutex", m)
    BY Zenon DEF Waiting
  <2>1. w \in Slot
    BY Zenon DEF KernelMutex
  <2>2. WaiterHart(w) \in Hart
    BY <2>1, SlotFacts, WaiterHartType, Zenon
  <2>3. SameMode(St(S, WaiterHart(w), w), St(SCHEDULERS', WaiterHart(w), w))
    BY <2>1, <2>2, SwitchModes, Zenon
  <2>4. St(S, WaiterHart(w), w) = State("BlockedOnMutex", m)
    BY Zenon DEF Waiting
  <2>5. ~Up(State("BlockedOnMutex", m))
    BY Zenon DEF Up, State
  <2>6. QED
    BY <2>3, <2>4, <2>5, Zenon DEF SameMode
<1>2. ASSUME NEW h \in Hart, NEW i \in Slot, St(SCHEDULERS', h, i).kind = "Ready", <<h, i>> \notin B
      PROVE  context'[h][i] # "live"
  <2>1. /\ SCHEDULERS' = [S EXCEPT ![g] = schedule(S[g], t)] /\ S[g] \in BitMapScheduler
        /\ context \in [Hart -> [Slot -> Context]] /\ S[g].current = Current(g)
    BY Zenon DEF switch_task, IInv, RestTypeOK
  <2>2. CASE ~(Triggered(S[g], t) /\ Found(S[g]))
    <3>1. context' = context
      BY <2>2, Zenon DEF switch_task, Switches
    <3>2. schedule(S[g], t).task_table = S[g].task_table
      BY <2>1, <2>2, ScheduleKeeps, Zenon
    <3>3. St(SCHEDULERS', h, i) = St(S, h, i)
      BY <2>1, <3>2, Zenon DEF St
    <3>4. QED
      BY <1>2, <3>1, <3>3, Zenon DEF Resumable
  <2>3. CASE Triggered(S[g], t) /\ Found(S[g])
    <3>1. /\ schedule(S[g], t).task_table[schedule(S[g], t).current] = Running
          /\ \A j \in Slot \ {schedule(S[g], t).current} :
                schedule(S[g], t).task_table[j] =
                   IF j = S[g].current /\ S[g].task_table[j].kind = "Running"
                   THEN Ready ELSE S[g].task_table[j]
      BY <2>1, <2>3, ScheduleSwaps, Zenon
    <3>2. Running.kind # "Ready"
      BY Zenon DEF Running, State
    <3>3. Switches(S[g], t)
      BY <2>1, <2>3, Zenon DEF Switches, St
    <3>4. context' = [context EXCEPT ![g] = [j \in Slot |->
                        IF j = schedule(S[g], t).current THEN "live"
                        ELSE IF j = S[g].current THEN "suspended"
                        ELSE context[g][j]]]
      BY <3>3, Zenon DEF switch_task
    <3>5. CASE h # g
      <4>1. St(SCHEDULERS', h, i) = St(S, h, i) /\ context'[h] = context[h]
        BY <2>1, <3>4, <3>5, Zenon DEF St
      <4>2. QED
        BY <1>2, <4>1, Zenon DEF Resumable
    <3>6. CASE h = g
      <4>1. SCHEDULERS'[g] = schedule(S[g], t)
        BY <2>1, Zenon
      <4>2. i # schedule(S[g], t).current
        BY <1>2, <3>1, <3>2, <3>6, <4>1 DEF St
      <4>3. CASE i = S[g].current
        BY <2>1, <3>4, <3>6, <4>2, <4>3, SMTT(30)
      <4>4. CASE i # S[g].current
        <5>1. St(S, h, i).kind = "Ready"
          BY <1>2, <3>1, <3>6, <4>1, <4>2, <4>4 DEF St
        <5>2. context'[h][i] = context[h][i]
          BY <2>1, <3>4, <3>6, <4>2, <4>4, Zenon
        <5>3. QED
          BY <1>2, <5>1, <5>2, SMTT(30) DEF Resumable
      <4>5. QED
        BY <4>3, <4>4, Zenon
    <3>7. QED
      BY <3>5, <3>6, Zenon
  <2>4. QED
    BY <2>2, <2>3, Zenon
<1>3. QED
  BY <1>1, <1>2, Zenon DEF InOrder, InOrderNext, Resumable

\* Only tasks not blocked on a mutex touched, and none made Ready that is the
\* current one.
Careful(S) ==
    /\ S \in [Hart -> BitMapScheduler]
    /\ \A h \in Hart : S[h].current = Current(h)
    /\ \A h \in Hart, i \in Slot :
          \/ St(S, h, i) = St(SCHEDULERS, h, i)
          \/ /\ St(SCHEDULERS, h, i).kind # "BlockedOnMutex"
             /\ St(S, h, i).kind # "Ready" \/ i # Current(h)

\* Such a change keeps bits and frames in order.
LEMMA CarefulChange ==
    ASSUME IInv, NEW A, NEW B, InOrder(A, B), NEW S, Careful(S)
    PROVE  Waiting(S, MUTEXES, A) /\ Resumable(S, context, B)
<1>1. Waiting(S, MUTEXES, A)
  <2> SUFFICES ASSUME NEW m \in Mutex, NEW w \in MUTEXES[m].waiters,
                      <<m, w>> \notin A
               PROVE  St(S, WaiterHart(w), w) = State("BlockedOnMutex", m)
    BY Zenon DEF Waiting
  <2>1. w \in Slot
    BY InvFacts, Zenon
  <2>2. WaiterHart(w) \in Hart
    BY <2>1, SlotFacts, WaiterHartType, Zenon
  <2>3. St(SCHEDULERS, WaiterHart(w), w) = State("BlockedOnMutex", m)
    BY Zenon DEF InOrder, InOrderNext, Waiting
  <2>4. State("BlockedOnMutex", m).kind = "BlockedOnMutex"
    BY Zenon DEF State
  <2>5. QED
    BY <2>1, <2>2, <2>3, <2>4, Zenon DEF Careful
<1>2. Resumable(S, context, B)
  BY Zenon DEF InOrder, InOrderNext, Resumable, Careful, IInv, SuspendedFrame
<1>3. QED
  BY <1>1, <1>2, Zenon

\* The task in a slot whose waiters bit is set and not excused is blocked on
\* that mutex, so it is not the one its hart executes and no other of its bits
\* is in order.
LEMMA WaiterNotCurrent ==
    ASSUME IInv, NEW A, NEW B, InOrder(A, B), NEW m \in Mutex, NEW w \in MUTEXES[m].waiters
    PROVE  /\ w \in Slot /\ WaiterHart(w) \in Hart
           /\ <<m, w>> \notin A =>
                 /\ w # Current(WaiterHart(w))
                 /\ St(SCHEDULERS, WaiterHart(w), w) = State("BlockedOnMutex", m)
                 /\ \A n \in Mutex : w \in MUTEXES[n].waiters /\ <<n, w>> \notin A => n = m
<1>1. w \in Slot
  BY InvFacts, Zenon
<1>2. WaiterHart(w) \in Hart
  BY <1>1, SlotFacts, WaiterHartType, Zenon
<1>3. ASSUME <<m, w>> \notin A
      PROVE  /\ w # Current(WaiterHart(w))
             /\ St(SCHEDULERS, WaiterHart(w), w) = State("BlockedOnMutex", m)
             /\ \A n \in Mutex : w \in MUTEXES[n].waiters /\ <<n, w>> \notin A => n = m
  <2>1. \A n \in Mutex : w \in MUTEXES[n].waiters /\ <<n, w>> \notin A =>
           St(SCHEDULERS, WaiterHart(w), w) = State("BlockedOnMutex", n)
    BY Zenon DEF InOrder, Waiting
  <2>2. \A n \in Mutex : State("BlockedOnMutex", n).kind = "BlockedOnMutex"
                         /\ State("BlockedOnMutex", n).arg = n
    BY Zenon DEF State
  <2>3. St(SCHEDULERS, WaiterHart(w), w) = State("BlockedOnMutex", m)
    BY <1>3, <2>1, Zenon
  <2>4. \A n \in Mutex : w \in MUTEXES[n].waiters /\ <<n, w>> \notin A => n = m
    BY <2>1, <2>2, <2>3, Zenon
  <2>5. St(SCHEDULERS, WaiterHart(w), Current(WaiterHart(w))).kind # "BlockedOnMutex"
    BY <1>2, Zenon DEF IInv, CurrentSane, Current
  <2>6. w # Current(WaiterHart(w))
    BY <2>2, <2>3, <2>5, Zenon
  <2>7. QED
    BY <2>3, <2>4, <2>6, Zenon
<1>4. QED
  BY <1>1, <1>2, <1>3, Zenon

\* A slot to which a mutex is handed may be made Ready: its hart does not execute
\* it unless it is excused, and it keeps no other bit that is in order.
LEMMA HandedSlot ==
    ASSUME IInv, NEW A, NEW B, InOrder(A, B), Excuses(A, B),
           NEW m \in Mutex, NEW w \in MUTEXES[m].waiters \ MUTEXES'[m].waiters
    PROVE  /\ w \in Slot /\ WaiterHart(w) \in Hart
           /\ w # Current(WaiterHart(w)) \/ <<WaiterHart(w), w>> \in B
           /\ \A n \in Mutex : w \in MUTEXES[n].waiters /\ <<n, w>> \notin A => n = m
<1>1. CASE <<m, w>> \in A
  BY <1>1, WaiterNotCurrent, Zenon DEF Excuses
<1>2. CASE <<m, w>> \notin A
  BY <1>2, WaiterNotCurrent, Zenon
<1>3. QED
  BY <1>1, <1>2, Zenon

\* A mutex taken or waited for by its caller.
LEMMA LockKeepsFrames ==
    ASSUME IInv, NEW A, NEW B, InOrder(A, B),
           IInv', NEW h \in Hart, NEW m \in Mutex, Sys3Lock(h, m)
    PROVE  InOrderNext(A, B)
<1> DEFINE c == Current(h)
<1>1. m \in LockCaps[h][c] /\ c \in Slot /\ c # IDLE /\ c \in Tasks[h]
      /\ MUTEXES \in [Mutex -> KernelMutex] /\ MUTEXES' \in [Mutex -> KernelMutex]
      /\ SCHEDULERS \in [Hart -> BitMapScheduler]
      /\ \A g \in Hart : SCHEDULERS[g].current = Current(g)
  BY InvFacts, Zenon DEF Sys3Lock, Traps, IInv, Good, MutexesSane
<1>2. h = WaiterHart(c)
  BY <1>1, CapabilityAssumption, Zenon
<1>3. CASE UNCHANGED <<SCHEDULERS, context>> /\ MUTEXES' =
             [MUTEXES EXCEPT ![m].locked = TRUE, ![m].owner = c]
  <2>1. \A n \in Mutex : MUTEXES'[n].waiters = MUTEXES[n].waiters
    BY <1>1, <1>3, Zenon DEF KernelMutex
  <2>2. QED
    BY <1>3, <2>1, Zenon DEF InOrder, InOrderNext, Waiting, Resumable
<1>4. CASE /\ MUTEXES' = [MUTEXES EXCEPT ![m].waiters = @ \cup {c}]
           /\ switch_task(h, SetState(SCHEDULERS, h, c, State("BlockedOnMutex", m)), FALSE)
  <2>1. PICK st \in TaskState : st = State("BlockedOnMutex", m) /\ st.kind = "BlockedOnMutex"
    <3>1. /\ State("BlockedOnMutex", m) \in TaskState
          /\ State("BlockedOnMutex", m).kind = "BlockedOnMutex"
      BY KernelAssumption, Zenon DEF State, TaskState, Kind
    <3>2. QED
      BY <3>1, Zenon
  <2> DEFINE S == SetState(SCHEDULERS, h, c, st)
  <2>2. /\ S \in [Hart -> BitMapScheduler]
        /\ \A g \in Hart : S[g].current = SCHEDULERS[g].current
        /\ \A g \in Hart, j \in Slot :
              St(S, g, j) = IF g = h /\ j = c THEN st ELSE St(SCHEDULERS, g, j)
    BY <1>1, SetStateFacts
  <2>3. switch_task(h, S, FALSE)
    BY <1>4, <2>1, ZenonT(30)
  <2> HIDE DEF S
  <2>4. St(SCHEDULERS, h, c).kind # "BlockedOnMutex"
    BY <1>1, ZenonT(30) DEF IInv, CurrentSane
  <2>5. Careful(S)
    BY <1>1, <2>1, <2>2, <2>4, Zenon DEF Careful
  <2>6. Waiting(S, MUTEXES, A) /\ Resumable(S, context, B)
    BY <2>5, CarefulChange, Zenon
  <2>7. \A n \in Mutex : MUTEXES'[n].waiters =
           IF n = m THEN MUTEXES[n].waiters \cup {c} ELSE MUTEXES[n].waiters
    BY <1>1, <1>4, Zenon DEF KernelMutex
  <2>8. Waiting(S, MUTEXES', A)
    BY <1>1, <1>2, <2>1, <2>2, <2>6, <2>7, ZenonT(30) DEF Waiting
  <2>9. St(S, h, Current(h)).kind # "None" /\ \A g \in Hart : S[g].current = Current(g)
    BY <1>1, <2>1, <2>2, Zenon
  <2>10. QED
    BY <1>1, <2>2, <2>3, <2>6, <2>8, <2>9, SwitchKeepsFrames, Zenon
<1>5. QED
  BY <1>3, <1>4, Zenon DEF Sys3Lock

\* A mutex handed to its highest waiter.
LEMMA UnlockKeepsFrames ==
    ASSUME IInv, NEW A, NEW B, InOrder(A, B), Excuses(A, B),
           IInv', NEW h \in Hart, NEW m \in Mutex, Sys4Unlock(h, m)
    PROVE  InOrderNext(A, B)
<1> DEFINE W == MUTEXES[m].waiters
           w == HighestWaiter(W)
<1>1. /\ MUTEXES' = [MUTEXES EXCEPT ![m] = HandedOver(@)]
      /\ MUTEXES \in [Mutex -> KernelMutex] /\ MUTEXES' \in [Mutex -> KernelMutex]
      /\ SCHEDULERS \in [Hart -> BitMapScheduler]
      /\ \A g \in Hart : SCHEDULERS[g].current = Current(g)
      /\ Current(h) \in Slot /\ St(SCHEDULERS, h, Current(h)).kind # "None"
  BY InvFacts, Zenon DEF Sys4Unlock, IInv, Good, MutexesSane, CurrentSane
<1>2. /\ \A n \in Mutex \ {m} : MUTEXES'[n] = MUTEXES[n]
      /\ MUTEXES'[m] = HandedOver(MUTEXES[m])
  BY <1>1, Zenon
<1>3. CASE W = {}
  <2>1. switch_task(h, SCHEDULERS, FALSE)
    BY <1>3, Zenon DEF Sys4Unlock
  <2>2. MUTEXES'[m].waiters = {}
    <3>1. MUTEXES'[m] = [MUTEXES[m] EXCEPT !.locked = FALSE, !.owner = NoOwner]
      BY <1>2, <1>3, Zenon DEF HandedOver
    <3>2. MUTEXES[m] \in KernelMutex
      BY <1>1, Zenon
    <3>3. QED
      BY <1>3, <3>1, <3>2, Zenon DEF KernelMutex
  <2>3. Waiting(SCHEDULERS, MUTEXES', A)
    BY <1>2, <2>2, Zenon DEF InOrder, InOrderNext, Waiting
  <2>4. QED
    BY <1>1, <2>1, <2>3, SwitchKeepsFrames, Zenon DEF InOrder, InOrderNext
<1>4. CASE W # {}
  <2>1. w \in W /\ w \in Slot /\ WaiterHart(w) \in Hart
    BY <1>4, WaiterFacts, Zenon
  <2>2. MUTEXES'[m].waiters = W \ {w}
    BY <1>2, <1>4, SMTT(30) DEF HandedOver
  <2> HIDE DEF w
  <2>3. /\ w # Current(WaiterHart(w)) \/ <<WaiterHart(w), w>> \in B
        /\ \A n \in Mutex : w \in MUTEXES[n].waiters /\ <<n, w>> \notin A => n = m
    BY <2>1, <2>2, HandedSlot, Zenon
  <2>4. PICK f \in Hart : f = WaiterHart(w)
    BY <2>1, Zenon
  <2>5. switch_task(h, SetState(SCHEDULERS, f, w, Ready), FALSE)
    BY <1>4, <2>4, Zenon DEF Sys4Unlock, w
  <2> DEFINE S == SetState(SCHEDULERS, f, w, Ready)
  <2>6. Ready \in TaskState /\ Ready.kind = "Ready"
    BY SlotFacts, Zenon DEF Ready, State
  <2>7. /\ S \in [Hart -> BitMapScheduler]
        /\ \A g \in Hart : S[g].current = SCHEDULERS[g].current
        /\ \A g \in Hart, j \in Slot :
              St(S, g, j) = IF g = f /\ j = w THEN Ready ELSE St(SCHEDULERS, g, j)
    BY <1>1, <2>1, <2>6, SetStateFacts
  <2>8. switch_task(h, S, FALSE)
    BY <2>5, ZenonT(30)
  <2> HIDE DEF S
  <2>9. Waiting(S, MUTEXES', A)
    <3> SUFFICES ASSUME NEW n \in Mutex, NEW v \in MUTEXES'[n].waiters,
                        <<n, v>> \notin A
                 PROVE  St(S, WaiterHart(v), v) = State("BlockedOnMutex", n)
      BY Zenon DEF Waiting
    <3>1. v \in MUTEXES[n].waiters /\ v # w
      BY <1>2, <2>2, <2>3, Zenon
    <3>2. v \in Slot /\ WaiterHart(v) \in Hart
          /\ St(SCHEDULERS, WaiterHart(v), v) = State("BlockedOnMutex", n)
      BY <3>1, WaiterNotCurrent, Zenon
    <3>3. QED
      BY <2>7, <3>1, <3>2, Zenon
  <2>10. Resumable(S, context, B)
    BY <1>1, <2>1, <2>3, <2>4, <2>7, Zenon DEF InOrder, InOrderNext, Resumable, IInv, SuspendedFrame
  <2>11. St(S, h, Current(h)).kind # "None" /\ \A g \in Hart : S[g].current = Current(g)
    BY <1>1, <2>6, <2>7, Zenon
  <2>12. QED
    BY <1>1, <2>7, <2>8, <2>9, <2>10, <2>11, SwitchKeepsFrames, ZenonT(30)
<1>5. QED
  BY <1>3, <1>4, Zenon

\* A termination of a target, or of the task a hart executes, with the recovery
\* of the mutexes.
LEMMA RecoveryKeepsFrames ==
    ASSUME IInv, NEW A, NEW B, InOrder(A, B), Excuses(A, B),
           NEW h \in Hart, NEW i \in Slot, i \in Tasks[h] \ {IDLE}, MUTEXES' = Recovered(i),
           (Scanning /\ i \in Targets) \/ i = Current(h)
    PROVE  /\ Waiting(TerminatedAndRecovered(h, i), MUTEXES', A)
           /\ Resumable(TerminatedAndRecovered(h, i), context, B)
<1> DEFINE S == TerminatedAndRecovered(h, i)
<1>1. \A g \in Hart, j \in Slot :
         /\ St(S, g, j) =
               IF j \in NewOwners(i) /\ g = WaiterHart(j) /\ KindOf(g, j) # "None" THEN Ready
               ELSE IF g = h /\ j = i THEN Terminated
               ELSE St(SCHEDULERS, g, j)
         /\ j \in NewOwners(i) =>
               \E m \in Mutex : MUTEXES[m].owner = i /\ j \in MUTEXES[m].waiters
  BY TerminationFacts, SMTT(30)
<1>2. Terminated.kind # "Ready"
  BY Zenon DEF Terminated, State
<1>3. \A m \in Mutex :
         MUTEXES'[m].waiters = IF MUTEXES[m].owner = i /\ MUTEXES[m].waiters # {}
                               THEN MUTEXES[m].waiters \ {HighestWaiter(MUTEXES[m].waiters)}
                               ELSE MUTEXES[m].waiters
  <2>1. \A m \in Mutex : MUTEXES[m] \in KernelMutex
    BY InvFacts, Zenon
  <2>2. QED
    BY <2>1, Zenon DEF Recovered, HandedOver, KernelMutex
<1> HIDE DEF S
<1>4. Waiting(S, MUTEXES', A)
  <2> SUFFICES ASSUME NEW m \in Mutex, NEW w \in MUTEXES'[m].waiters, <<m, w>> \notin A
               PROVE  St(S, WaiterHart(w), w) = State("BlockedOnMutex", m)
    BY Zenon DEF Waiting
  <2>1. w \in MUTEXES[m].waiters
    BY <1>3, ZenonT(30)
  <2>2. /\ w \in Slot /\ WaiterHart(w) \in Hart /\ w # Current(WaiterHart(w))
        /\ St(SCHEDULERS, WaiterHart(w), w) = State("BlockedOnMutex", m)
    BY <2>1, WaiterNotCurrent, Zenon
  <2>3. w \notin NewOwners(i)
    <3> SUFFICES ASSUME w \in NewOwners(i) PROVE FALSE
      BY Zenon
    <3>1. PICK n \in Mutex : /\ MUTEXES[n].owner = i /\ MUTEXES[n].waiters # {}
                             /\ w = HighestWaiter(MUTEXES[n].waiters)
      BY Zenon DEF NewOwners
    <3>2. w \in MUTEXES[n].waiters
      BY <3>1, WaiterFacts, Zenon
    <3>3. w \notin MUTEXES'[n].waiters
      <4>1. MUTEXES'[n].waiters = MUTEXES[n].waiters \ {w}
        BY <1>3, <3>1, Zenon
      <4>2. QED
        BY <4>1, Zenon
    <3>4. n = m
      <4>1. \A k \in Mutex : w \in MUTEXES[k].waiters /\ <<k, w>> \notin A => k = n
        BY <3>2, <3>3, HandedSlot, Zenon
      <4>2. QED
        BY <2>1, <4>1, Zenon
    <3>5. QED
      BY <3>3, <3>4, Zenon
  <2>4. ~(WaiterHart(w) = h /\ w = i)
    BY <2>1, <2>2, Zenon DEF Excuses
  <2>5. QED
    BY <1>1, <2>2, <2>3, <2>4, Zenon
<1>5. Resumable(S, context, B)
  <2> SUFFICES ASSUME NEW g \in Hart, NEW j \in Slot, St(S, g, j).kind = "Ready", <<g, j>> \notin B
               PROVE  context[g][j] # "live"
    BY Zenon DEF Resumable
  <2>1. CASE j \in NewOwners(i) /\ g = WaiterHart(j)
    <3>1. PICK m \in Mutex : /\ MUTEXES[m].owner = i /\ MUTEXES[m].waiters # {}
                             /\ j = HighestWaiter(MUTEXES[m].waiters)
      BY <2>1, Zenon DEF NewOwners
    <3>2. j \in MUTEXES[m].waiters
      BY <3>1, WaiterFacts, Zenon
    <3>3. j \notin MUTEXES'[m].waiters
      <4>1. MUTEXES'[m].waiters = MUTEXES[m].waiters \ {j}
        BY <1>3, <3>1, Zenon
      <4>2. QED
        BY <4>1, Zenon
    <3>4. j # Current(g)
      BY <2>1, <3>2, <3>3, HandedSlot, Zenon
    <3>5. QED
      BY <3>4, Zenon DEF IInv, SuspendedFrame
  <2>2. CASE ~(j \in NewOwners(i) /\ g = WaiterHart(j))
    <3>1. St(S, g, j) = St(SCHEDULERS, g, j)
      BY <1>1, <1>2, <2>2, Zenon
    <3>2. QED
      BY <3>1, Zenon DEF InOrder, InOrderNext, Resumable
  <2>3. QED
    BY <2>1, <2>2, SMTT(30)
<1>6. QED
  BY <1>4, <1>5, Zenon DEF S

\* A handler that puts the current task of h into a state other than Ready, or
\* a peer that is not the current task of its hart into any state, and then
\* reschedules.
LEMMA SetStateKeepsFrames ==
    ASSUME IInv, NEW A, NEW B, InOrder(A, B),
           NEW h \in Hart, NEW f \in Hart, NEW j \in Slot, NEW st \in TaskState,
           St(SCHEDULERS, f, j).kind # "BlockedOnMutex",
           st.kind # "None", st.kind # "Ready" \/ j # Current(f)
    PROVE  LET S == SetState(SCHEDULERS, f, j, st) IN
           /\ Waiting(S, MUTEXES, A) /\ Resumable(S, context, B)
           /\ switch_task(h, S, FALSE) /\ MUTEXES' = MUTEXES => InOrderNext(A, B)
<1> DEFINE S == SetState(SCHEDULERS, f, j, st)
<1>1. /\ SCHEDULERS \in [Hart -> BitMapScheduler] /\ MUTEXES \in [Mutex -> KernelMutex]
      /\ \A g \in Hart : SCHEDULERS[g].current = Current(g)
      /\ Current(h) \in Slot /\ St(SCHEDULERS, h, Current(h)).kind # "None"
  BY InvFacts, Zenon DEF IInv, CurrentSane
<1>2. /\ S \in [Hart -> BitMapScheduler]
      /\ \A g \in Hart : S[g].current = SCHEDULERS[g].current
      /\ \A g \in Hart, k \in Slot :
            St(S, g, k) = IF g = f /\ k = j THEN st ELSE St(SCHEDULERS, g, k)
  BY <1>1, SetStateFacts
<1> HIDE DEF S
<1>3. Careful(S)
  BY <1>1, <1>2, Zenon DEF Careful
<1>4. Waiting(S, MUTEXES, A) /\ Resumable(S, context, B)
  BY <1>3, CarefulChange, Zenon
<1>5. St(S, h, Current(h)).kind # "None" /\ \A g \in Hart : S[g].current = Current(g)
  BY <1>1, <1>2, Zenon
<1>6. ASSUME switch_task(h, S, FALSE), MUTEXES' = MUTEXES PROVE InOrderNext(A, B)
  BY <1>1, <1>2, <1>4, <1>5, <1>6, SwitchKeepsFrames, Zenon
<1>7. QED
  BY <1>4, <1>6, Zenon DEF S

\* The timer wakes sleepers, and the current task is none.
LEMMA TimerKeepsFrames ==
    ASSUME IInv, NEW A, NEW B, InOrder(A, B), NEW h \in Hart, TimerInterrupt(h)
    PROVE  InOrderNext(A, B)
<1> DEFINE S == [SCHEDULERS EXCEPT ![h].task_table = Woken(@, timer[h])]
<1>1. /\ SCHEDULERS \in [Hart -> BitMapScheduler] /\ MUTEXES \in [Mutex -> KernelMutex]
      /\ \A g \in Hart : SCHEDULERS[g].current = Current(g) /\ Current(g) \in Slot
      /\ \A g \in Hart : St(SCHEDULERS, g, Current(g)).kind \notin {"None", "Blocked"}
  BY InvFacts, ZenonT(30) DEF IInv, CurrentSane
<1>2. \A i \in Slot : Woken(SCHEDULERS[h].task_table, timer[h])[i] =
            IF St(SCHEDULERS, h, i).kind = "Blocked" /\ timer[h] >= St(SCHEDULERS, h, i).arg
            THEN Ready ELSE St(SCHEDULERS, h, i)
  BY Zenon DEF Woken, St
<1>3. Woken(SCHEDULERS[h].task_table, timer[h]) \in [Slot -> TaskState]
  BY <1>1, SlotFacts, Zenon DEF Woken, BitMapScheduler
<1>4. /\ S \in [Hart -> BitMapScheduler]
      /\ \A g \in Hart : S[g].current = Current(g)
      /\ \A g \in Hart \ {h}, i \in Slot : St(S, g, i) = St(SCHEDULERS, g, i)
      /\ \A i \in Slot : St(S, h, i) = Woken(SCHEDULERS[h].task_table, timer[h])[i]
  BY <1>1, <1>3, Zenon DEF BitMapScheduler, St
<1>5. switch_task(h, S, TRUE) /\ MUTEXES' = MUTEXES
  BY ZenonT(30) DEF TimerInterrupt
<1> HIDE DEF S
<1>6. \A g \in Hart, i \in Slot :
         \/ St(S, g, i) = St(SCHEDULERS, g, i)
         \/ St(SCHEDULERS, g, i).kind = "Blocked"
  BY <1>2, <1>4, SMTT(30)
<1>7. Careful(S)
  BY <1>1, <1>4, <1>6 DEF Careful
<1>8. Waiting(S, MUTEXES, A) /\ Resumable(S, context, B)
  BY <1>7, CarefulChange, Zenon
<1>9. St(S, h, Current(h)).kind # "None"
  BY <1>1, <1>6, Zenon
<1>10. QED
  BY <1>1, <1>4, <1>5, <1>8, <1>9, SwitchKeepsFrames, Zenon

\* Every trap handler of a hart keeps bits and frames in order.
LEMMA HartKeepsFrames ==
    ASSUME IInv, NEW A, NEW B, InOrder(A, B), Excuses(A, B),
           IInv', NEW h \in Hart, HartStep(h)
    PROVE  InOrderNext(A, B)
<1>1. /\ SCHEDULERS \in [Hart -> BitMapScheduler] /\ MUTEXES \in [Mutex -> KernelMutex]
      /\ MUTEXES' \in [Mutex -> KernelMutex]
      /\ \A g \in Hart : SCHEDULERS[g].current = Current(g)
      /\ Current(h) \in Slot /\ Current(h) \in Tasks[h]
      /\ St(SCHEDULERS, h, Current(h)).kind \notin {"None", "BlockedOnMutex"}
  BY InvFacts, Zenon DEF IInv, CurrentSane, Good, MutexesSane
<1>2. CASE UNCHANGED <<SCHEDULERS, MUTEXES, context>>
  BY <1>2, Zenon DEF InOrder, InOrderNext, Waiting, Resumable
<1>3. CASE TimerEntry(h) \/ UnhandledException(h)
           \/ \E m \in Mutex : Sys4UnlockPanics(h, m)
  BY <1>2, <1>3, Zenon DEF TimerEntry, UnhandledException, Sys4UnlockPanics
<1>4. CASE TimerInterrupt(h)
  BY <1>4, TimerKeepsFrames, Zenon
<1>5. CASE SoftwareInterrupt(h) \/ Sys1Yield(h)
  <2>1. switch_task(h, SCHEDULERS, FALSE) /\ MUTEXES' = MUTEXES
    BY <1>5, Zenon DEF SoftwareInterrupt, Sys1Yield
  <2>2. QED
    BY <1>1, <2>1, SwitchKeepsFrames, Zenon DEF InOrder, InOrderNext
<1>6. ASSUME NEW st \in TaskState, st.kind \notin {"None", "Ready"}, MUTEXES' = MUTEXES,
             switch_task(h, SetState(SCHEDULERS, h, Current(h), st), FALSE)
      PROVE  InOrderNext(A, B)
  BY <1>1, <1>6, SetStateKeepsFrames, Zenon
<1>7. ASSUME NEW ticks \in Sleeps, Sys2Sleep(h, ticks) PROVE InOrderNext(A, B)
  <2>1. (TICK_COUNT + ticks) % TICK_MOD \in Nat
    BY KernelAssumption DEF IInv, RestTypeOK
  <2>2. PICK st \in TaskState : /\ st = State("Blocked", (TICK_COUNT + ticks) % TICK_MOD)
                                /\ st.kind = "Blocked"
    <3>1. \A d \in Nat : State("Blocked", d) \in TaskState /\ State("Blocked", d).kind = "Blocked"
      BY Zenon DEF State, TaskState, Kind
    <3>2. QED
      BY <2>1, <3>1, Zenon
  <2>3. switch_task(h, SetState(SCHEDULERS, h, Current(h), st), FALSE) /\ MUTEXES' = MUTEXES
    BY <1>7, <2>2, Zenon DEF Sys2Sleep
  <2>4. QED
    BY <1>6, <2>2, <2>3, Zenon
<1>8. ASSUME NEW e \in Endpoint, Sys6Send(h, e) \/ Sys7Recv(h, e) PROVE InOrderNext(A, B)
  <2>1. PICK peerKind \in {"BlockedOnIpcSend", "BlockedOnIpcRecv"},
             ownKind \in {"BlockedOnIpcSend", "BlockedOnIpcRecv"} :
                Rendezvous(h, e, peerKind, ownKind)
    BY <1>8, Zenon DEF Sys6Send, Sys7Recv
  <2>2. MUTEXES' = MUTEXES
    BY <2>1, Zenon DEF Rendezvous
  <2>3. CASE Parked(peerKind, e) = {}
    <3>1. PICK st \in TaskState : st = State(ownKind, e) /\ st.kind = ownKind
      <4>1. State(ownKind, e) \in TaskState /\ State(ownKind, e).kind = ownKind
        BY KernelAssumption, Zenon DEF State, TaskState, Kind
      <4>2. QED
        BY <4>1, Zenon
    <3>2. switch_task(h, SetState(SCHEDULERS, h, Current(h), st), FALSE)
      BY <2>1, <2>3, <3>1, Zenon DEF Rendezvous
    <3>3. QED
      BY <1>6, <2>2, <3>1, <3>2, Zenon
  <2>4. CASE Parked(peerKind, e) # {}
    <3> DEFINE peer == FirstParked(peerKind, e)
    <3>1. SCHEDULERS' = SetState(SCHEDULERS, peer[1], peer[2], Ready) /\ context' = context
      BY <2>1, <2>4, Zenon DEF Rendezvous
    <3>2. peer[1] \in Hart /\ peer[2] \in Slot /\ KindOf(peer[1], peer[2]) = peerKind
      BY <2>4, FirstParkedFacts, Zenon DEF Parked
    <3>3. PICK f \in Hart, j \in Slot :
             SCHEDULERS' = SetState(SCHEDULERS, f, j, Ready) /\ KindOf(f, j) = peerKind
      BY <3>1, <3>2, Zenon
    <3>4. St(SCHEDULERS, f, j).kind = peerKind /\ j # Current(f)
      BY <3>3, InvFacts DEF IInv, CurrentSane
    <3>5. Ready \in TaskState /\ Ready.kind = "Ready"
      BY SlotFacts, Zenon DEF Ready, State
    <3>6. Waiting(SCHEDULERS', MUTEXES, A) /\ Resumable(SCHEDULERS', context, B)
      BY <3>3, <3>4, <3>5, SetStateKeepsFrames, Zenon
    <3>7. QED
      BY <2>2, <3>1, <3>6, Zenon DEF InOrder, InOrderNext
  <2>5. QED
    BY <2>3, <2>4, Zenon
<1>9. CASE Fault(h)
  <2> DEFINE S == TerminatedAndRecovered(h, Current(h))
  <2>1. switch_task(h, S, FALSE) /\ Current(h) # IDLE /\ MUTEXES' = Recovered(Current(h))
    BY <1>9, ZenonT(30) DEF Fault, Traps
  <2>2. /\ S \in [Hart -> BitMapScheduler] /\ \A g \in Hart : S[g].current = Current(g)
        /\ \A g \in Hart : CurrentSane(S, g)
    BY <1>1, <2>1, TerminationGood, ZenonT(30)
  <2>3. Waiting(S, MUTEXES', A) /\ Resumable(S, context, B)
    BY <1>1, <2>1, RecoveryKeepsFrames, Zenon
  <2> HIDE DEF S
  <2>4. St(S, h, Current(h)).kind # "None"
    BY <2>2, Zenon DEF CurrentSane
  <2>5. QED
    BY <1>1, <2>1, <2>2, <2>3, <2>4, SwitchKeepsFrames, Zenon
<1>10. QED
  BY <1>3, <1>4, <1>5, <1>7, <1>8, <1>9, LockKeepsFrames, UnlockKeepsFrames, SMTT(30) DEF HartStep

\* So does the watchdog's scan.
LEMMA WatchdogKeepsFrames ==
    ASSUME IInv, NEW A, NEW B, InOrder(A, B), Excuses(A, B), WatchdogStep
    PROVE  InOrderNext(A, B)
<1>1. CASE WatchdogLocks \/ WatchdogUnlocks
  BY <1>1, Zenon DEF WatchdogLocks, WatchdogUnlocks, InOrder, InOrderNext, Waiting, Resumable
<1>2. ASSUME NEW i \in Targets, Sys8Terminate(i) PROVE InOrderNext(A, B)
  <2> DEFINE f == IF KindOf(0, i) # "None" THEN 0 ELSE 1
  <2>1. /\ KindOf(f, i) # "None" /\ SCHEDULERS' = TerminatedAndRecovered(f, i)
        /\ MUTEXES' = Recovered(i) /\ context' = context /\ Scanning
    BY <1>2, Zenon DEF Sys8Terminate
  <2>2. f \in Hart /\ i \in Slot /\ i # IDLE
    BY KernelAssumption, Zenon DEF Hart
  <2> HIDE DEF f
  <2>3. i \in Tasks[f] \ {IDLE}
    BY <2>1, <2>2, InvFacts, SMTT(30) DEF IInv, Good, Sane
  <2>4. QED
    BY <2>1, <2>2, <2>3, RecoveryKeepsFrames, Zenon DEF InOrder, InOrderNext
<1>3. ASSUME NEW p \in Restartable, WatchdogRestarts(p[1], p[2]) PROVE InOrderNext(A, B)
  <2>1. PICK f \in Hart, i \in Slot :
           /\ KindOf(f, i) = "Terminated" /\ SCHEDULERS' = SetState(SCHEDULERS, f, i, Ready)
           /\ context' = [context EXCEPT ![f][i] = "fresh"] /\ MUTEXES' = MUTEXES
    BY <1>3, KernelAssumption, ZenonT(30) DEF WatchdogRestarts
  <2>2. St(SCHEDULERS, f, i).kind = "Terminated" /\ SCHEDULERS \in [Hart -> BitMapScheduler]
        /\ context \in [Hart -> [Slot -> Context]] /\ MUTEXES \in [Mutex -> KernelMutex]
    BY <2>1, InvFacts, Zenon DEF IInv, RestTypeOK
  <2>3. \A g \in Hart, k \in Slot :
           St(SCHEDULERS', g, k) = IF g = f /\ k = i THEN Ready ELSE St(SCHEDULERS, g, k)
    BY <2>1, <2>2, SlotFacts, SetStateFacts
  <2>4. Waiting(SCHEDULERS', MUTEXES, A)
    <3> SUFFICES ASSUME NEW m \in Mutex, NEW w \in MUTEXES[m].waiters,
                      <<m, w>> \notin A
                 PROVE  St(SCHEDULERS', WaiterHart(w), w) = State("BlockedOnMutex", m)
      BY Zenon DEF Waiting
    <3>1. /\ w \in Slot /\ WaiterHart(w) \in Hart
          /\ St(SCHEDULERS, WaiterHart(w), w) = State("BlockedOnMutex", m)
      BY WaiterNotCurrent, Zenon
    <3>2. State("BlockedOnMutex", m).kind = "BlockedOnMutex"
      BY Zenon DEF State
    <3>3. QED
      BY <2>2, <2>3, <3>1, <3>2, Zenon
  <2>5. Resumable(SCHEDULERS', context', B)
    BY <2>1, <2>2, <2>3, Zenon DEF InOrder, InOrderNext, Resumable
  <2>6. QED
    BY <2>1, <2>4, <2>5, Zenon DEF InOrder, InOrderNext
<1>4. QED
  BY <1>1, <1>2, <1>3, Zenon DEF WatchdogStep

\* A step keeps bits and frames in order, up to what is excused.
LEMMA StepKeepsFrames ==
    ASSUME IInv, IInv', NEW A, NEW B, InOrder(A, B), Excuses(A, B), [Next]_vars
    PROVE  InOrderNext(A, B)
<1>1. CASE UNCHANGED vars
  BY <1>1, Zenon DEF vars, InOrder, InOrderNext, Waiting, Resumable
<1>2. QED
  BY <1>1, HartKeepsFrames, WatchdogKeepsFrames, Zenon DEF Next

\* Slot i of hart h can be terminated while a mutex holds its waiters bit.
Exposed(h, i) == i \in Targets /\ LockCaps[h][i] # {}

ExposedSlots == {p \in Hart \X Slot : Exposed(p[1], p[2])}

\* Bits and frames are in order, but for the targets of the watchdog, in every
\* reachable state.
LEMMA FramesInductive == Spec => []InOrder(Mutex \X Targets, ExposedSlots)
<1> DEFINE A == Mutex \X Targets
           B == ExposedSlots
<1>1. Init => InOrder(A, B)
  <2> SUFFICES ASSUME Init PROVE InOrder(A, B)
    BY Zenon
  <2>1. \A m \in Mutex : MUTEXES[m].waiters = {}
    BY Zenon DEF Init
  <2>2. ASSUME NEW h \in Hart, NEW i \in Slot, St(SCHEDULERS, h, i).kind = "Ready"
        PROVE  context[h][i] # "live"
    <3>1. Tasks[h] \in SUBSET Slot /\ IDLE \in Tasks[h]
      BY KernelAssumption, Zenon
    <3>2. SCHEDULERS[h] = start_first_task(Registered(Tasks[h]))
      BY Zenon DEF Init
    <3>3. SCHEDULERS[h].task_table[SCHEDULERS[h].current] = Running
      BY <3>1, <3>2, BootScheduler, SMTT(30)
    <3>4. i # SCHEDULERS[h].current
      BY <2>2, <3>3 DEF St, Running, State
    <3>5. QED
      BY <3>4, Zenon DEF Init
  <2>3. QED
    BY <2>1, <2>2, Zenon DEF InOrder, Waiting, Resumable
<1>2. InOrder(A, B) /\ IInv /\ IInv' /\ [Next]_vars => InOrder(A, B)'
  <2> SUFFICES ASSUME InOrder(A, B), IInv, IInv', [Next]_vars PROVE InOrder(A, B)'
    BY Zenon
  <2>1. ASSUME NEW m \in Mutex, NEW w \in MUTEXES[m].waiters, w \in Targets
        PROVE  <<WaiterHart(w), w>> \in B
    <3>1. m \in LockCaps[WaiterHart(w)][w] /\ w \in Slot
      BY InvFacts, Zenon DEF IInv, Good, MutexesSane
    <3>2. WaiterHart(w) \in Hart
      BY <3>1, SlotFacts, WaiterHartType, Zenon
    <3>3. QED
      BY <2>1, <3>1, <3>2, SMTT(30) DEF ExposedSlots, Exposed
  <2>2. Excuses(A, B)
    BY <2>1, ZenonT(30) DEF Excuses
  <2>3. InOrderNext(A, B)
    BY <2>2, StepKeepsFrames, Zenon
  <2>4. QED
    BY <2>3, Zenon DEF InOrder, InOrderNext, Waiting, Resumable, St, ExposedSlots, Exposed
<1>3. QED
  BY <1>1, <1>2, InductiveInvariant, PTL DEF Spec

\* Only the task of a slot the watchdog may terminate can leave a waiters bit
\* behind, and only one that also uses mutexes can be Ready with no frame to
\* resume: whatever the tasks, their capabilities and the interleaving.
StaleOnlyExposed ==
    /\ \A m \in Mutex : \A w \in MUTEXES[m].waiters : w \in Targets \/ BlockedOn(w, m)
    /\ \A h \in Hart, i \in Slot : LiveReady(h, i) => Exposed(h, i)

\* Stale bits, and Ready tasks without a frame, are confined to the targets of
\* syscall 8 that may lock a mutex.
THEOREM StaleConfined == Spec => []StaleOnlyExposed
<1>1. InOrder(Mutex \X Targets, ExposedSlots) => StaleOnlyExposed
  <2> SUFFICES ASSUME InOrder(Mutex \X Targets, ExposedSlots) PROVE StaleOnlyExposed
    BY Zenon
  <2>1. ASSUME NEW m \in Mutex, NEW w \in MUTEXES[m].waiters, w \notin Targets
        PROVE  BlockedOn(w, m)
    BY <2>1, Zenon DEF InOrder, Waiting, BlockedOn, StateOf, St
  <2>2. ASSUME NEW h \in Hart, NEW i \in Slot, LiveReady(h, i) PROVE Exposed(h, i)
    <3>1. <<h, i>> \in ExposedSlots
      BY <2>2, Zenon DEF InOrder, Resumable, LiveReady, KindOf, St
    <3>2. QED
      BY <3>1, SMTT(30) DEF ExposedSlots
  <2>3. QED
    BY <2>1, <2>2, Zenon DEF StaleOnlyExposed
<1>2. QED
  BY <1>1, FramesInductive, PTL

\* The excused bits of a single step are those that are stale already and those
\* of a slot that syscall 8 may terminate or a stale bit hands a mutex to; the
\* excused slots are those that are Ready without a frame already and those
\* that a stale bit hands a mutex to.
LEMMA StepParts ==
    ASSUME IInv, IInv', [Next]_vars
    PROVE  /\ \A m \in Mutex : \A w \in MUTEXES'[m].waiters :
                 \/ BlockedOn(w, m)'
                 \/ /\ w \in MUTEXES[m].waiters
                    /\ ~BlockedOn(w, m) \/ (Scanning /\ w \in Targets) \/ StaleHandover(w)
           /\ \A h \in Hart, i \in Slot : LiveReady(h, i)' =>
                 LiveReady(h, i) \/ (h = WaiterHart(i) /\ StaleHandover(i))
<1>1. PICK A : A = {p \in Mutex \X Slot :
          /\ p[2] \in MUTEXES[p[1]].waiters
          /\ ~BlockedOn(p[2], p[1]) \/ (Scanning /\ p[2] \in Targets) \/ StaleHandover(p[2])}
  BY Zenon
<1>2. PICK B : B = {p \in Hart \X Slot :
          LiveReady(p[1], p[2]) \/ (p[1] = WaiterHart(p[2]) /\ StaleHandover(p[2]))}
  BY Zenon
<1>3. \A m \in Mutex, w \in Slot : <<m, w>> \in A <=>
          /\ w \in MUTEXES[m].waiters
          /\ ~BlockedOn(w, m) \/ (Scanning /\ w \in Targets) \/ StaleHandover(w)
  BY <1>1, SMTT(30)
<1>4. \A h \in Hart, i \in Slot : <<h, i>> \in B <=>
          LiveReady(h, i) \/ (h = WaiterHart(i) /\ StaleHandover(i))
  BY <1>2, SMTT(30)
<1>5. \A m \in Mutex : /\ \A w \in MUTEXES[m].waiters : w \in Slot /\ WaiterHart(w) \in Hart
                       /\ \A w \in MUTEXES'[m].waiters : w \in Slot
  <2>1. \A m \in Mutex : /\ MUTEXES[m].waiters \in SUBSET Slot
                         /\ MUTEXES'[m].waiters \in SUBSET Slot
    BY Zenon DEF IInv, Good, MutexesSane, KernelMutex
  <2>2. QED
    BY <2>1, SlotFacts, WaiterHartType, Zenon
<1>6. InOrder(A, B)
  <2>1. Waiting(SCHEDULERS, MUTEXES, A)
    BY <1>3, <1>5, Zenon DEF Waiting, BlockedOn, StateOf, St
  <2>2. Resumable(SCHEDULERS, context, B)
    BY <1>4, Zenon DEF Resumable, LiveReady, KindOf, St
  <2>3. QED
    BY <2>1, <2>2, Zenon DEF InOrder
<1>7. Excuses(A, B)
  <2>1. ASSUME NEW m \in Mutex, NEW w \in MUTEXES[m].waiters \ MUTEXES'[m].waiters, <<m, w>> \in A
        PROVE  /\ \A n \in Mutex : w \in MUTEXES[n].waiters => <<n, w>> \in A
               /\ w = Current(WaiterHart(w)) => <<WaiterHart(w), w>> \in B
    <3>1. w \in Slot /\ WaiterHart(w) \in Hart
      BY <1>5, Zenon
    <3>2. CASE StaleHandover(w)
      BY <1>3, <1>4, <3>1, <3>2, Zenon
    <3>3. CASE BlockedOn(w, m) /\ Scanning /\ w \in Targets
      <4>1. St(SCHEDULERS, WaiterHart(w), Current(WaiterHart(w))).kind # "BlockedOnMutex"
        BY <3>1, Zenon DEF IInv, CurrentSane, Current
      <4>2. State("BlockedOnMutex", m).kind = "BlockedOnMutex"
        BY Zenon DEF State
      <4>3. w # Current(WaiterHart(w))
        BY <3>3, <4>1, <4>2, Zenon DEF BlockedOn, StateOf, St
      <4>4. QED
        BY <1>3, <3>1, <3>3, <4>3, Zenon
    <3>4. ~BlockedOn(w, m) => StaleHandover(w)
      BY Zenon DEF StaleHandover
    <3>5. QED
      BY <1>3, <2>1, <3>1, <3>2, <3>3, <3>4, Zenon
  <2>2. ASSUME Scanning, NEW m \in Mutex, NEW i \in Targets, i \in MUTEXES[m].waiters
        PROVE  <<m, i>> \in A
    BY <1>3, <1>5, <2>2, Zenon
  <2>3. QED
    BY <2>1, <2>2, Zenon DEF Excuses
<1>8. InOrderNext(A, B)
  BY <1>6, <1>7, StepKeepsFrames, Zenon
<1>9. ASSUME NEW m \in Mutex, NEW w \in MUTEXES'[m].waiters
      PROVE  \/ BlockedOn(w, m)'
             \/ /\ w \in MUTEXES[m].waiters
                /\ ~BlockedOn(w, m) \/ (Scanning /\ w \in Targets) \/ StaleHandover(w)
  <2>1. <<m, w>> \in A \/ St(SCHEDULERS', WaiterHart(w), w) = State("BlockedOnMutex", m)
    BY <1>8, Zenon DEF InOrderNext, Waiting
  <2>2. St(SCHEDULERS', WaiterHart(w), w) = State("BlockedOnMutex", m) => BlockedOn(w, m)'
    BY Zenon DEF BlockedOn, StateOf, St
  <2>3. QED
    BY <1>3, <1>5, <2>1, <2>2, Zenon
<1>10. ASSUME NEW h \in Hart, NEW i \in Slot, LiveReady(h, i)'
       PROVE  LiveReady(h, i) \/ (h = WaiterHart(i) /\ StaleHandover(i))
  <2>1. St(SCHEDULERS', h, i).kind = "Ready" /\ context'[h][i] = "live"
    BY <1>10, Zenon DEF LiveReady, KindOf, St
  <2>2. <<h, i>> \in B
    BY <1>8, <2>1, Zenon DEF InOrderNext, Resumable
  <2>3. QED
    BY <1>4, <2>2, Zenon
<1>11. QED
  BY <1>9, <1>10, Zenon

\* For every registration, capability table, set of targets and number of
\* mutexes, a waiters bit and its blocked task part only when syscall 8
\* terminates the task or a stale bit of it is handed another mutex.
THEOREM BitsPartByTermination == Spec => WaitersTrackBlocked
<1>1. IInv /\ IInv' /\ [Next]_vars =>
         [\A m \in Mutex, w \in Slot : w \in MUTEXES'[m].waiters /\ ~BlockedOn(w, m)' =>
            /\ w \in MUTEXES[m].waiters
            /\ BlockedOn(w, m) => (Scanning /\ w \in Targets) \/ StaleHandover(w)]_vars
  BY StepParts, Zenon
<1>2. QED
  BY <1>1, InductiveInvariant, PTL DEF Spec, WaitersTrackBlocked

\* In the same generality, a task becomes Ready without a frame it can be
\* resumed from only when a release finds a stale bit of it.
THEOREM FramelessByStaleBit == Spec => LiveReadyIsStale
<1>1. IInv /\ IInv' /\ [Next]_vars =>
         [\A h \in Hart, i \in Slot : LiveReady(h, i)' /\ ~LiveReady(h, i) =>
            h = WaiterHart(i) /\ StaleHandover(i)]_vars
  BY StepParts, Zenon
<1>2. QED
  BY <1>1, InductiveInvariant, PTL DEF Spec, LiveReadyIsStale

-----------------------------------------------------------------------------
(* Which task a hart executes                                               *)

\* Hart g is left in the task it had, or has loaded the frame of another one
\* (unless the slot of the old one is empty, which no reachable state has).
Loaded(g) ==
    \/ SCHEDULERS'[g].current = Current(g)
    \/ context'[g][SCHEDULERS'[g].current] = "live"
    \/ St(SCHEDULERS', g, Current(g)).kind = "None"

\* The step leaves hart g with a task that may go on, or with the one it had
\* given up before.
Steady(g) ==
    /\ \/ Up(St(SCHEDULERS', g, SCHEDULERS'[g].current))
       \/ SCHEDULERS'[g].current = Current(g) /\ ~Up(St(SCHEDULERS, g, Current(g)))
    /\ Loaded(g)

\* S is what a handler on hart h has prepared from the schedulers: nobody's
\* current index and not h's idle task, and the other hart's current task is
\* made Ready if it is touched at all.
PreparedOn(S, h) ==
    /\ S \in [Hart -> BitMapScheduler]
    /\ \A g \in Hart : S[g].current = Current(g)
    /\ St(S, h, IDLE) = St(SCHEDULERS, h, IDLE)
    /\ \A g \in Hart \ {h} : \/ St(S, g, Current(g)) = St(SCHEDULERS, g, Current(g))
                             \/ Up(St(S, g, Current(g)))

\* switch_task loads the frame of the task it dispatches.
LEMMA SwitchLoads ==
    ASSUME IInv, NEW h \in Hart, NEW S \in [Hart -> BitMapScheduler], NEW t \in BOOLEAN,
           S[h].current = Current(h), switch_task(h, S, t)
    PROVE  Loaded(h)
<1> DEFINE s == S[h]
<1>1. s \in BitMapScheduler /\ SCHEDULERS'[h] = schedule(s, t) /\ s.current = Current(h)
  BY Zenon DEF switch_task
<1>2. Current(h) \in Slot /\ context \in [Hart -> [Slot -> Context]]
  BY InvFacts, Zenon DEF IInv, RestTypeOK
<1>3. CASE Switches(s, t)
  <2>1. context' = [context EXCEPT ![h] = [i \in Slot |->
                      IF i = schedule(s, t).current THEN "live"
                      ELSE IF i = s.current THEN "suspended"
                      ELSE context[h][i]]]
    BY <1>3, Zenon DEF switch_task
  <2>2. schedule(s, t).current \in Slot
    <3>1. schedule(s, t) \in BitMapScheduler
      BY <1>1, <1>3, ScheduleSwaps, Zenon DEF Switches
    <3>2. QED
      BY <3>1, Zenon DEF BitMapScheduler
  <2> HIDE DEF s
  <2>3. QED
    BY <1>1, <1>2, <2>1, <2>2, Zenon DEF Loaded
<1> HIDE DEF s
<1>4. CASE ~(Triggered(s, t) /\ Found(s))
  BY <1>1, <1>4, ScheduleKeeps, Zenon DEF Loaded
<1>5. CASE Triggered(s, t) /\ Found(s) /\ s.task_table[s.current].kind = "None"
  <2>1. \A i \in Slot \ {schedule(s, t).current} : schedule(s, t).task_table[i] =
           IF i = s.current /\ s.task_table[i].kind = "Running" THEN Ready ELSE s.task_table[i]
    BY <1>1, <1>5, ScheduleSwaps, Zenon
  <2>2. CASE schedule(s, t).current # Current(h)
    <3>1. schedule(s, t).task_table[Current(h)] = s.task_table[Current(h)]
      BY <1>1, <1>2, <1>5, <2>1, <2>2
    <3>2. QED
      BY <1>1, <1>5, <3>1, Zenon DEF Loaded, St
  <2>3. QED
    BY <1>1, <2>2, Zenon DEF Loaded
<1>6. QED
  BY <1>3, <1>4, <1>5, Zenon DEF Switches

\* switch_task leaves every hart with a task that may go on, or as it was.
LEMMA SwitchSteady ==
    ASSUME IInv, NEW h \in Hart, NEW S, PreparedOn(S, h), NEW t \in BOOLEAN,
           switch_task(h, S, t), NEW g \in Hart
    PROVE  Steady(g)
<1>1. CASE g = h
  BY <1>1, SwitchRuns, SwitchLoads, Zenon DEF Steady, PreparedOn
<1>2. CASE g # h
  <2>1. SCHEDULERS'[g] = S[g] /\ S[g].current = Current(g)
    BY <1>2, Zenon DEF switch_task, PreparedOn
  <2>2. St(SCHEDULERS', g, SCHEDULERS'[g].current) = St(S, g, Current(g))
    BY <2>1, Zenon DEF St
  <2>3. QED
    BY <1>2, <2>1, <2>2, Zenon DEF PreparedOn, Steady, Loaded
<1>3. QED
  BY <1>1, <1>2, Zenon

\* A handler that puts a task of its own hart into any state, or one of the
\* other hart into Ready.
LEMMA SetStatePrepared ==
    ASSUME IInv, NEW h \in Hart, NEW f \in Hart, NEW j \in Slot \ {IDLE}, NEW st \in TaskState,
           f = h \/ Up(st)
    PROVE  PreparedOn(SetState(SCHEDULERS, f, j, st), h)
<1>1. /\ SCHEDULERS \in [Hart -> BitMapScheduler]
      /\ \A g \in Hart : SCHEDULERS[g].current = Current(g) /\ Current(g) \in Slot
  BY InvFacts, Zenon
<1> DEFINE S == SetState(SCHEDULERS, f, j, st)
<1>2. /\ S \in [Hart -> BitMapScheduler]
      /\ \A g \in Hart : S[g].current = SCHEDULERS[g].current
      /\ \A g \in Hart, k \in Slot :
            St(S, g, k) = IF g = f /\ k = j THEN st ELSE St(SCHEDULERS, g, k)
  BY <1>1, SetStateFacts
<1> HIDE DEF S
<1>3. PreparedOn(S, h)
  BY <1>1, <1>2, SlotFacts, ZenonT(30) DEF PreparedOn
<1>4. QED
  BY <1>3, Zenon DEF S

\* No trap handler leaves a hart with a task that has been given up: only the
\* hart that executes it could be, and it switches to another.
LEMMA HartSteady ==
    ASSUME IInv, NEW h \in Hart, HartStep(h), NEW g \in Hart
    PROVE  Steady(g)
<1>1. /\ SCHEDULERS \in [Hart -> BitMapScheduler]
      /\ \A f \in Hart : SCHEDULERS[f].current = Current(f)
      /\ Current(h) \in Slot /\ Current(h) \in Tasks[h]
  BY InvFacts, Zenon
<1>2. CASE UNCHANGED SCHEDULERS
  BY <1>1, <1>2, Zenon DEF Steady, Loaded
<1>3. CASE TimerEntry(h) \/ UnhandledException(h)
           \/ \E m \in Mutex : Sys4UnlockPanics(h, m)
  BY <1>2, <1>3, Zenon DEF TimerEntry, UnhandledException, Sys4UnlockPanics
<1>4. CASE TimerInterrupt(h)
  <2> DEFINE S == [SCHEDULERS EXCEPT ![h].task_table = Woken(@, timer[h])]
  <2>1. switch_task(h, S, TRUE)
    BY <1>4, ZenonT(30) DEF TimerInterrupt
  <2>2. Woken(SCHEDULERS[h].task_table, timer[h]) \in [Slot -> TaskState]
    BY <1>1, SlotFacts, Zenon DEF Woken, BitMapScheduler
  <2>3. /\ S \in [Hart -> BitMapScheduler]
        /\ \A f \in Hart : S[f].current = Current(f)
        /\ \A f \in Hart \ {h}, i \in Slot : St(S, f, i) = St(SCHEDULERS, f, i)
        /\ \A i \in Slot : St(S, h, i) = Woken(SCHEDULERS[h].task_table, timer[h])[i]
    BY <1>1, <2>2, Zenon DEF BitMapScheduler, St
  <2> HIDE DEF S
  <2>4. St(S, h, IDLE) = St(SCHEDULERS, h, IDLE)
    <3>1. St(SCHEDULERS, h, IDLE).kind # "Blocked"
      BY Zenon DEF IInv, Good, Sane
    <3>2. QED
      BY <2>3, <3>1, SlotFacts, Zenon DEF Woken, St
  <2>5. PreparedOn(S, h)
    <3>1. \A f \in Hart \ {h} : St(S, f, Current(f)) = St(SCHEDULERS, f, Current(f))
      BY <2>3, InvFacts, Zenon
    <3>2. QED
      BY <2>3, <2>4, <3>1, Zenon DEF PreparedOn
  <2>6. QED
    BY <2>1, <2>5, SwitchSteady, ZenonT(30)
<1>5. ASSUME switch_task(h, SCHEDULERS, FALSE) PROVE Steady(g)
  <2>1. PreparedOn(SCHEDULERS, h)
    BY <1>1, Zenon DEF PreparedOn
  <2>2. QED
    BY <1>5, <2>1, SwitchSteady, ZenonT(30)
<1>6. ASSUME NEW f \in Hart, NEW j \in Slot \ {IDLE}, NEW st \in TaskState, f = h \/ Up(st),
             switch_task(h, SetState(SCHEDULERS, f, j, st), FALSE)
      PROVE  Steady(g)
  BY <1>6, SetStatePrepared, SwitchSteady, Zenon
<1>7. CASE SoftwareInterrupt(h) \/ Sys1Yield(h)
  BY <1>5, <1>7, Zenon DEF SoftwareInterrupt, Sys1Yield
<1>8. ASSUME NEW kind \in Kind, NEW arg \in Nat, Traps(h),
             switch_task(h, SetState(SCHEDULERS, h, Current(h), State(kind, arg)), FALSE)
      PROVE  Steady(g)
  <2>1. State(kind, arg) \in TaskState
    BY Zenon DEF State, TaskState
  <2>2. Current(h) \in Slot \ {IDLE}
    BY <1>1, <1>8, Zenon DEF Traps
  <2>3. QED
    BY <1>6, <1>8, <2>1, <2>2, Zenon
<1>9. ASSUME NEW ticks \in Sleeps, Sys2Sleep(h, ticks) PROVE Steady(g)
  <2>1. (TICK_COUNT + ticks) % TICK_MOD \in Nat /\ "Blocked" \in Kind
    BY KernelAssumption DEF IInv, RestTypeOK, Kind
  <2>2. QED
    BY <1>8, <1>9, <2>1, ZenonT(30) DEF Sys2Sleep
<1>10. ASSUME NEW m \in Mutex, Sys3Lock(h, m) PROVE Steady(g)
  <2>1. m \in Nat /\ "BlockedOnMutex" \in Kind
    BY KernelAssumption, Zenon DEF Kind
  <2>2. \/ UNCHANGED SCHEDULERS
        \/ /\ Traps(h)
           /\ switch_task(h, SetState(SCHEDULERS, h, Current(h), State("BlockedOnMutex", m)),
                          FALSE)
    BY <1>10, Zenon DEF Sys3Lock
  <2>3. QED
    BY <1>2, <1>8, <2>1, <2>2, ZenonT(30)
<1>11. ASSUME NEW m \in Mutex, Sys4Unlock(h, m) PROVE Steady(g)
  <2> DEFINE w == HighestWaiter(MUTEXES[m].waiters)
  <2>1. CASE MUTEXES[m].waiters = {}
    BY <1>5, <1>11, <2>1, Zenon DEF Sys4Unlock
  <2>2. CASE MUTEXES[m].waiters # {}
    <3>1. switch_task(h, SetState(SCHEDULERS, WaiterHart(w), w, Ready), FALSE)
      BY <1>11, <2>2, ZenonT(30) DEF Sys4Unlock
    <3>2. WaiterHart(w) \in Hart /\ w \in Slot \ {IDLE}
      BY <2>2, WaiterFacts, Zenon
    <3> HIDE DEF w
    <3>3. Ready \in TaskState /\ Up(Ready)
      BY SlotFacts, Zenon DEF Up, Ready, State
    <3>4. QED
      BY <1>6, <3>1, <3>2, <3>3, Zenon
  <2>3. QED
    BY <2>1, <2>2, Zenon
<1>12. ASSUME NEW e \in Endpoint, Sys6Send(h, e) \/ Sys7Recv(h, e) PROVE Steady(g)
  <2>1. PICK peerKind \in {"BlockedOnIpcSend", "BlockedOnIpcRecv"},
             ownKind \in {"BlockedOnIpcSend", "BlockedOnIpcRecv"} :
                Rendezvous(h, e, peerKind, ownKind)
    BY <1>12, Zenon DEF Sys6Send, Sys7Recv
  <2>2. Traps(h) /\ e \in Nat /\ ownKind \in Kind
    BY <1>12, KernelAssumption, Zenon DEF Sys6Send, Sys7Recv, Kind
  <2>3. CASE Parked(peerKind, e) = {}
    <3>1. switch_task(h, SetState(SCHEDULERS, h, Current(h), State(ownKind, e)), FALSE)
      BY <2>1, <2>3, ZenonT(30) DEF Rendezvous
    <3>2. QED
      BY <1>8, <2>2, <3>1, Zenon
  <2>4. CASE Parked(peerKind, e) # {}
    <3> DEFINE peer == FirstParked(peerKind, e)
    <3>1. SCHEDULERS' = SetState(SCHEDULERS, peer[1], peer[2], Ready)
      BY <2>1, <2>4, ZenonT(30) DEF Rendezvous
    <3>2. peer[1] \in Hart /\ peer[2] \in Slot
      BY <2>4, FirstParkedFacts, Zenon DEF Parked
    <3>3. PICK f \in Hart, j \in Slot : SCHEDULERS' = SetState(SCHEDULERS, f, j, Ready)
      BY <3>1, <3>2, Zenon
    <3> HIDE DEF peer
    <3>4. /\ SCHEDULERS'[g].current = SCHEDULERS[g].current
          /\ \A k \in Slot : St(SCHEDULERS', g, k) =
                                IF g = f /\ k = j THEN Ready ELSE St(SCHEDULERS, g, k)
      <4>1. SCHEDULERS \in [Hart -> BitMapScheduler] /\ Ready \in TaskState
        BY InvFacts, SlotFacts, Zenon
      <4>2. QED
        BY <3>3, <4>1, SetStateFacts, SMTT(30)
    <3>5. QED
      BY <3>4, InvFacts DEF Steady, Loaded, Up, Ready, State
  <2>5. QED
    BY <2>3, <2>4, Zenon
<1>13. CASE Fault(h)
  <2> DEFINE S == TerminatedAndRecovered(h, Current(h))
  <2>1. switch_task(h, S, FALSE) /\ Current(h) # IDLE
    BY <1>13, Zenon DEF Fault, Traps
  <2>2. S \in [Hart -> BitMapScheduler] /\ \A f \in Hart : S[f].current = Current(f)
    BY <1>1, <2>1, TerminationGood, ZenonT(30)
  <2>3. \A f \in Hart, j \in Slot :
           /\ \/ St(S, f, j) = Ready
              \/ f = h /\ j = Current(h)
              \/ St(S, f, j) = St(SCHEDULERS, f, j)
           /\ j = IDLE => St(S, f, j) = St(SCHEDULERS, f, j)
    <3> SUFFICES ASSUME NEW f \in Hart, NEW j \in Slot
                 PROVE  /\ \/ St(S, f, j) = Ready
                           \/ f = h /\ j = Current(h)
                           \/ St(S, f, j) = St(SCHEDULERS, f, j)
                        /\ j = IDLE => St(S, f, j) = St(SCHEDULERS, f, j)
      BY Zenon
    <3>1. Current(h) \in Slot /\ Current(h) \in Tasks[h] \ {IDLE}
      BY <1>1, <2>1, InvFacts, Zenon
    <3>2. QED
      BY <2>1, <3>1, TerminationFacts, SMTT(30)
  <2> HIDE DEF S
  <2>4. PreparedOn(S, h)
    <3>1. Up(Ready)
      BY Zenon DEF Up, Ready, State
    <3>2. \A f \in Hart \ {h} : \/ St(S, f, Current(f)) = St(SCHEDULERS, f, Current(f))
                                \/ Up(St(S, f, Current(f)))
      BY <2>3, <3>1, InvFacts, Zenon
    <3>3. QED
      BY <2>2, <2>3, <3>2, SlotFacts DEF PreparedOn
  <2>5. QED
    BY <2>1, <2>4, SwitchSteady, ZenonT(30)
<1>14. QED
  BY <1>3, <1>4, <1>7, <1>9, <1>10, <1>11, <1>12, <1>13, SMTT(30) DEF HartStep

\* Syscall 8 terminates the task hart 1 executes, or nobody's current task: it
\* is the watchdog that hart 0 executes.
LEMMA TerminateSteady ==
    ASSUME IInv, NEW i \in Targets, Sys8Terminate(i), NEW g \in Hart
    PROVE  Steady(g) \/ (g = 1 /\ Current(1) = i /\ SCHEDULERS'[1].current = i)
<1>1. /\ SCHEDULERS \in [Hart -> BitMapScheduler] /\ Current(g) \in Slot
      /\ SCHEDULERS[g].current = Current(g)
  BY InvFacts, Zenon
<1> DEFINE f == IF KindOf(0, i) # "None" THEN 0 ELSE 1
<1>2. /\ KindOf(f, i) # "None" /\ SCHEDULERS' = TerminatedAndRecovered(f, i)
      /\ Current(0) = WATCHDOG
  BY Zenon DEF Sys8Terminate, Scanning
<1>3. f \in Hart /\ i \in Slot /\ i # IDLE /\ i # WATCHDOG
  BY KernelAssumption, Zenon DEF Hart
<1> HIDE DEF f
<1>4. i \in Tasks[f] \ {IDLE}
  BY <1>2, <1>3, InvFacts, SMTT(30) DEF IInv, Good, Sane
<1>5. SCHEDULERS'[g].current = Current(g)
  BY <1>2, <1>3, <1>4, TerminationGood, ZenonT(30)
<1>6. \/ St(SCHEDULERS', g, Current(g)) = Ready
      \/ g = f /\ Current(g) = i
      \/ St(SCHEDULERS', g, Current(g)) = St(SCHEDULERS, g, Current(g))
  BY <1>1, <1>2, <1>3, <1>4, TerminationFacts
<1>7. Current(g) = i => g = 1
  BY <1>2, <1>3, Zenon DEF Hart
<1>8. QED
  BY <1>5, <1>6, <1>7, SMTT(30) DEF Steady, Loaded, Up, Ready, State

\* A restart makes a task Ready.
LEMMA RestartSteady ==
    ASSUME IInv, NEW h \in Hart, NEW i \in Slot, WatchdogRestarts(h, i), NEW g \in Hart
    PROVE  Steady(g)
<1>1. SCHEDULERS' = SetState(SCHEDULERS, h, i, Ready)
  BY Zenon DEF WatchdogRestarts
<1>2. /\ SCHEDULERS'[g].current = Current(g)
      /\ \A k \in Slot : \/ St(SCHEDULERS', g, k) = St(SCHEDULERS, g, k)
                         \/ St(SCHEDULERS', g, k) = Ready
  <2>1. SCHEDULERS \in [Hart -> BitMapScheduler] /\ Ready \in TaskState
    BY SlotFacts, InvFacts, Zenon
  <2>2. /\ SCHEDULERS'[g].current = SCHEDULERS[g].current
        /\ \A k \in Slot : St(SCHEDULERS', g, k) =
               IF g = h /\ k = i THEN Ready ELSE St(SCHEDULERS, g, k)
    BY <1>1, <2>1, SetStateFacts, SMTT(30)
  <2>3. QED
    BY <2>2, Zenon DEF Current
<1>3. QED
  BY <1>2, InvFacts DEF Steady, Loaded, Up, Ready, State

\* A hart never goes on in a terminated task, unless the watchdog on hart 0 has
\* terminated it under hart 1: then it does until its next trap.
Executes ==
    /\ KindOf(0, Current(0)) # "Terminated"
    /\ KindOf(1, Current(1)) = "Terminated" => Current(1) \in Targets

\* Faults and terminations always leave a hart with a task to execute, for every
\* registration and interleaving; the one gap is the window between syscall 8
\* on hart 0 and the next trap of hart 1.
THEOREM ExecutesLive == Spec => []Executes
<1> DEFINE Live(h) == Up(St(SCHEDULERS, h, Current(h)))
           Inv == Live(0) /\ (Live(1) \/ Current(1) \in Targets)
<1>1. ASSUME Init, NEW h \in Hart PROVE Live(h)
  <2>1. SCHEDULERS[h] = start_first_task(Registered(Tasks[h]))
    BY <1>1, Zenon DEF Init
  <2>2. Tasks[h] \in SUBSET Slot /\ IDLE \in Tasks[h]
    BY KernelAssumption, Zenon
  <2>3. SCHEDULERS[h].task_table[SCHEDULERS[h].current] = Running
    BY <2>1, <2>2, BootScheduler, SMTT(30)
  <2>4. QED
    BY <2>3 DEF Up, St, Current, Running, State
<1>2. ASSUME IInv, Inv, [Next]_vars PROVE Inv'
  <2>1. CASE UNCHANGED vars
    BY <1>2, <2>1, Zenon DEF vars, St, Current
  <2>2. ASSUME NEW g \in Hart, Next
        PROVE  \/ Steady(g)
               \/ g = 1 /\ Current(1) \in Targets /\ SCHEDULERS'[1].current = Current(1)
    <3>1. CASE \E h \in Hart : HartStep(h)
      BY <1>2, <3>1, HartSteady, Zenon
    <3>2. CASE WatchdogLocks \/ WatchdogUnlocks
      BY <1>2, <3>2, InvFacts, Zenon DEF WatchdogLocks, WatchdogUnlocks, Steady,
         Loaded
    <3>3. ASSUME NEW i \in Targets, Sys8Terminate(i)
          PROVE  \/ Steady(g)
                 \/ g = 1 /\ Current(1) \in Targets /\ SCHEDULERS'[1].current = Current(1)
      BY <1>2, <3>3, TerminateSteady, Zenon
    <3>4. ASSUME NEW p \in Restartable, WatchdogRestarts(p[1], p[2]) PROVE Steady(g)
      BY <1>2, <3>4, RestartSteady, KernelAssumption, Zenon
    <3>5. QED
      BY <2>2, <3>1, <3>2, <3>3, <3>4, Zenon DEF Next, WatchdogStep
  <2>3. 0 \in Hart /\ 1 \in Hart
    BY Zenon DEF Hart
  <2>4. QED
    BY <1>2, <2>1, <2>2, <2>3, SMTT(30) DEF Steady, Current
<1>3. Inv => Executes
  BY Zenon DEF Executes, Up, St, KindOf
<1>4. Init => Inv
  BY <1>1, Zenon DEF Hart
<1>5. QED
  BY <1>2, <1>3, <1>4, InductiveInvariant, PTL DEF Spec

=============================================================================
