------------------------- MODULE HartSchedulerProofs -------------------------
(* For any number of slots, any registered tasks and any slice: a Ready      *)
(* partition is passed over by each other slot at most once, and has the hart *)
(* before one slice for each other slot has passed.                          *)
EXTENDS HartScheduler, FiniteSetTheorems, WellFoundedInduction, TLAPS

-----------------------------------------------------------------------------
(* One call of schedule(), for every table and every number of partitions   *)

\* A non-empty set of naturals has a least element: the searches of the code
\* that stop at the first match are well defined.
LEMMA LeastExists ==
    ASSUME NEW S \in SUBSET Nat, S # {}
    PROVE  \E x \in S : \A y \in S : x <= y
<1>1. IsWellFoundedOn(OpToRel(<, Nat), Nat)
  BY NatLessThanWellFounded, Zenon
<1>2. PICK x \in S : \A y \in S : ~(<<y, x>> \in OpToRel(<, Nat))
  BY <1>1, WFMin, Zenon
<1>3. \A y \in S : ~(y < x)
  BY <1>2, Zenon DEF OpToRel
<1>4. QED
  BY <1>3

\* The slots and the states of the scheduler are what their names say.
LEMMA SlotFacts ==
    /\ IDLE \in Slot
    /\ Slot \subseteq Nat
    /\ \A i \in Slot : i # MAX_PARTITIONS
    /\ Ready \in TaskState /\ Running \in TaskState
    /\ Terminated \in TaskState /\ NoTask \in TaskState
    /\ 0 \in Slot
BY SchedulerAssumption
   DEF IDLE, Slot, Ready, Running, Terminated, NoTask, State, TaskState, Kind

\* A partition found by the search is Ready, is the nearest one ahead of the
\* current slot, and is idle only when there is no other.
LEMMA NextPartitionFacts ==
    ASSUME NEW s \in BitMapScheduler, Found(s)
    PROVE  /\ NextPartition(s) \in Slot
           /\ s.task_table[NextPartition(s)].kind = "Ready"
           /\ NextPartition(s) = IDLE => ReadyPartitions(s) = {}
           /\ \A j \in ReadyPartitions(s) :
                 Ahead(s.current, NextPartition(s)) <= Ahead(s.current, j)
<1>1. CASE ReadyPartitions(s) = {}
  BY <1>1, SlotFacts, Zenon DEF Found, NextPartition
<1>2. CASE ReadyPartitions(s) # {}
  <2> DEFINE D == {Ahead(s.current, i) : i \in ReadyPartitions(s)}
  <2>1. s.current \in Slot
    BY Zenon DEF BitMapScheduler
  <2>2. D \in SUBSET Nat
    BY <2>1, SchedulerAssumption DEF ReadyPartitions, Ahead, Slot
  <2>3. D # {}
    BY <1>2, Zenon
  <2>4. PICK d \in D : \A e \in D : d <= e
    BY <2>2, <2>3, LeastExists, Zenon
  <2>5. \E i \in ReadyPartitions(s) :
           \A j \in ReadyPartitions(s) : Ahead(s.current, i) <= Ahead(s.current, j)
    BY <2>4, Zenon
  <2>6. /\ NextPartition(s) \in ReadyPartitions(s)
        /\ \A j \in ReadyPartitions(s) :
              Ahead(s.current, NextPartition(s)) <= Ahead(s.current, j)
    BY <1>2, <2>5, Zenon DEF NextPartition
  <2>7. QED
    BY <2>6, Zenon DEF ReadyPartitions
<1>3. QED
  BY <1>1, <1>2, Zenon

\* The first Ready slot start_first_task looks for exists.
LEMMA FirstReadyFacts ==
    ASSUME NEW s \in BitMapScheduler, \E i \in Slot : s.task_table[i].kind = "Ready"
    PROVE  FirstReady(s) \in Slot /\ s.task_table[FirstReady(s)].kind = "Ready"
<1> DEFINE R == {i \in Slot : s.task_table[i].kind = "Ready"}
<1>1. R \in SUBSET Nat /\ R # {}
  BY SlotFacts, Zenon
<1>2. PICK x \in R : \A y \in R : x <= y
  BY <1>1, LeastExists, Zenon
<1>3. QED
  BY <1>2, Zenon DEF FirstReady

\* schedule() leaves a call that finds nothing to switch to with the same
\* table and the same current slot.
LEMMA ScheduleKeeps ==
    ASSUME NEW s \in BitMapScheduler, NEW t \in BOOLEAN, ~(Triggered(s, t) /\ Found(s))
    PROVE  /\ schedule(s, t) \in BitMapScheduler
           /\ schedule(s, t).task_table = s.task_table
           /\ schedule(s, t).current = s.current
<1>1. Charged(s, t) \in 0 .. MIF
  BY SchedulerAssumption DEF Charged, BitMapScheduler
<1>2. QED
  BY <1>1, SchedulerAssumption DEF schedule, BitMapScheduler

\* A call that switches dispatches a Ready task, marks it Running, puts a
\* Running predecessor back to Ready and touches no other slot.
LEMMA ScheduleSwaps ==
    ASSUME NEW s \in BitMapScheduler, NEW t \in BOOLEAN, Triggered(s, t), Found(s)
    PROVE  LET r == schedule(s, t) IN
           /\ r \in BitMapScheduler
           /\ r.current = NextPartition(s)
           /\ r.task_table[r.current] = Running
           /\ \A i \in Slot \ {r.current} :
                 r.task_table[i] = IF i = s.current /\ s.task_table[i].kind = "Running"
                                   THEN Ready ELSE s.task_table[i]
<1>1. schedule(s, t) = Swap(s)
  BY Zenon DEF schedule
<1>2. NextPartition(s) \in Slot
  BY NextPartitionFacts, Zenon
<1>3. s.current \in Slot /\ s.task_table \in [Slot -> TaskState]
  BY Zenon DEF BitMapScheduler
<1>4. MIF \in 0 .. MIF
  BY SchedulerAssumption
<1>5. QED
  BY <1>1, <1>2, <1>3, <1>4, SlotFacts DEF Swap, BitMapScheduler

-----------------------------------------------------------------------------
(* The inductive invariant                                                  *)

\* Every slot that was dispatched while y is Ready lies no nearer to y, in the
\* order of the search, than the current one.
Passed ==
    \A y \in Partitions : KindOf(y) = "Ready" =>
        \A x \in Tasks : passes[y][x] = 1 => Ahead(sched.current, y) <= Ahead(x, y)

\* BoundedBypass alone does not say why the next dispatch is not a second one;
\* Passed does: each dispatch moves the current slot nearer to y.
IInv ==
    /\ sched \in BitMapScheduler
    /\ passes \in [Partitions -> [Tasks -> 0 .. 1]]
    /\ Passed

\* The partitions are tasks other than idle, and tasks have slots.
LEMMA TaskFacts ==
    Partitions \subseteq Tasks /\ Tasks \subseteq Slot /\ IDLE \notin Partitions
BY TasksAssumption, Zenon DEF Partitions

\* The search goes round: the way from c to y passes a slot x that is met first.
LEMMA Nearer ==
    ASSUME NEW c \in Slot, NEW x \in Slot, NEW y \in Slot, x # y,
           Ahead(c, x) <= Ahead(c, y)
    PROVE  Ahead(x, y) < Ahead(c, y)
BY SchedulerAssumption DEF Slot, Ahead

\* A step that changes the state of one slot, without schedule().
LEMMA AssignStep ==
    ASSUME IInv, NEW i \in Partitions, NEW st \in TaskState, Assign(i, st)
    PROVE  IInv'
<1>1. sched' \in BitMapScheduler /\ sched'.current = sched.current
  BY TaskFacts, Zenon DEF IInv, Assign, BitMapScheduler
<1>2. passes' \in [Partitions -> [Tasks -> 0 .. 1]]
  BY DEF IInv, Assign
<1>3. Passed'
  <2> SUFFICES ASSUME NEW y \in Partitions, sched'.task_table[y].kind = "Ready",
                      NEW x \in Tasks, passes'[y][x] = 1
               PROVE  Ahead(sched'.current, y) <= Ahead(x, y)
    BY Zenon DEF Passed, KindOf
  <2>1. StaysReady(y) /\ passes'[y] = passes[y]
    BY DEF Assign
  <2>2. QED
    BY <1>1, <2>1, Zenon DEF IInv, Passed, StaysReady
<1>4. QED
  BY <1>1, <1>2, <1>3, Zenon DEF IInv

\* A step that ends with schedule() on a table with the same current slot, in
\* which a partition that was Ready and is not the current one still is.
LEMMA RescheduleStep ==
    ASSUME IInv, NEW s \in BitMapScheduler, NEW t \in BOOLEAN, Reschedule(s, t),
           s.current = sched.current,
           \A y \in Partitions : StaysReady(y) => s.task_table[y].kind = "Ready"
    PROVE  IInv'
<1>1. CASE ~(Triggered(s, t) /\ Found(s))
  <2>1. sched' \in BitMapScheduler /\ sched'.current = sched.current /\ ~Switches(s, t)
    BY <1>1, ScheduleKeeps, Zenon DEF Reschedule, Switches
  <2>2. ASSUME NEW y \in Partitions, NEW x \in Tasks
        PROVE  /\ passes'[y][x] \in 0 .. 1
               /\ passes'[y][x] = 1 => StaysReady(y) /\ passes[y][x] = 1
    <3>1. passes'[y][x] = IF ~StaysReady(y) THEN 0 ELSE passes[y][x]
      BY <2>1, Zenon DEF Reschedule
    <3>2. passes[y][x] \in 0 .. 1
      BY Zenon DEF IInv
    <3>3. QED
      BY <3>1, <3>2
  <2>3. passes' \in [Partitions -> [Tasks -> 0 .. 1]]
    BY <2>2, Zenon DEF Reschedule
  <2>4. Passed'
    <3> SUFFICES ASSUME NEW y \in Partitions, sched'.task_table[y].kind = "Ready",
                        NEW x \in Tasks, passes'[y][x] = 1
                 PROVE  Ahead(sched'.current, y) <= Ahead(x, y)
      BY Zenon DEF Passed, KindOf
    <3>1. StaysReady(y) /\ passes[y][x] = 1
      BY <2>2, Zenon
    <3>2. QED
      BY <2>1, <3>1, Zenon DEF IInv, Passed, StaysReady
  <2>5. QED
    BY <2>1, <2>3, <2>4, Zenon DEF IInv
<1>2. CASE Triggered(s, t) /\ Found(s)
  <2>1. PICK n \in Slot : n = NextPartition(s)
    BY <1>2, NextPartitionFacts, Zenon
  <2>2. sched' \in BitMapScheduler /\ sched'.current = n /\ sched'.task_table[n] = Running
    BY <1>2, <2>1, ScheduleSwaps DEF Reschedule
  <2>3. ASSUME NEW y \in Partitions, StaysReady(y)
        PROVE  /\ Ahead(n, y) < Ahead(sched.current, y)
               /\ n \in Tasks => passes[y][n] = 0
    <3>1. y \in ReadyPartitions(s) /\ y \in Slot
      BY <2>3, TaskFacts, Zenon DEF ReadyPartitions
    <3>2. n # y
      BY <2>2, <2>3 DEF StaysReady, Running, State
    <3>3. Ahead(s.current, n) <= Ahead(s.current, y)
      BY <1>2, <2>1, <3>1, NextPartitionFacts, Zenon
    <3>4. Ahead(n, y) < Ahead(s.current, y)
      BY <3>1, <3>2, <3>3, Nearer, Zenon DEF BitMapScheduler
    <3>5. n \in Tasks => passes[y][n] # 1
      <4>1. sched.current \in Slot
        BY Zenon DEF IInv, BitMapScheduler
      <4>2. Ahead(n, y) \in Nat /\ Ahead(sched.current, y) \in Nat
        BY <3>1, <4>1, SchedulerAssumption DEF Slot, Ahead
      <4>3. QED
        BY <2>3, <3>4, <4>2 DEF IInv, Passed, StaysReady
    <3>6. QED
      BY <2>3, <3>4, <3>5 DEF IInv
  <2>4. ASSUME NEW y \in Partitions, NEW x \in Tasks
        PROVE  /\ passes'[y][x] \in 0 .. 1
               /\ passes'[y][x] = 1 => StaysReady(y) /\ (x = n \/ passes[y][x] = 1)
    <3>1. passes'[y][x] = IF ~StaysReady(y) THEN 0
                          ELSE IF Switches(s, t) /\ x = n
                               THEN Capped(passes[y][x] + 1, 1)
                               ELSE passes[y][x]
      BY <2>2, Zenon DEF Reschedule
    <3>2. passes[y][x] \in 0 .. 1
      BY Zenon DEF IInv
    <3>3. QED
      BY <2>3, <3>1, <3>2 DEF Capped
  <2>5. passes' \in [Partitions -> [Tasks -> 0 .. 1]]
    BY <2>4, Zenon DEF Reschedule
  <2>6. Passed'
    <3> SUFFICES ASSUME NEW y \in Partitions, NEW x \in Tasks, passes'[y][x] = 1
                 PROVE  Ahead(n, y) <= Ahead(x, y)
      BY <2>2, Zenon DEF Passed
    <3>1. StaysReady(y) /\ (x = n \/ passes[y][x] = 1)
      BY <2>4, Zenon
    <3>2. /\ sched.current \in Slot /\ x \in Slot /\ y \in Slot
          /\ Ahead(n, y) \in Nat /\ Ahead(x, y) \in Nat /\ Ahead(sched.current, y) \in Nat
      BY TaskFacts, SchedulerAssumption DEF IInv, BitMapScheduler, Slot, Ahead
    <3>3. QED
      BY <2>3, <3>1, <3>2 DEF IInv, Passed, StaysReady
  <2>7. QED
    BY <2>2, <2>5, <2>6, Zenon DEF IInv
<1>3. QED
  BY <1>1, <1>2, Zenon

\* What an event may do to the table before it calls schedule(): change some
\* partitions and the current slot, empty none, and leave the idle task alone.
Prepared(s) ==
    /\ s \in BitMapScheduler
    /\ s.current = sched.current /\ s.remaining = sched.remaining
    /\ \A i \in Slot : \/ s.task_table[i] = sched.task_table[i]
                       \/ /\ (i \in Partitions \/ i = sched.current) /\ i # IDLE
                          /\ s.task_table[i].kind # "None"
    /\ \A y \in Partitions : StaysReady(y) => s.task_table[y].kind = "Ready"

\* Every event either changes one partition's state, or prepares the table and
\* calls schedule().
LEMMA StepForms ==
    ASSUME sched \in BitMapScheduler, [Next]_vars
    PROVE  \/ UNCHANGED vars
           \/ \E i \in Partitions : Assign(i, Ready) \/ Assign(i, Terminated)
           \/ \E s, t : t \in BOOLEAN /\ Prepared(s) /\ Reschedule(s, t)
<1>1. sched.current \in Slot /\ sched.task_table \in [Slot -> TaskState]
  BY Zenon DEF BitMapScheduler
<1>2. CASE UNCHANGED vars
  BY <1>2, Zenon
<1>3. CASE Tick
  <2>1. PICK due \in SUBSET Partitions :
           Reschedule([sched EXCEPT !.task_table =
                          [i \in Slot |-> IF i \in due THEN Ready ELSE sched.task_table[i]]],
                      TRUE)
    BY <1>3, Zenon DEF Tick
  <2>2. PICK s : s = [sched EXCEPT !.task_table =
                         [i \in Slot |-> IF i \in due THEN Ready ELSE sched.task_table[i]]]
    BY Zenon
  <2>3. /\ s \in BitMapScheduler /\ s.current = sched.current /\ s.remaining = sched.remaining
        /\ \A i \in Slot : s.task_table[i] = IF i \in due THEN Ready ELSE sched.task_table[i]
    BY <1>1, <2>2, SlotFacts, Zenon DEF BitMapScheduler
  <2>4. Prepared(s)
    BY <2>3, TaskFacts DEF Prepared, StaysReady, KindOf, Ready, State
  <2>5. Reschedule(s, TRUE)
    BY <2>1, <2>2, Zenon
  <2>6. QED
    BY <2>4, <2>5, Zenon
<1>4. CASE Yield
  <2>1. Prepared(sched)
    BY Zenon DEF Prepared, StaysReady, KindOf
  <2>2. QED
    BY <1>4, <2>1, Zenon DEF Yield
<1>5. ASSUME NEW st \in TaskState, st.kind \notin {"Ready", "Running", "None"},
             sched.current # IDLE,
             Reschedule([sched EXCEPT !.task_table[sched.current] = st], FALSE)
      PROVE  \E s, t : t \in BOOLEAN /\ Prepared(s) /\ Reschedule(s, t)
  <2>1. PICK s : s = [sched EXCEPT !.task_table[sched.current] = st]
    BY Zenon
  <2>2. /\ s \in BitMapScheduler /\ s.current = sched.current /\ s.remaining = sched.remaining
        /\ \A i \in Slot : s.task_table[i] = IF i = sched.current THEN st
                                             ELSE sched.task_table[i]
    BY <1>1, <2>1, Zenon DEF BitMapScheduler
  <2>3. Reschedule(s, FALSE)
    BY <1>5, <2>1, Zenon
  <2>4. \A y \in Partitions : StaysReady(y) => s.task_table[y].kind = "Ready"
    <3> SUFFICES ASSUME NEW y \in Partitions, StaysReady(y), y = sched.current
                 PROVE  FALSE
      BY <2>2, TaskFacts, Zenon DEF StaysReady, KindOf
    <3>1. s.task_table[y].kind \notin {"Ready", "Running"}
      BY <1>5, <2>2, TaskFacts, Zenon
    <3>2. sched'.task_table[y].kind # "Ready"
      <4>1. sched' = schedule(s, FALSE) /\ y \in Slot
        BY <2>3, TaskFacts, Zenon DEF Reschedule
      <4>2. CASE Triggered(s, FALSE) /\ Found(s)
        <5>1. /\ sched'.task_table[sched'.current] = Running
              /\ y # sched'.current => sched'.task_table[y] =
                    IF y = s.current /\ s.task_table[y].kind = "Running"
                    THEN Ready ELSE s.task_table[y]
          BY <2>2, <4>1, <4>2, ScheduleSwaps, ZenonT(60)
        <5>2. CASE y = sched'.current
          BY <5>1, <5>2 DEF Running, State
        <5>3. CASE y # sched'.current
          BY <3>1, <5>1, <5>3, Zenon
        <5>4. QED
          BY <5>2, <5>3, Zenon
      <4>3. CASE ~(Triggered(s, FALSE) /\ Found(s))
        BY <2>2, <3>1, <4>1, <4>3, ScheduleKeeps, Zenon
      <4>4. QED
        BY <4>2, <4>3, Zenon
    <3>3. QED
      BY <3>2, Zenon DEF StaysReady
  <2>5. Prepared(s)
    BY <1>5, <2>2, <2>4, Zenon DEF Prepared
  <2>6. QED
    BY <2>3, <2>5, Zenon
<1>6. CASE Block
  <2>1. PICK st \in TaskState : st = State("Blocked", 0) /\ st.kind = "Blocked"
    <3>1. LET st == State("Blocked", 0) IN st \in TaskState /\ st.kind = "Blocked"
      BY Zenon DEF State, TaskState, Kind
    <3>2. QED
      BY <3>1, Zenon
  <2>2. QED
    BY <1>5, <1>6, <2>1, Zenon DEF Block
<1>7. CASE Exit
  <2>1. PICK st \in TaskState : st = Terminated /\ st.kind = "Terminated"
    BY SlotFacts, Zenon DEF Terminated, State
  <2>2. QED
    BY <1>5, <1>7, <2>1, Zenon DEF Exit
<1>8. ASSUME NEW i \in Partitions, Terminate(i) \/ Wake(i) \/ Restart(i)
      PROVE  Assign(i, Ready) \/ Assign(i, Terminated)
  BY <1>8, Zenon DEF Terminate, Wake, Restart
<1>9. QED
  BY <1>2, <1>3, <1>4, <1>6, <1>7, <1>8, Zenon DEF Next

\* Every event of the kernel keeps the account.
LEMMA BypassStep ==
    ASSUME IInv, [Next]_vars
    PROVE  IInv'
<1>1. CASE UNCHANGED vars
  BY <1>1, Zenon DEF vars, IInv, Passed, KindOf
<1>2. CASE \E i \in Partitions : Assign(i, Ready) \/ Assign(i, Terminated)
  BY <1>2, SlotFacts, AssignStep, Zenon
<1>3. ASSUME NEW s, NEW t \in BOOLEAN, Prepared(s), Reschedule(s, t) PROVE IInv'
  BY <1>3, RescheduleStep, Zenon DEF Prepared
<1>4. QED
  BY <1>1, <1>2, <1>3, StepForms, Zenon DEF IInv

\* start_first_task leaves one registered task Running, with a whole slice, and
\* the others Ready.
LEMMA InitFacts ==
    ASSUME Init
    PROVE  /\ sched \in BitMapScheduler /\ sched.current \in Tasks /\ sched.remaining = MIF
           /\ \A i \in Slot : sched.task_table[i] = IF i = sched.current THEN Running
                                                   ELSE IF i \in Tasks THEN Ready ELSE NoTask
           /\ passes \in [Partitions -> [Tasks -> 0 .. 1]] /\ Passed
<1>1. PICK R : R = Registered(Tasks)
  BY Zenon
<1>2. /\ R \in BitMapScheduler /\ R.task_table[IDLE] = Ready /\ IDLE \in Slot
      /\ \A i \in Slot : R.task_table[i] = IF i \in Tasks THEN Ready ELSE NoTask
  BY <1>1, TasksAssumption, SchedulerAssumption, SlotFacts DEF Registered, BitMapScheduler
<1>3. Ready.kind = "Ready" /\ NoTask.kind = "None"
  BY Zenon DEF Ready, NoTask, State
<1>4. PICK c \in Slot : c = FirstReady(R) /\ R.task_table[c].kind = "Ready"
  BY <1>2, <1>3, FirstReadyFacts, Zenon
<1>5. sched = [task_table |-> [R.task_table EXCEPT ![c] = Running], current |-> c, remaining |-> MIF]
  BY <1>1, <1>4, Zenon DEF Init, start_first_task
<1>6. /\ sched \in BitMapScheduler /\ sched.current = c /\ sched.remaining = MIF
      /\ \A i \in Slot : sched.task_table[i] = IF i = c THEN Running ELSE R.task_table[i]
  BY <1>2, <1>5, SlotFacts, SchedulerAssumption DEF BitMapScheduler
<1>7. c \in Tasks
  BY <1>2, <1>3, <1>4, Zenon
<1>8. passes \in [Partitions -> [Tasks -> 0 .. 1]] /\ Passed
  BY DEF Init, Passed
<1>9. QED
  BY <1>2, <1>6, <1>7, <1>8, Zenon

\* For any tasks and any mix of ticks, yields, blocks, wake-ups, terminations
\* and restarts: while a partition stays Ready, schedule() dispatches no other
\* slot twice.
THEOREM NoSecondBypass == Spec => []BoundedBypass
<1>1. Init => IInv
  BY InitFacts, Zenon DEF IInv
<1>2. IInv /\ [Next]_vars => IInv'
  BY BypassStep, Zenon
<1>3. IInv => BoundedBypass
  BY DEF IInv, BoundedBypass
<1>4. QED
  BY <1>1, <1>2, <1>3, PTL DEF Spec

-----------------------------------------------------------------------------
(* Progress                                                                 *)

\* The idle task is Running when it is current and Ready otherwise.
IdleInv ==
    /\ sched \in BitMapScheduler
    /\ sched.task_table[IDLE].kind = IF sched.current = IDLE THEN "Running" ELSE "Ready"

\* What a step must do to make progress.
Progress ==
    sched'.current = IDLE /\ sched.current # IDLE =>
        \A i \in Partitions : sched'.task_table[i].kind = "Ready" => i = sched.current

\* A step that ends with schedule(), on a table that agrees on the idle task.
LEMMA RescheduleProgress ==
    ASSUME IdleInv, NEW s \in BitMapScheduler, NEW t \in BOOLEAN,
           sched' = schedule(s, t), s.current = sched.current,
           s.task_table[IDLE] = sched.task_table[IDLE]
    PROVE  IdleInv' /\ Progress /\ (~t => CurrentRunnable(sched'))
<1>1. IDLE \in Slot /\ IDLE \notin Partitions /\ Partitions \subseteq Slot
  BY TaskFacts, SlotFacts, Zenon
<1>2. CASE ~(Triggered(s, t) /\ Found(s))
  <2>1. /\ sched' \in BitMapScheduler /\ sched'.current = sched.current
        /\ sched'.task_table = s.task_table
    BY <1>2, ScheduleKeeps, Zenon
  <2>2. IdleInv' /\ Progress
    BY <2>1, Zenon DEF IdleInv, Progress
  <2>3. ASSUME ~t PROVE sched.current = IDLE /\ sched.task_table[IDLE].kind = "Running"
    BY <1>2, <2>3, Zenon DEF Triggered, Found, IdleInv
  <2>4. QED
    BY <2>1, <2>2, <2>3, Zenon DEF CurrentRunnable
<1>3. CASE Triggered(s, t) /\ Found(s)
  <2>1. PICK n \in Slot : n = NextPartition(s)
    BY <1>3, NextPartitionFacts, Zenon
  <2>2. /\ sched' \in BitMapScheduler /\ sched'.current = n
        /\ sched'.task_table[n] = Running
        /\ \A i \in Slot \ {n} : sched'.task_table[i] =
              IF i = s.current /\ s.task_table[i].kind = "Running"
              THEN Ready ELSE s.task_table[i]
    BY <1>3, <2>1, ScheduleSwaps
  <2>3. Running.kind = "Running" /\ Ready.kind = "Ready"
    BY Zenon DEF Running, Ready, State
  <2>4. IdleInv'
    BY <1>1, <2>2, <2>3 DEF IdleInv
  <2>5. Progress
    <3> SUFFICES ASSUME n = IDLE, NEW i \in Partitions, i # sched.current,
                        sched'.task_table[i].kind = "Ready"
                 PROVE  FALSE
      BY <2>2, Zenon DEF Progress
    <3>1. i \in ReadyPartitions(s)
      BY <1>1, <2>2, Zenon DEF ReadyPartitions
    <3>2. QED
      BY <1>3, <2>1, <3>1, NextPartitionFacts, Zenon
  <2>6. QED
    BY <2>2, <2>3, <2>4, <2>5, Zenon DEF CurrentRunnable
<1>4. QED
  BY <1>2, <1>3, Zenon

\* Every event keeps the idle task available and makes progress.
LEMMA ProgressOfStep ==
    ASSUME IdleInv, [Next]_vars
    PROVE  /\ IdleInv'
           /\ Progress
           /\ Yield \/ Block \/ Exit => CurrentRunnable(sched')
<1>1. /\ sched \in BitMapScheduler /\ sched.current \in Slot /\ IDLE \in Slot
      /\ sched.task_table \in [Slot -> TaskState]
      /\ IDLE \notin Partitions /\ Partitions \subseteq Slot
  BY TaskFacts, SlotFacts, Zenon DEF IdleInv, BitMapScheduler
<1>2. ASSUME NEW st \in TaskState, sched.current # IDLE,
             Reschedule([sched EXCEPT !.task_table[sched.current] = st], FALSE)
      PROVE  IdleInv' /\ Progress /\ CurrentRunnable(sched')
  <2>1. PICK s : s = [sched EXCEPT !.task_table[sched.current] = st]
    BY Zenon
  <2>2. /\ s \in BitMapScheduler /\ s.current = sched.current
        /\ s.task_table[IDLE] = sched.task_table[IDLE]
    BY <1>1, <1>2, <2>1, Zenon DEF BitMapScheduler
  <2>3. sched' = schedule(s, FALSE)
    BY <1>2, <2>1, Zenon DEF Reschedule
  <2>4. QED
    BY <2>2, <2>3, RescheduleProgress, Zenon
<1>3. ASSUME Yield \/ Block \/ Exit
      PROVE  IdleInv' /\ Progress /\ CurrentRunnable(sched')
  <2>1. CASE Yield
    BY <1>1, <2>1, RescheduleProgress, Zenon DEF Yield, Reschedule
  <2>2. CASE Block
    <3>1. State("Blocked", 0) \in TaskState
      BY Zenon DEF State, TaskState, Kind
    <3>2. QED
      BY <1>2, <2>2, <3>1, Zenon DEF Block
  <2>3. CASE Exit
    BY <1>2, <2>3, SlotFacts, Zenon DEF Exit
  <2>4. QED
    BY <1>3, <2>1, <2>2, <2>3, Zenon
<1>4. CASE Tick
  <2>1. PICK due \in SUBSET Partitions :
           sched' = schedule([sched EXCEPT !.task_table =
                       [i \in Slot |-> IF i \in due THEN Ready ELSE sched.task_table[i]]],
                       TRUE)
    BY <1>4, Zenon DEF Tick, Reschedule
  <2>2. PICK s : s = [sched EXCEPT !.task_table =
                         [i \in Slot |-> IF i \in due THEN Ready ELSE sched.task_table[i]]]
    BY Zenon
  <2>3. /\ s \in BitMapScheduler /\ s.current = sched.current
        /\ s.task_table[IDLE] = sched.task_table[IDLE]
    BY <1>1, <2>2, SlotFacts, Zenon DEF BitMapScheduler
  <2>4. IdleInv' /\ Progress
    BY <2>1, <2>2, <2>3, RescheduleProgress, Zenon
  <2>5. QED
    BY <1>3, <2>4, Zenon
<1>5. ASSUME NEW i \in Partitions, NEW st \in TaskState, Assign(i, st)
      PROVE  IdleInv' /\ Progress
  BY <1>1, <1>5, Zenon DEF Assign, IdleInv, Progress, BitMapScheduler
<1>6. ASSUME NEW i \in Partitions, Terminate(i) \/ Wake(i) \/ Restart(i)
      PROVE  IdleInv' /\ Progress
  <2>1. Assign(i, Terminated) \/ Assign(i, Ready)
    BY <1>6, Zenon DEF Terminate, Wake, Restart
  <2>2. QED
    BY <1>5, <2>1, SlotFacts, Zenon
<1>7. CASE UNCHANGED vars
  BY <1>3, <1>7, Zenon DEF vars, IdleInv, Progress
<1>8. IdleInv' /\ Progress
  BY <1>3, <1>4, <1>6, <1>7, Zenon DEF Next
<1>9. QED
  BY <1>3, <1>8, Zenon

\* The progress assertion of the Kani harness of bitmap.rs, for any number of
\* slots and any tasks, after any history: the idle task gets the hart only when
\* no partition is Ready, and a forced reschedule leaves a runnable task current.
THEOREM ScheduleMakesProgress == Spec => ProgressStep
<1>1. Init => IdleInv
  BY InitFacts, TasksAssumption, SlotFacts DEF IdleInv, Running, Ready, State
<1>2. IdleInv /\ [Next]_vars => IdleInv'
  BY ProgressOfStep, Zenon
<1>3. IdleInv /\ [Next]_vars =>
        [/\ sched'.current = IDLE /\ sched.current # IDLE
              => \A i \in Partitions : sched'.task_table[i].kind = "Ready" =>
                     i = sched.current
         /\ (Yield \/ Block \/ Exit) => CurrentRunnable(sched')]_vars
  BY ProgressOfStep, Zenon DEF Progress
<1>4. QED
  BY <1>1, <1>2, <1>3, PTL DEF Spec, ProgressStep

-----------------------------------------------------------------------------
(* The wait of a Ready partition                                            *)

\* The slots dispatched since y became Ready, and the ticks of a slice for each
\* of them and for the slot that was current then.
Passers(y) == {x \in Tasks : passes[y][x] = 1}
Slices(P) == MIF * (Cardinality(P) + 1)

\* WaitBounded counts ticks, and only the slice explains them: what y has waited
\* and what is left of the current slice fit into the slices of its passers. The
\* idle slot is none of these, since y itself is Ready.
WaitInv ==
    /\ sched.remaining \in 1 .. MIF
    /\ sched.current \in Tasks
    /\ \A i \in Slot : KindOf(i) = "None" <=> i \notin Tasks
    /\ waited \in [Partitions -> Nat]
    /\ \A y \in Partitions :
          /\ Passers(y) \subseteq Tasks \ {y, IDLE}
          /\ KindOf(y) = "Ready" => waited[y] + sched.remaining <= Slices(Passers(y))
          /\ KindOf(y) # "Ready" => waited[y] = 0

\* The slices of passers that exclude y and the idle slot stay within the bound,
\* and one more passer is one more slice.
LEMMA SlicesFacts ==
    ASSUME NEW y \in Partitions, NEW P \in SUBSET (Tasks \ {y, IDLE})
    PROVE  /\ Slices(P) \in Nat /\ MIF <= Slices(P)
           /\ WaitBound \in Nat /\ Slices(P) <= WaitBound
           /\ \A n \in Tasks \ P : Slices(P \cup {n}) = Slices(P) + MIF
<1>1. IsFiniteSet(Tasks) /\ y \in Tasks /\ IDLE \in Tasks /\ y # IDLE
  <2>1. IsFiniteSet(Slot)
    BY FS_Interval, SchedulerAssumption DEF Slot
  <2>2. QED
    BY <2>1, FS_Subset, TaskFacts, TasksAssumption, Zenon
<1>2. /\ IsFiniteSet(Tasks \ {y})
      /\ Cardinality(Tasks \ {y}) = Cardinality(Tasks) - 1
  BY <1>1, FS_RemoveElement, Zenon
<1>3. /\ IsFiniteSet((Tasks \ {y}) \ {IDLE})
      /\ Cardinality((Tasks \ {y}) \ {IDLE}) = Cardinality(Tasks \ {y}) - 1
  BY <1>1, <1>2, FS_RemoveElement, Zenon
<1>4. IsFiniteSet(P) /\ Cardinality(P) <= Cardinality((Tasks \ {y}) \ {IDLE})
  <2>1. P \in SUBSET ((Tasks \ {y}) \ {IDLE})
    BY Zenon
  <2>2. QED
    BY <1>3, <2>1, FS_Subset, Zenon
<1>5. Cardinality(P) \in Nat /\ Cardinality(Tasks) \in Nat
  BY <1>1, <1>4, FS_CardinalityType, Zenon
<1>6. \A n \in Tasks \ P : Cardinality(P \cup {n}) = Cardinality(P) + 1
  BY <1>4, FS_AddElement, Zenon
<1>7. \A k \in Nat : MIF * k \in Nat /\ MIF * (k + 1) = MIF * k + MIF
  BY SchedulerAssumption
<1>8. \A k, l \in Nat : k <= l => MIF * k <= MIF * l
  BY SchedulerAssumption
<1>9. PICK k \in Nat : k = Cardinality(P)
  BY <1>5, Zenon
<1>10. PICK l \in Nat : l = Cardinality(Tasks) - 1 /\ k + 1 <= l
  BY <1>2, <1>3, <1>4, <1>5, <1>9
<1>11. Slices(P) = MIF * (k + 1) /\ WaitBound = MIF * l
  BY <1>9, <1>10, Zenon DEF Slices, WaitBound
<1>12. \A n \in Tasks \ P : Slices(P \cup {n}) = MIF * ((k + 1) + 1)
  BY <1>6, <1>9, Zenon DEF Slices
<1>13. MIF * (k + 1) \in Nat /\ MIF * ((k + 1) + 1) = MIF * (k + 1) + MIF
  BY <1>7
<1>14. MIF <= MIF * (k + 1)
  BY <1>7, SchedulerAssumption
<1>15. MIF * (k + 1) <= MIF * l /\ MIF * l \in Nat
  BY <1>7, <1>8, <1>10
<1>16. QED
  BY <1>11, <1>12, <1>13, <1>14, <1>15, Zenon

\* What schedule() does to the slice: a dispatch starts a whole one; otherwise a
\* task that could be dispatched waits for the tick to be charged, and the slice
\* is not used up.
LEMMA SliceStep ==
    ASSUME NEW s \in BitMapScheduler, NEW t \in BOOLEAN, s.remaining \in 1 .. MIF
    PROVE  LET r == schedule(s, t) IN
           /\ Triggered(s, t) /\ Found(s) => r.remaining = MIF
           /\ ~Triggered(s, t) => /\ t /\ r.remaining = s.remaining - 1
                                  /\ r.remaining \in 1 .. MIF
           /\ ~Found(s) /\ CurrentRunnable(s) => r.remaining \in 1 .. MIF
<1>1. Charged(s, t) = IF t THEN s.remaining - 1 ELSE s.remaining
  BY DEF Charged
<1>2. ASSUME ~(Triggered(s, t) /\ Found(s))
      PROVE  schedule(s, t).remaining =
                IF Triggered(s, t) /\ CurrentRunnable(s) /\ Charged(s, t) = 0
                THEN MIF ELSE Charged(s, t)
  BY <1>2, Zenon DEF schedule, BitMapScheduler
<1>3. Triggered(s, t) /\ Found(s) => schedule(s, t).remaining = MIF
  BY Zenon DEF schedule, Swap
<1>4. ASSUME ~Triggered(s, t)
      PROVE  t /\ Charged(s, t) = s.remaining - 1 /\ Charged(s, t) # 0
  BY <1>1, <1>4, Zenon DEF Triggered
<1>5. ~Triggered(s, t) => /\ t /\ schedule(s, t).remaining = s.remaining - 1
                          /\ schedule(s, t).remaining \in 1 .. MIF
  <2> SUFFICES ASSUME ~Triggered(s, t)
               PROVE  /\ t /\ schedule(s, t).remaining = s.remaining - 1
                      /\ schedule(s, t).remaining \in 1 .. MIF
    BY Zenon
  <2>1. t
    BY <1>4, Zenon
  <2>2. schedule(s, t).remaining = Charged(s, t)
    BY <1>2, Zenon
  <2>3. Charged(s, t) = s.remaining - 1 /\ Charged(s, t) # 0
    BY <1>4, Zenon
  <2>4. s.remaining - 1 # 0 => s.remaining - 1 \in 1 .. MIF
    BY SchedulerAssumption
  <2>5. schedule(s, t).remaining = s.remaining - 1 /\ schedule(s, t).remaining \in 1 .. MIF
    BY <2>2, <2>3, <2>4, Zenon
  <2>6. QED
    BY <2>1, <2>5, Zenon
<1>6. ASSUME ~Found(s), CurrentRunnable(s) PROVE schedule(s, t).remaining \in 1 .. MIF
  <2>1. Charged(s, t) = 0 => Triggered(s, t)
    BY Zenon DEF Triggered
  <2>2. Charged(s, t) \in 0 .. MIF
    BY <1>1, SchedulerAssumption
  <2>3. QED
    BY <1>2, <1>6, <2>1, <2>2, SchedulerAssumption
<1>7. QED
  BY <1>3, <1>5, <1>6, Zenon

\* A step that changes the state of one partition, without schedule().
LEMMA AssignWait ==
    ASSUME IInv, WaitInv, NEW i \in Partitions, NEW st \in {Ready, Terminated}, Assign(i, st)
    PROVE  WaitInv'
<1>1. /\ sched \in BitMapScheduler /\ i \in Slot /\ i \in Tasks /\ Partitions \subseteq Slot
      /\ st.kind # "None"
  BY TaskFacts DEF IInv, Ready, Terminated, State
<1>2. /\ sched'.remaining = sched.remaining /\ sched'.current = sched.current
      /\ \A j \in Slot : sched'.task_table[j] = IF j = i THEN st ELSE sched.task_table[j]
  BY <1>1, Zenon DEF Assign, BitMapScheduler
<1>3. \A j \in Slot : sched'.task_table[j].kind = "None" <=> j \notin Tasks
  BY <1>1, <1>2, Zenon DEF WaitInv, KindOf
<1>4. waited' \in [Partitions -> Nat]
  BY Zenon DEF Assign, WaitInv
<1>5. ASSUME NEW y \in Partitions
      PROVE  /\ Passers(y)' \subseteq Tasks \ {y, IDLE}
             /\ KindOf(y)' = "Ready" => waited'[y] + sched'.remaining <= Slices(Passers(y)')
             /\ KindOf(y)' # "Ready" => waited'[y] = 0
  <2>1. CASE StaysReady(y)
    <3>1. waited'[y] = waited[y] /\ passes'[y] = passes[y] /\ KindOf(y)' = "Ready"
      BY <2>1, Zenon DEF Assign, StaysReady, KindOf
    <3>2. Passers(y)' = Passers(y) /\ KindOf(y) = "Ready"
      BY <2>1, <3>1, Zenon DEF Passers, StaysReady
    <3>3. QED
      BY <1>2, <3>1, <3>2 DEF WaitInv
  <2>2. CASE ~StaysReady(y)
    <3>1. waited'[y] = 0 /\ passes'[y] = [x \in Tasks |-> 0]
      BY <2>2, Zenon DEF Assign
    <3>2. Passers(y)' = {}
      BY <3>1 DEF Passers
    <3>3. MIF <= Slices({}) /\ Slices({}) \in Nat
      BY SlicesFacts, Zenon
    <3>4. sched'.remaining \in 1 .. MIF
      BY <1>2, Zenon DEF WaitInv
    <3>5. 0 + sched'.remaining <= Slices({})
      BY <3>3, <3>4, SchedulerAssumption
    <3>6. QED
      BY <3>1, <3>2, <3>5, Zenon
  <2>3. QED
    BY <2>1, <2>2, Zenon
<1>6. QED
  BY <1>2, <1>3, <1>4, <1>5, Zenon DEF WaitInv, KindOf

\* A step that ends with schedule(): y is charged a tick at most, and either the
\* slice is charged with it or a new passer brings a slice of its own.
LEMMA RescheduleWait ==
    ASSUME IInv, IdleInv, WaitInv, NEW s, NEW t \in BOOLEAN, Prepared(s), Reschedule(s, t)
    PROVE  WaitInv'
<1>1. /\ s \in BitMapScheduler /\ s.current = sched.current /\ s.remaining \in 1 .. MIF
      /\ s.remaining = sched.remaining
      /\ s.current \in Tasks /\ s.current \in Slot /\ sched' = schedule(s, t)
      /\ Partitions \subseteq Slot /\ Tasks \subseteq Slot /\ IDLE \in Slot /\ IDLE \notin Partitions
  BY TaskFacts, SlotFacts, Zenon DEF Prepared, WaitInv, Reschedule
<1>2. /\ \A i \in Slot : s.task_table[i].kind = "None" <=> i \notin Tasks
      /\ s.task_table[IDLE] = sched.task_table[IDLE]
  BY <1>1, TaskFacts DEF Prepared, WaitInv, KindOf
<1>3. ASSUME NEW y \in Partitions, StaysReady(y)
      PROVE  y \in ReadyPartitions(s) /\ Found(s)
  BY <1>1, <1>3, Zenon DEF Prepared, ReadyPartitions, Found
<1>4. ASSUME NEW y \in Partitions, ~StaysReady(y)
      PROVE  waited'[y] = 0 /\ Passers(y)' = {} /\ MIF <= Slices({}) /\ Slices({}) \in Nat
  <2>1. waited'[y] = 0 /\ \A x \in Tasks : passes'[y][x] = 0
    BY <1>4, Zenon DEF Reschedule
  <2>2. MIF <= Slices({}) /\ Slices({}) \in Nat
    BY SlicesFacts, Zenon
  <2>3. QED
    BY <2>1, <2>2 DEF Passers
<1>5. ASSUME NEW y \in Partitions, StaysReady(y)
      PROVE  /\ KindOf(y) = "Ready" /\ waited[y] \in Nat /\ Passers(y) \subseteq Tasks \ {y, IDLE}
             /\ waited[y] + sched.remaining <= Slices(Passers(y))
             /\ waited'[y] = Capped(waited[y] + (IF t THEN 1 ELSE 0), WaitBound)
             /\ WaitBound \in Nat
             /\ \A P \in SUBSET (Tasks \ {y, IDLE}) :
                   Slices(P) \in Nat /\ Slices(P) <= WaitBound
  <2>1. waited'[y] = Capped(waited[y] + (IF t THEN 1 ELSE 0), WaitBound)
    BY <1>5, Zenon DEF Reschedule
  <2>2. QED
    BY <1>5, <2>1, SlicesFacts, Zenon DEF WaitInv, StaysReady
<1>6. CASE ~(Triggered(s, t) /\ Found(s))
  <2>1. /\ sched'.task_table = s.task_table /\ sched'.current = s.current /\ ~Switches(s, t)
    BY <1>1, <1>6, ScheduleKeeps, Zenon DEF Switches
  <2>2. sched'.remaining \in 1 .. MIF
    <3>1. CASE Found(s)
      BY <1>1, <1>6, <3>1, SliceStep, Zenon
    <3>2. CASE ~Found(s)
      <4>1. CurrentRunnable(s)
        BY <1>1, <1>2, <3>2, Zenon DEF Found, IdleInv, CurrentRunnable
      <4>2. QED
        BY <1>1, <3>2, <4>1, SliceStep, Zenon
    <3>3. QED
      BY <3>1, <3>2, Zenon
  <2>3. ASSUME NEW y \in Partitions, StaysReady(y)
        PROVE  /\ Passers(y)' = Passers(y) /\ waited'[y] \in Nat
               /\ waited'[y] + sched'.remaining <= Slices(Passers(y))
    <3>1. t /\ sched'.remaining = sched.remaining - 1
      <4>1. ~Triggered(s, t)
        BY <1>3, <1>6, <2>3, Zenon
      <4>2. t /\ schedule(s, t).remaining = s.remaining - 1
        BY <1>1, <4>1, SliceStep, Zenon
      <4>3. QED
        BY <1>1, <4>2, Zenon
    <3>2. \A x \in Tasks : passes'[y][x] = passes[y][x]
      BY <2>1, <2>3, Zenon DEF Reschedule
    <3>3. waited'[y] = Capped(waited[y] + 1, WaitBound)
      BY <1>5, <2>3, <3>1, Zenon
    <3>4. waited[y] + 1 <= WaitBound /\ waited[y] + 1 + sched'.remaining <= Slices(Passers(y))
      <4>1. /\ Slices(Passers(y)) \in Nat /\ Slices(Passers(y)) <= WaitBound /\ WaitBound \in Nat
            /\ waited[y] \in Nat /\ waited[y] + sched.remaining <= Slices(Passers(y))
        BY <1>5, <2>3, Zenon
      <4>2. sched.remaining \in Nat /\ sched.remaining >= 1
        BY <1>1, SchedulerAssumption
      <4>3. sched'.remaining = sched.remaining - 1
        BY <3>1, Zenon
      <4>4. QED
        BY <4>1, <4>2, <4>3
    <3>5. waited'[y] = waited[y] + 1
      BY <1>5, <2>3, <3>3, <3>4 DEF Capped
    <3>6. QED
      BY <1>5, <2>3, <3>2, <3>4, <3>5 DEF Passers
  <2>4. waited' \in [Partitions -> Nat]
    <3>1. \A y \in Partitions : waited'[y] \in Nat
      BY <1>4, <2>3
    <3>2. QED
      BY <3>1, Zenon DEF Reschedule
  <2>5. ASSUME NEW y \in Partitions
        PROVE  /\ Passers(y)' \subseteq Tasks \ {y, IDLE}
               /\ KindOf(y)' = "Ready" => waited'[y] + sched'.remaining <= Slices(Passers(y)')
               /\ KindOf(y)' # "Ready" => waited'[y] = 0
    <3>1. CASE StaysReady(y)
      BY <1>5, <2>3, <3>1, Zenon DEF StaysReady, KindOf
    <3>2. CASE ~StaysReady(y)
      <4>1. 0 + sched'.remaining <= Slices({})
        BY <1>4, <2>2, <3>2, SchedulerAssumption
      <4>2. QED
        BY <1>4, <3>2, <4>1, Zenon
    <3>3. QED
      BY <3>1, <3>2, Zenon
  <2>6. QED
    BY <1>1, <1>2, <2>1, <2>2, <2>4, <2>5, Zenon DEF WaitInv, KindOf
<1>7. CASE Triggered(s, t) /\ Found(s)
  <2>1. PICK n \in Slot : n = NextPartition(s)
    BY <1>1, <1>7, NextPartitionFacts, Zenon
  <2>2. /\ sched'.current = n /\ sched'.task_table[n] = Running
        /\ \A i \in Slot \ {n} : sched'.task_table[i] =
              IF i = s.current /\ s.task_table[i].kind = "Running"
              THEN Ready ELSE s.task_table[i]
        /\ sched'.remaining = MIF /\ Switches(s, t)
    BY <1>1, <1>2, <1>7, <2>1, ScheduleSwaps, SliceStep DEF Switches
  <2>3. n \in Tasks
    BY <1>1, <1>2, <1>7, <2>1, NextPartitionFacts, Zenon
  <2>4. \A i \in Slot : sched'.task_table[i].kind = "None" <=> i \notin Tasks
    BY <1>1, <1>2, <2>2, <2>3 DEF Running, Ready, State
  <2>5. ASSUME NEW y \in Partitions, StaysReady(y)
        PROVE  /\ Passers(y)' = Passers(y) \cup {n}
               /\ Passers(y)' \subseteq Tasks \ {y, IDLE}
               /\ waited'[y] \in Nat
               /\ waited'[y] + MIF <= Slices(Passers(y)')
    <3>1. y \in ReadyPartitions(s) /\ y \in Slot
      BY <1>1, <1>3, <2>5, Zenon
    <3>2. n # y /\ n # IDLE
      <4>1. n # y
        BY <2>2, <2>5 DEF StaysReady, Running, State
      <4>2. n # IDLE
        BY <1>1, <1>7, <2>1, <3>1, NextPartitionFacts, Zenon
      <4>3. QED
        BY <4>1, <4>2, Zenon
    <3>3. passes[y][n] = 0
      <4>1. Ahead(s.current, n) <= Ahead(s.current, y)
        BY <1>1, <1>7, <2>1, <3>1, NextPartitionFacts, Zenon
      <4>2. Ahead(n, y) < Ahead(s.current, y)
        BY <1>1, <3>1, <3>2, <4>1, Nearer, Zenon
      <4>3. Ahead(n, y) \in Nat /\ Ahead(s.current, y) \in Nat
        BY <1>1, <3>1, SchedulerAssumption DEF Slot, Ahead
      <4>4. passes[y][n] # 1
        BY <1>1, <2>3, <2>5, <4>2, <4>3 DEF IInv, Passed, StaysReady
      <4>5. QED
        BY <2>3, <4>4 DEF IInv
    <3>4. \A x \in Tasks : passes'[y][x] = IF x = n THEN 1 ELSE passes[y][x]
      <4>1. \A x \in Tasks : passes'[y][x] =
               IF x = n THEN Capped(passes[y][x] + 1, 1) ELSE passes[y][x]
        BY <2>2, <2>5, Zenon DEF Reschedule
      <4>2. QED
        BY <3>3, <4>1 DEF Capped
    <3>5. Passers(y)' = Passers(y) \cup {n} /\ n \notin Passers(y)
      BY <2>3, <3>3, <3>4 DEF Passers
    <3>6. Passers(y)' \subseteq Tasks \ {y, IDLE}
      BY <1>5, <2>3, <2>5, <3>2, <3>5, Zenon
    <3>7. /\ Slices(Passers(y)') = Slices(Passers(y)) + MIF
          /\ Slices(Passers(y)) \in Nat /\ Slices(Passers(y)') <= WaitBound
      BY <1>5, <2>3, <2>5, <3>5, <3>6, SlicesFacts, Zenon
    <3>8. waited[y] + 1 + MIF <= Slices(Passers(y)') /\ waited[y] + 1 <= WaitBound
      BY <1>1, <1>5, <2>5, <3>7, SchedulerAssumption
    <3>9. waited'[y] = waited[y] \/ waited'[y] = waited[y] + 1
      BY <1>5, <2>5, <3>8 DEF Capped
    <3>10. QED
      BY <1>5, <2>5, <3>5, <3>6, <3>7, <3>8, <3>9, SchedulerAssumption
  <2>6. waited' \in [Partitions -> Nat]
    <3>1. \A y \in Partitions : waited'[y] \in Nat
      BY <1>4, <2>5
    <3>2. QED
      BY <3>1, Zenon DEF Reschedule
  <2>7. ASSUME NEW y \in Partitions
        PROVE  /\ Passers(y)' \subseteq Tasks \ {y, IDLE}
               /\ KindOf(y)' = "Ready" => waited'[y] + sched'.remaining <= Slices(Passers(y)')
               /\ KindOf(y)' # "Ready" => waited'[y] = 0
    <3>1. CASE StaysReady(y)
      BY <2>2, <2>5, <3>1, Zenon DEF StaysReady, KindOf
    <3>2. CASE ~StaysReady(y)
      <4>1. 0 + MIF <= Slices({})
        BY <1>4, <3>2, SchedulerAssumption
      <4>2. QED
        BY <1>4, <2>2, <3>2, <4>1, Zenon
    <3>3. QED
      BY <3>1, <3>2, Zenon
  <2>8. MIF \in 1 .. MIF
    BY SchedulerAssumption
  <2>9. QED
    BY <2>2, <2>3, <2>4, <2>6, <2>7, <2>8, Zenon DEF WaitInv, KindOf
<1>8. QED
  BY <1>6, <1>7, Zenon

\* Every event keeps the account of the wait.
LEMMA WaitStep ==
    ASSUME IInv, IdleInv, WaitInv, [Next]_vars
    PROVE  WaitInv'
<1>1. CASE UNCHANGED vars
  BY <1>1, SMTT(30) DEF vars, WaitInv, KindOf, Passers
<1>2. CASE \E i \in Partitions : Assign(i, Ready) \/ Assign(i, Terminated)
  BY <1>2, AssignWait, Zenon
<1>3. ASSUME NEW s, NEW t \in BOOLEAN, Prepared(s), Reschedule(s, t) PROVE WaitInv'
  BY <1>3, RescheduleWait, Zenon
<1>4. QED
  BY <1>1, <1>2, <1>3, StepForms, Zenon DEF IInv

\* Nobody has waited when the first task starts, and it has a whole slice.
LEMMA InitWait == Init => IInv /\ IdleInv /\ WaitInv
<1> SUFFICES ASSUME Init PROVE IInv /\ IdleInv /\ WaitInv
  BY Zenon
<1>1. Running.kind = "Running" /\ Ready.kind = "Ready" /\ NoTask.kind = "None"
  BY Zenon DEF Running, Ready, NoTask, State
<1>2. IInv /\ IdleInv
  BY <1>1, InitFacts, TasksAssumption, SlotFacts, Zenon DEF IInv, IdleInv
<1>3. \A i \in Slot : KindOf(i) = "None" <=> i \notin Tasks
  BY <1>1, InitFacts, Zenon DEF KindOf
<1>4. ASSUME NEW y \in Partitions
      PROVE  Passers(y) = {} /\ waited[y] = 0 /\ 0 + MIF <= Slices({})
  <2>1. MIF <= Slices({}) /\ Slices({}) \in Nat
    BY SlicesFacts, Zenon
  <2>2. Passers(y) = {} /\ waited[y] = 0
    BY DEF Init, Passers
  <2>3. QED
    BY <2>1, <2>2, SchedulerAssumption
<1>5. waited \in [Partitions -> Nat] /\ MIF \in 1 .. MIF
  BY SchedulerAssumption DEF Init
<1>6. WaitInv
  BY <1>3, <1>4, <1>5, InitFacts, Zenon DEF WaitInv
<1>7. QED
  BY <1>2, <1>6, Zenon

\* The three invariants together are inductive.
LEMMA WaitInductive == Spec => [](IInv /\ WaitInv)
<1>1. IInv /\ IdleInv /\ WaitInv /\ [Next]_vars => (IInv /\ IdleInv /\ WaitInv)'
  BY BypassStep, ProgressOfStep, WaitStep, Zenon
<1>2. QED
  BY <1>1, InitWait, PTL DEF Spec

\* For any tasks, any slice and any mix of events: a partition that stays Ready
\* has the hart before one slice for each other registered slot has passed.
THEOREM ReadyWaitsBounded == Spec => []WaitBounded
<1>1. WaitInv => WaitBounded
  <2> SUFFICES ASSUME WaitInv, NEW y \in Partitions PROVE waited[y] < WaitBound
    BY Zenon DEF WaitBounded
  <2>1. /\ Slices(Passers(y)) \in Nat /\ MIF <= Slices(Passers(y))
        /\ WaitBound \in Nat /\ Slices(Passers(y)) <= WaitBound
    BY SlicesFacts, Zenon DEF WaitInv
  <2>2. waited[y] \in Nat /\ sched.remaining \in 1 .. MIF
    BY Zenon DEF WaitInv
  <2>3. CASE KindOf(y) = "Ready"
    BY <2>1, <2>2, <2>3, SchedulerAssumption DEF WaitInv
  <2>4. CASE KindOf(y) # "Ready"
    BY <2>1, <2>2, <2>4, SchedulerAssumption DEF WaitInv
  <2>5. QED
    BY <2>3, <2>4, Zenon
<1>2. QED
  BY <1>1, WaitInductive, PTL

\* The scheduler and the histories keep their types, so the caps of the
\* histories are never reached.
THEOREM TypeCorrect == Spec => []TypeOK
<1>1. IInv /\ WaitInv /\ WaitBounded => TypeOK
  <2> SUFFICES ASSUME IInv, WaitInv, WaitBounded PROVE TypeOK
    BY Zenon
  <2>1. \A y \in Partitions : waited[y] \in 0 .. WaitBound + 1
    <3> SUFFICES ASSUME NEW y \in Partitions PROVE waited[y] \in 0 .. WaitBound + 1
      BY Zenon
    <3>1. WaitBound \in Nat
      BY SlicesFacts, Zenon DEF WaitInv
    <3>2. QED
      BY <3>1 DEF WaitInv, WaitBounded
  <2>2. passes \in [Partitions -> [Tasks -> 0 .. 2]]
    BY DEF IInv
  <2>3. QED
    BY <2>1, <2>2, Zenon DEF TypeOK, IInv, WaitInv
<1>2. QED
  BY <1>1, WaitInductive, ReadyWaitsBounded, PTL

-----------------------------------------------------------------------------
(* The loop of schedule()                                                   *)

\* What the loop accepts, where it is d steps after slot x, and the steps among
\* the next n at which it would stop.
Accepts(i) == i # IDLE /\ KindOf(i) = "Ready"

Round(x, d) == IF x + d < MAX_PARTITIONS THEN x + d ELSE x + d - MAX_PARTITIONS

Stops(n, x) == {d \in 0 .. n - 1 : Accepts(Round(x, d))}

FirstStop(n, x) == CHOOSE d \in Stops(n, x) : \A e \in Stops(n, x) : d <= e

\* Where a loop of n steps from slot x ends, without recursion.
Ends(n, x) == IF Stops(n, x) = {} THEN MAX_PARTITIONS ELSE Round(x, FirstStop(n, x))

\* The first step is well defined, and the only one with its property.
LEMMA FirstStopFacts ==
    ASSUME NEW n \in Nat, NEW x \in Slot, Stops(n, x) # {}
    PROVE  /\ FirstStop(n, x) \in Stops(n, x)
           /\ \A e \in Stops(n, x) : FirstStop(n, x) <= e
           /\ \A d \in Stops(n, x) : (\A e \in Stops(n, x) : d <= e) => d = FirstStop(n, x)
<1>1. Stops(n, x) \subseteq Nat
  BY DEF Stops
<1>2. \E d \in Stops(n, x) : \A e \in Stops(n, x) : d <= e
  BY <1>1, LeastExists, Zenon
<1>3. /\ FirstStop(n, x) \in Stops(n, x)
      /\ \A e \in Stops(n, x) : FirstStop(n, x) <= e
  BY <1>2, Zenon DEF FirstStop
<1>4. QED
  BY <1>1, <1>3

\* The slots go round.
LEMMA RoundFacts ==
    ASSUME NEW x \in Slot
    PROVE  /\ (x + 1) % MAX_PARTITIONS = Round(x, 1)
           /\ Round(x, 0) = x
           /\ \A d \in 0 .. MAX_PARTITIONS : Round(x, d) \in Slot
           /\ \A d \in 0 .. MAX_PARTITIONS - 1 : Round(Round(x, 1), d) = Round(x, d + 1)
BY SchedulerAssumption DEF Slot, Round

\* The recursion of the loop holds of where it ends.
LEMMA EndsStep ==
    ASSUME NEW n \in 0 .. MAX_PARTITIONS, NEW x \in Slot
    PROVE  Ends(n, x) = IF n = 0 THEN MAX_PARTITIONS
                        ELSE IF Accepts(x) THEN x
                        ELSE Ends(n - 1, (x + 1) % MAX_PARTITIONS)
<1> DEFINE y == (x + 1) % MAX_PARTITIONS
<1>1. MAX_PARTITIONS \in Nat /\ n \in Nat
  BY SchedulerAssumption
<1>2. CASE n = 0
  BY <1>2 DEF Ends, Stops
<1>3. CASE n # 0 /\ Accepts(x)
  <2>1. 0 \in Stops(n, x) /\ \A e \in Stops(n, x) : 0 <= e
    BY <1>1, <1>3, RoundFacts DEF Stops
  <2>2. FirstStop(n, x) = 0
    BY <1>1, <2>1, FirstStopFacts, Zenon
  <2>3. QED
    BY <1>3, <2>1, <2>2, RoundFacts, Zenon DEF Ends
<1>4. CASE n # 0 /\ ~Accepts(x)
  <2>1. y \in Slot /\ y = Round(x, 1) /\ n - 1 \in Nat
    BY <1>1, <1>4, RoundFacts, SchedulerAssumption
  <2>2. \A d \in 0 .. n - 2 : Round(y, d) = Round(x, d + 1)
    BY <1>1, <2>1, RoundFacts
  <2> HIDE DEF y
  <2>3. \A d \in Nat : d \in Stops(n - 1, y) <=> d + 1 \in Stops(n, x)
    BY <1>1, <1>4, <2>2 DEF Stops
  <2>4. \A d \in Stops(n, x) : d \in Nat /\ d # 0 /\ d - 1 \in Stops(n - 1, y)
    BY <1>1, <1>4, <2>2, RoundFacts DEF Stops
  <2>5. \A d \in Stops(n - 1, y) : d \in 0 .. n - 2
    BY DEF Stops
  <2>6. CASE Stops(n - 1, y) = {}
    BY <1>4, <2>4, <2>6, Zenon DEF Ends, y
  <2>7. CASE Stops(n - 1, y) # {}
    <3>1. PICK f \in Stops(n - 1, y) : f = FirstStop(n - 1, y) /\ \A e \in Stops(n - 1, y) : f <= e
      BY <2>1, <2>7, FirstStopFacts, Zenon
    <3>2. f + 1 \in Stops(n, x) /\ \A e \in Stops(n, x) : f + 1 <= e
      BY <1>1, <2>3, <2>4, <2>5, <3>1
    <3>3. f + 1 = FirstStop(n, x)
      BY <1>1, <3>2, FirstStopFacts, Zenon
    <3>4. Round(y, f) = Round(x, f + 1)
      BY <2>2, <2>5, ZenonT(40)
    <3>5. QED
      BY <1>4, <2>7, <3>1, <3>2, <3>3, <3>4, Zenon DEF Ends, y
  <2>8. QED
    BY <2>6, <2>7, Zenon
<1>5. QED
  BY <1>2, <1>3, <1>4, Zenon

\* One pass of the loop, before one that f says the result of.
Loop(f) ==
    [left \in 0 .. MAX_PARTITIONS |-> [next_idx \in Slot |->
        IF left = 0 THEN MAX_PARTITIONS
        ELSE IF next_idx # IDLE /\ KindOf(next_idx) = "Ready" THEN next_idx
        ELSE f[left - 1][(next_idx + 1) % MAX_PARTITIONS]]]

\* Scan satisfies its equation if some function does.
LEMMA ScanLoops ==
    ASSUME \E f : f = Loop(f)
    PROVE  Scan = Loop(Scan)
<1>1. PICK f : f = Loop(f)
  OBVIOUS
<1>2. QED
  BY <1>1 DEF Scan, Loop

\* The loop ends there: where it ends satisfies the loop's equation, and a least
\* number of steps for which the two differed would not exist.
LEMMA ScanEnds ==
    ASSUME NEW n \in 0 .. MAX_PARTITIONS, NEW x \in Slot
    PROVE  Scan[n][x] = Ends(n, x)
<1> DEFINE E == [left \in 0 .. MAX_PARTITIONS |-> [next_idx \in Slot |-> Ends(left, next_idx)]]
           Differ == {left \in 0 .. MAX_PARTITIONS : \E y \in Slot : Scan[left][y] # Ends(left, y)}
<1>1. MAX_PARTITIONS \in Nat
  BY SchedulerAssumption
<1>2. \A y \in Slot : (y + 1) % MAX_PARTITIONS \in Slot
  BY <1>1, RoundFacts, SchedulerAssumption
<1>3. \A left \in 0 .. MAX_PARTITIONS, y \in Slot : left # 0 =>
          E[left - 1][(y + 1) % MAX_PARTITIONS] = Ends(left - 1, (y + 1) % MAX_PARTITIONS)
  BY <1>1, <1>2
<1>4. E = Loop(E)
  <2>1. \A left \in 0 .. MAX_PARTITIONS, y \in Slot : E[left][y] = Loop(E)[left][y]
    BY <1>3, EndsStep, ZenonT(40) DEF Accepts, Loop
  <2>2. QED
    BY <2>1 DEF Loop
<1> HIDE DEF E
<1>5. Scan = Loop(Scan)
  <2>1. \E f : f = Loop(f)
    BY <1>4
  <2>2. QED
    BY <2>1, ScanLoops
<1>6. \A left \in 0 .. MAX_PARTITIONS, y \in Slot :
        Scan[left][y] = IF left = 0 THEN MAX_PARTITIONS
                        ELSE IF Accepts(y) THEN y
                        ELSE Scan[left - 1][(y + 1) % MAX_PARTITIONS]
  <2> SUFFICES ASSUME NEW left \in 0 .. MAX_PARTITIONS, NEW y \in Slot
               PROVE  Scan[left][y] = IF left = 0 THEN MAX_PARTITIONS
                                      ELSE IF Accepts(y) THEN y
                                      ELSE Scan[left - 1][(y + 1) % MAX_PARTITIONS]
    BY Zenon
  <2>1. Scan[left][y] = Loop(Scan)[left][y]
    BY <1>5, Zenon
  <2>2. QED
    BY <2>1, Zenon DEF Accepts, Loop
<1>7. SUFFICES ASSUME Differ # {} PROVE FALSE
  BY Zenon
<1>8. Differ \subseteq Nat
  OBVIOUS
<1>9. PICK left \in Differ : \A k \in Differ : left <= k
  BY <1>7, <1>8, LeastExists, Zenon
<1>10. left - 1 \notin Differ
  BY <1>8, <1>9
<1>11. PICK y \in Slot : Scan[left][y] # Ends(left, y)
  BY <1>9, Zenon
<1>12. left # 0 => Scan[left - 1][(y + 1) % MAX_PARTITIONS] = Ends(left - 1, (y + 1) % MAX_PARTITIONS)
  BY <1>1, <1>2, <1>10
<1>13. QED
  BY <1>6, <1>9, <1>11, <1>12, EndsStep, Zenon

\* For any number of slots and in any table: the search by distance is the code's
\* cyclic loop.
THEOREM SearchFindsTheSame == Spec => []SearchIsTheLoop
<1>1. sched \in BitMapScheduler => SearchIsTheLoop
  <2> SUFFICES ASSUME sched \in BitMapScheduler PROVE SearchIsTheLoop
    BY Zenon
  <2> DEFINE c == sched.current
             x == (c + 1) % MAX_PARTITIONS
             n == MAX_PARTITIONS
  <2>1. n \in Nat /\ c \in Slot /\ n \in 0 .. n
    BY SchedulerAssumption DEF BitMapScheduler
  <2>2. x \in Slot /\ x = Round(c, 1)
    BY <2>1, RoundFacts, SchedulerAssumption
  <2>3. Scan[n][x] = Ends(n, x)
    BY <2>1, <2>2, ScanEnds, Zenon
  <2> HIDE DEF c, x
  <2>4. \A d \in 0 .. n - 1 : Ahead(c, Round(x, d)) = d + 1 /\ Round(x, d) \in Slot
    BY <2>1, <2>2, SchedulerAssumption DEF Round, Ahead, Slot
  <2>5. \A i \in Slot : Ahead(c, i) - 1 \in 0 .. n - 1 /\ Round(x, Ahead(c, i) - 1) = i
    BY <2>1, <2>2, SchedulerAssumption DEF Round, Ahead, Slot
  <2>6. \A i \in Slot : i \in ReadyPartitions(sched) <=> Accepts(i)
    BY Zenon DEF ReadyPartitions, Accepts, KindOf
  <2>7. CASE Stops(n, x) = {}
    <3>1. ReadyPartitions(sched) = {}
      BY <2>5, <2>6, <2>7, Zenon DEF Stops, ReadyPartitions
    <3>2. QED
      BY <2>3, <2>7, <3>1, Zenon DEF Ends, SearchIsTheLoop, c, x
  <2>8. CASE Stops(n, x) # {}
    <3> DEFINE f == FirstStop(n, x)
               i == Round(x, f)
    <3>1. f \in 0 .. n - 1 /\ Accepts(i) /\ \A e \in Stops(n, x) : f <= e
      BY <2>1, <2>2, <2>8, FirstStopFacts, Zenon DEF Stops
    <3>2. i \in Slot /\ Ahead(c, i) = f + 1 /\ Ends(n, x) = i
      BY <2>4, <2>8, <3>1, Zenon DEF Ends
    <3>3. i \in ReadyPartitions(sched)
      BY <2>6, <3>1, <3>2, Zenon
    <3>4. \A j \in ReadyPartitions(sched) : Ahead(c, j) - 1 \in Stops(n, x)
      BY <2>5, <2>6, Zenon DEF Stops, ReadyPartitions
    <3> HIDE DEF f, i
    <3>5. \A j \in ReadyPartitions(sched) : Ahead(c, i) <= Ahead(c, j) /\ (Ahead(c, j) <= Ahead(c, i) => j = i)
      <4> SUFFICES ASSUME NEW j \in ReadyPartitions(sched)
                   PROVE  Ahead(c, i) <= Ahead(c, j) /\ (Ahead(c, j) <= Ahead(c, i) => j = i)
        BY Zenon
      <4>1. f <= Ahead(c, j) - 1 /\ j \in Slot /\ Ahead(c, j) - 1 \in 0 .. n - 1
        BY <2>5, <3>1, <3>4, Zenon DEF ReadyPartitions
      <4>2. Ahead(c, j) \in Nat /\ f \in Nat
        BY <2>1, <3>1, <4>1, SchedulerAssumption DEF Ahead, Slot
      <4>3. Ahead(c, j) <= Ahead(c, i) => Ahead(c, j) - 1 = f
        BY <3>2, <4>1, <4>2
      <4>4. Ahead(c, j) - 1 = f => j = i
        BY <2>5, <4>1, Zenon DEF i
      <4>5. QED
        BY <3>2, <4>1, <4>2, <4>3, <4>4
    <3>6. NextPartition(sched) = i
      <4>1. \E j \in ReadyPartitions(sched) : \A k \in ReadyPartitions(sched) : Ahead(c, j) <= Ahead(c, k)
        BY <3>3, <3>5, Zenon
      <4>2. /\ NextPartition(sched) \in ReadyPartitions(sched)
            /\ \A k \in ReadyPartitions(sched) : Ahead(c, NextPartition(sched)) <= Ahead(c, k)
        BY <3>3, <4>1, Zenon DEF NextPartition, c
      <4>3. QED
        BY <3>3, <3>5, <4>2, Zenon
    <3>7. i # MAX_PARTITIONS
      BY <3>2, SlotFacts, Zenon
    <3>8. QED
      BY <2>3, <3>2, <3>3, <3>6, <3>7, Zenon DEF SearchIsTheLoop, c, x
  <2>9. QED
    BY <2>7, <2>8, Zenon
<1>2. QED
  BY <1>1, TypeCorrect, PTL DEF TypeOK

=============================================================================
