---------------------------- MODULE BootProofs ----------------------------
(***************************************************************************)
(* The boot sequence implements System, and no partition runs before its   *)
(* hart is prepared: for every registration of tasks and every timing of   *)
(* the two harts.  The module opens with the facts about Kernel's          *)
(* operators that it needs, so that it stands beside KernelProofs.         *)
(***************************************************************************)
EXTENDS Boot, WellFoundedInduction, TLAPS

-----------------------------------------------------------------------------
(* Operators of Scheduler and Kernel                                        *)

\* A non-empty set of naturals has a least element: the searches of the code
\* that stop at the first match are well defined.
LEMMA LeastExists ==
    ASSUME NEW S \in SUBSET Nat, S # {}
    PROVE  \E x \in S : \A y \in S : x <= y
<1>1. IsWellFoundedOn(OpToRel(<, Nat), Nat)
  BY NatLessThanWellFounded, Zenon
<1>2. PICK x \in S : \A y \in S : ~(<<y, x>> \in OpToRel(<, Nat))
  BY <1>1, WFMin, Zenon
<1>3. \A y \in S : ~(y < x)
  BY <1>2, Zenon DEF OpToRel
<1>4. QED
  BY <1>3

\* The slots and the states of the scheduler are what their names say.
LEMMA SlotFacts ==
    /\ IDLE \in Slot
    /\ Slot \subseteq Nat
    /\ \A i \in Slot : i # MAX_PARTITIONS
    /\ Ready \in TaskState /\ Running \in TaskState
    /\ Terminated \in TaskState /\ NoTask \in TaskState
    /\ 0 \in Slot
BY SchedulerAssumption
   DEF IDLE, Slot, Ready, Running, Terminated, NoTask, State, TaskState, Kind

\* A partition found by the search is Ready, is the nearest one ahead of the
\* current slot, and is idle only when there is no other.
LEMMA NextPartitionFacts ==
    ASSUME NEW s \in BitMapScheduler, Found(s)
    PROVE  /\ NextPartition(s) \in Slot
           /\ s.task_table[NextPartition(s)].kind = "Ready"
           /\ NextPartition(s) = IDLE => ReadyPartitions(s) = {}
           /\ \A j \in ReadyPartitions(s) :
                 Ahead(s.current, NextPartition(s)) <= Ahead(s.current, j)
<1>1. CASE ReadyPartitions(s) = {}
  BY <1>1, SlotFacts, Zenon DEF Found, NextPartition
<1>2. CASE ReadyPartitions(s) # {}
  <2> DEFINE D == {Ahead(s.current, i) : i \in ReadyPartitions(s)}
  <2>1. s.current \in Slot
    BY Zenon DEF BitMapScheduler
  <2>2. D \in SUBSET Nat
    BY <2>1, SchedulerAssumption DEF ReadyPartitions, Ahead, Slot
  <2>3. D # {}
    BY <1>2, Zenon
  <2>4. PICK d \in D : \A e \in D : d <= e
    BY <2>2, <2>3, LeastExists, Zenon
  <2>5. \E i \in ReadyPartitions(s) :
           \A j \in ReadyPartitions(s) : Ahead(s.current, i) <= Ahead(s.current, j)
    BY <2>4, Zenon
  <2>6. /\ NextPartition(s) \in ReadyPartitions(s)
        /\ \A j \in ReadyPartitions(s) :
              Ahead(s.current, NextPartition(s)) <= Ahead(s.current, j)
    BY <1>2, <2>5, Zenon DEF NextPartition
  <2>7. QED
    BY <2>6, Zenon DEF ReadyPartitions
<1>3. QED
  BY <1>1, <1>2, Zenon

\* The first Ready slot start_first_task looks for exists.
LEMMA FirstReadyFacts ==
    ASSUME NEW s \in BitMapScheduler, \E i \in Slot : s.task_table[i].kind = "Ready"
    PROVE  FirstReady(s) \in Slot /\ s.task_table[FirstReady(s)].kind = "Ready"
<1> DEFINE R == {i \in Slot : s.task_table[i].kind = "Ready"}
<1>1. R \in SUBSET Nat /\ R # {}
  BY SlotFacts, Zenon
<1>2. PICK x \in R : \A y \in R : x <= y
  BY <1>1, LeastExists, Zenon
<1>3. QED
  BY <1>2, Zenon DEF FirstReady

\* schedule() leaves a call that finds nothing to switch to with the same
\* table and the same current slot.
LEMMA ScheduleKeeps ==
    ASSUME NEW s \in BitMapScheduler, NEW t \in BOOLEAN, ~(Triggered(s, t) /\ Found(s))
    PROVE  /\ schedule(s, t) \in BitMapScheduler
           /\ schedule(s, t).task_table = s.task_table
           /\ schedule(s, t).current = s.current
<1>1. Charged(s, t) \in 0 .. MIF
  BY SchedulerAssumption DEF Charged, BitMapScheduler
<1>2. QED
  BY <1>1, SchedulerAssumption DEF schedule, BitMapScheduler

\* A call that switches dispatches a Ready task, marks it Running, puts a
\* Running predecessor back to Ready and touches no other slot.
LEMMA ScheduleSwaps ==
    ASSUME NEW s \in BitMapScheduler, NEW t \in BOOLEAN, Triggered(s, t), Found(s)
    PROVE  LET r == schedule(s, t) IN
           /\ r \in BitMapScheduler
           /\ r.current = NextPartition(s)
           /\ r.task_table[r.current] = Running
           /\ \A i \in Slot \ {r.current} :
                 r.task_table[i] = IF i = s.current /\ s.task_table[i].kind = "Running"
                                   THEN Ready ELSE s.task_table[i]
<1>1. schedule(s, t) = Swap(s)
  BY Zenon DEF schedule
<1>2. NextPartition(s) \in Slot
  BY NextPartitionFacts, Zenon
<1>3. s.current \in Slot /\ s.task_table \in [Slot -> TaskState]
  BY Zenon DEF BitMapScheduler
<1>4. MIF \in 0 .. MIF
  BY SchedulerAssumption
<1>5. QED
  BY <1>1, <1>2, <1>3, <1>4, SlotFacts DEF Swap, BitMapScheduler

St(S, h, i) == S[h].task_table[i]

\* The hart WaiterHart names is one of the two.
LEMMA WaiterHartType == \A w \in Nat : WaiterHart(w) \in Hart
BY Zenon DEF WaiterHart, Hart

\* What SetState changes and what it leaves alone.
LEMMA SetStateFacts ==
    ASSUME NEW S \in [Hart -> BitMapScheduler], NEW h \in Hart, NEW i \in Slot,
           NEW st \in TaskState
    PROVE  LET R == SetState(S, h, i, st) IN
           /\ R \in [Hart -> BitMapScheduler]
           /\ \A g \in Hart : R[g].current = S[g].current
           /\ \A g \in Hart, j \in Slot :
                 St(R, g, j) = IF g = h /\ j = i THEN st ELSE St(S, g, j)
<1>1. S[h] \in BitMapScheduler
  BY Zenon
<1>2. QED
  BY <1>1, Zenon DEF SetState, St, BitMapScheduler

\* The highest waiter is one of the waiters.
LEMMA HighestWaiterFacts ==
    ASSUME NEW W \in SUBSET Slot, W # {}
    PROVE  HighestWaiter(W) \in W
<1>1. \E w \in W : \A v \in W : w <= v
  BY LeastExists, SlotFacts, Zenon
<1>2. QED
  BY <1>1, Zenon DEF HighestWaiter

\* The search for a parked peer over both harts finds one if there is one.
LEMMA FirstParkedFacts ==
    ASSUME NEW kind, NEW e, Parked(kind, e) # {}
    PROVE  FirstParked(kind, e) \in Parked(kind, e)
<1> DEFINE P == Parked(kind, e)
           On(h) == {i \in Slot : <<h, i>> \in P}
<1>1. P \subseteq Hart \X Slot
  BY Zenon DEF Parked
<1>2. \A h \in Hart : On(h) \in SUBSET Nat
  BY SlotFacts, Zenon
<1>3. On(0) # {} \/ On(1) # {}
  BY <1>1 DEF Hart
<1> HIDE DEF P
<1>4. \E p \in P : \A q \in P : p[1] < q[1] \/ (p[1] = q[1] /\ p[2] <= q[2])
  <2>1. CASE On(0) # {}
    <3>1. PICK i \in On(0) : \A j \in On(0) : i <= j
      BY <1>2, <2>1, LeastExists, Zenon DEF Hart
    <3>2. \A q \in P : 0 < q[1] \/ (0 = q[1] /\ i <= q[2])
      BY <1>1, <3>1 DEF Hart
    <3>3. <<0, i>> \in P
      BY <3>1, Zenon
    <3>4. QED
      BY <3>2, <3>3, Zenon
  <2>2. CASE On(0) = {}
    <3>1. PICK i \in On(1) : \A j \in On(1) : i <= j
      BY <1>2, <1>3, <2>2, LeastExists, Zenon DEF Hart
    <3>2. \A q \in P : 1 = q[1] /\ i <= q[2]
      BY <1>1, <2>2, <3>1 DEF Hart
    <3>3. <<1, i>> \in P
      BY <3>1, Zenon
    <3>4. QED
      BY <3>2, <3>3, Zenon
  <2>3. QED
    BY <2>1, <2>2, Zenon
<1>5. QED
  BY <1>4, Zenon DEF FirstParked, P

\* The scheduler of a hart after boot.
LEMMA BootScheduler ==
    ASSUME NEW tasks \in SUBSET Slot, IDLE \in tasks
    PROVE  LET s == start_first_task(Registered(tasks)) IN
           /\ s \in BitMapScheduler
           /\ s.current \in tasks /\ s.current \in Slot
           /\ \A i \in Slot : s.task_table[i] =
                 IF i = s.current THEN Running ELSE IF i \in tasks THEN Ready ELSE NoTask
<1> DEFINE b == Registered(tasks)
           f == FirstReady(b)
<1>1. /\ b.task_table = [i \in Slot |-> IF i \in tasks THEN Ready ELSE NoTask]
      /\ b \in BitMapScheduler
  BY SlotFacts, SchedulerAssumption DEF Registered, BitMapScheduler
<1>2. Ready.kind = "Ready" /\ NoTask.kind = "None"
  BY Zenon DEF Ready, NoTask, State
<1>3. b.task_table[IDLE].kind = "Ready"
  BY <1>1, <1>2, SlotFacts, Zenon
<1> HIDE DEF b
<1>4. f \in Slot /\ b.task_table[f].kind = "Ready"
  BY <1>1, <1>3, SlotFacts, FirstReadyFacts, Zenon
<1>5. f \in tasks
  BY <1>1, <1>2, <1>4, Zenon
<1>6. start_first_task(b) =
         [task_table |-> [b.task_table EXCEPT ![f] = Running], current |-> f, remaining |-> MIF]
  BY Zenon DEF start_first_task
<1> HIDE DEF f
<1>7. /\ [b.task_table EXCEPT ![f] = Running] \in [Slot -> TaskState]
      /\ \A i \in Slot : [b.task_table EXCEPT ![f] = Running][i] =
            IF i = f THEN Running ELSE IF i \in tasks THEN Ready ELSE NoTask
  BY <1>1, <1>4, SlotFacts, Zenon DEF BitMapScheduler
<1>8. MIF \in 0 .. MIF
  BY SchedulerAssumption
<1>9. /\ start_first_task(b) \in BitMapScheduler /\ start_first_task(b).current = f
      /\ start_first_task(b).task_table = [b.task_table EXCEPT ![f] = Running]
  BY <1>4, <1>6, <1>7, <1>8 DEF BitMapScheduler
<1>10. QED
  BY <1>4, <1>5, <1>7, <1>9, Zenon DEF b

\* The task may go on.
Up(st) == st.kind \in {"Ready", "Running"}

\* Equal but for the dispatcher, which exchanges Ready and Running and nothing
\* else.
SameMode(x, y) == x = y \/ (Up(x) /\ Up(y))

\* switch_task changes no task's mode.
LEMMA SwitchModes ==
    ASSUME NEW S \in [Hart -> BitMapScheduler], NEW g \in Hart, NEW t \in BOOLEAN,
           switch_task(g, S, t), NEW h \in Hart, NEW i \in Slot
    PROVE  SameMode(St(S, h, i), St(SCHEDULERS', h, i))
<1>1. SCHEDULERS' = [S EXCEPT ![g] = schedule(S[g], t)]
  BY Zenon DEF switch_task
<1>2. CASE h # g
  BY <1>1, <1>2, Zenon DEF SameMode, St
<1>3. CASE h = g
  <2>1. S[g] \in BitMapScheduler /\ SCHEDULERS'[h] = schedule(S[g], t)
    BY <1>1, <1>3, Zenon
  <2>2. CASE ~(Triggered(S[g], t) /\ Found(S[g]))
    BY <1>3, <2>1, <2>2, ScheduleKeeps, SMTT(30) DEF SameMode, St
  <2>3. CASE Triggered(S[g], t) /\ Found(S[g])
    <3>1. S[g].task_table[NextPartition(S[g])].kind = "Ready"
      BY <2>1, <2>3, NextPartitionFacts, Zenon
    <3>2. /\ schedule(S[g], t).task_table[NextPartition(S[g])] = Running
          /\ \A j \in Slot \ {NextPartition(S[g])} :
                schedule(S[g], t).task_table[j] =
                   IF j = S[g].current /\ S[g].task_table[j].kind = "Running"
                   THEN Ready ELSE S[g].task_table[j]
      BY <2>1, <2>3, ScheduleSwaps
    <3>3. Running.kind = "Running" /\ Ready.kind = "Ready"
      BY Zenon DEF Running, Ready, State
    <3>4. QED
      BY <1>3, <2>1, <3>1, <3>2, <3>3, Zenon DEF SameMode, Up, St
  <2>4. QED
    BY <2>2, <2>3, Zenon
<1>4. QED
  BY <1>2, <1>3, Zenon

-----------------------------------------------------------------------------
(* Boot: the invariant                                                      *)

\* Tasks that kmain has registered on hart h.
Upto(h) == {Registrations[n][2] : n \in {m \in 1 .. 7 : m <= registered /\ Registrations[m][1] = h}}

\* Hart 0 has released hart 1.
Released == pc[0] \in {"wait", "select", "point", "start", "user"}

\* Where the harts are in kmain, and what they have done by then.
Sequence ==
    /\ pc \in [Hart -> {"barrier", "reset", "verify", "wfi", "stacks", "register", "timer",
                        "release", "wait", "signal", "select", "point", "start", "user"}]
    /\ pc[0] \notin {"barrier", "signal"}
    /\ pc[1] \notin {"verify", "wfi", "stacks", "register", "release", "wait"}
    /\ pc[1] # "barrier" => BOOT_BARRIER
    /\ BOOT_BARRIER => Released
    /\ Released \/ pc[0] \in {"stacks", "register", "timer", "release"} => trusted
    /\ Released \/ pc[0] \in {"register", "timer", "release"} => stacks
    /\ registered \in 0 .. 7
    /\ pc[0] \in {"reset", "verify", "stacks", "register"} => registered < 7
    /\ Released \/ pc[0] \in {"timer", "release"} => registered = 7
    /\ \A h \in Hart :
          /\ pc[h] \notin {"barrier", "reset"} => h \in mtvec /\ h \in pmp
          /\ Released /\ pc[h] \notin {"barrier", "reset", "timer"} => h \in armed
          /\ InUser(h) => h \in mscratch
    /\ pc[0] = "release" => 0 \in armed
    /\ armed \subseteq Hart

\* A hart that has not started has its table as registered so far, and only
\* frames that initialize_stack built.
Unstarted(h) ==
    /\ SCHEDULERS[h] = [task_table |-> Registered(Upto(h)).task_table,
                        current    |-> IF pc[h] = "start" THEN first_idx[h] ELSE 0,
                        remaining  |-> MIF]
    /\ context[h] = [i \in Slot |-> "fresh"]
    /\ pc[h] \in {"point", "start"} => first_idx[h] = FirstReady(Registered(Tasks[h]))

OnHarts(f) == f = [h \in Hart |-> f[h]]

\* Only tasks of a hart that has started wait for a mutex, and no tick has come
\* before both have.
Apart ==
    /\ MUTEXES \in [Mutex -> KernelMutex]
    /\ \A m \in Mutex : \A w \in MUTEXES[m].waiters :
          InUser(WaiterHart(w)) /\ w \in Tasks[WaiterHart(w)]
    /\ ~(InUser(0) /\ InUser(1)) =>
          /\ TICK_COUNT = 0 /\ current_tick = 0
          /\ LAST_CHECKIN_TICK = [i \in Monitored |-> 0]

BootInv ==
    /\ Sequence
    /\ OnHarts(SCHEDULERS) /\ OnHarts(context) /\ OnHarts(first_idx)
    /\ \A h \in Hart : ~InUser(h) => Unstarted(h)
    /\ Apart

-----------------------------------------------------------------------------
(* The mapping                                                              *)

Fresh(h) == start_first_task(Registered(Tasks[h]))

\* The schedulers S and the contexts F of started harts, with the others as
\* after their start.
Over(S) == [h \in Hart |-> IF InUser(h) THEN S[h] ELSE Fresh(h)]
OverC(F) == [h \in Hart |-> IF InUser(h) THEN F[h] ELSE [F[h] EXCEPT ![Fresh(h).current] = "live"]]

\* Both entries of a table are replaced, or one of a started hart.
LEMMA BothReplaced ==
    ASSUME NEW f, OnHarts(f), NEW x, NEW y
    PROVE  [f EXCEPT ![0] = x, ![1] = y] = [h \in Hart |-> IF h = 0 THEN x ELSE y]
BY SMT DEF OnHarts, Hart

\* Two tables with an entry for each hart are equal if their entries are.
LEMMA SameOnHarts ==
    ASSUME NEW f, NEW g, OnHarts(f), OnHarts(g), \A h \in Hart : f[h] = g[h]
    PROVE  f = g
<1>1. [h \in Hart |-> f[h]] = [h \in Hart |-> g[h]]
  BY Zenon
<1>2. QED
  BY <1>1, Zenon DEF OnHarts

\* What replacing the entry of one hart does.
LEMMA ExceptOnHarts ==
    ASSUME NEW f, OnHarts(f), NEW h \in Hart, NEW x
    PROVE  /\ OnHarts([f EXCEPT ![h] = x])
           /\ [f EXCEPT ![h] = x][h] = x
           /\ \A g \in Hart : g # h => [f EXCEPT ![h] = x][g] = f[g]
BY SMT DEF OnHarts

\* The mapped tables, hart by hart.
LEMMA OverFacts ==
    ASSUME NEW S
    PROVE  /\ OnHarts(Over(S)) /\ OnHarts(OverC(S))
           /\ \A g \in Hart :
                 /\ Over(S)[g] = IF InUser(g) THEN S[g] ELSE Fresh(g)
                 /\ OverC(S)[g] = IF InUser(g) THEN S[g]
                                  ELSE [S[g] EXCEPT ![Fresh(g).current] = "live"]
BY Zenon DEF OnHarts, Over, OverC

\* A change of a started hart's scheduler is the same change of the mapped one.
LEMMA OneReplaced ==
    ASSUME NEW S, NEW T, NEW h \in Hart, InUser(h), \A g \in Hart : g # h => T[g] = S[g]
    PROVE  Over(T) = [Over(S) EXCEPT ![h] = T[h]]
<1>1. ASSUME NEW g \in Hart PROVE Over(T)[g] = [Over(S) EXCEPT ![h] = T[h]][g]
  <2>1. CASE g = h
    <3>1. Over(T)[h] = T[h]
      BY OverFacts, Zenon
    <3>2. [Over(S) EXCEPT ![h] = T[h]][h] = T[h]
      BY SMT DEF Over
    <3>3. QED
      BY <2>1, <3>1, <3>2, Zenon
  <2>2. CASE g # h
    <3>1. [Over(S) EXCEPT ![h] = T[h]][g] = Over(S)[g]
      BY <2>2, OverFacts, ExceptOnHarts, SMT
    <3>2. Over(T)[g] = Over(S)[g]
      BY <2>2, OverFacts, Zenon
    <3>3. QED
      BY <3>1, <3>2, Zenon
  <2>3. QED
    BY <2>1, <2>2, Zenon
<1>2. OnHarts(Over(T)) /\ OnHarts([Over(S) EXCEPT ![h] = T[h]])
  BY OverFacts, ExceptOnHarts, Zenon
<1>3. QED
  BY <1>1, <1>2, SameOnHarts, Zenon

\* The same of the contexts.
LEMMA OneReplacedC ==
    ASSUME NEW S, NEW T, NEW h \in Hart, InUser(h), \A g \in Hart : g # h => T[g] = S[g]
    PROVE  OverC(T) = [OverC(S) EXCEPT ![h] = T[h]]
<1>1. ASSUME NEW g \in Hart PROVE OverC(T)[g] = [OverC(S) EXCEPT ![h] = T[h]][g]
  <2>1. CASE g = h
    <3>1. OverC(T)[h] = T[h]
      BY OverFacts, Zenon
    <3>2. [OverC(S) EXCEPT ![h] = T[h]][h] = T[h]
      BY SMT DEF OverC
    <3>3. QED
      BY <2>1, <3>1, <3>2, Zenon
  <2>2. CASE g # h
    <3>1. [OverC(S) EXCEPT ![h] = T[h]][g] = OverC(S)[g]
      BY <2>2, OverFacts, ExceptOnHarts, SMT
    <3>2. T[g] = S[g]
      BY <2>2, Zenon
    <3>3. OverC(T)[g] = OverC(S)[g]
      <4>1. OverC(T)[g] = IF InUser(g) THEN T[g] ELSE [T[g] EXCEPT ![Fresh(g).current] = "live"]
        BY OverFacts, Zenon
      <4>2. OverC(S)[g] = IF InUser(g) THEN S[g] ELSE [S[g] EXCEPT ![Fresh(g).current] = "live"]
        BY OverFacts, Zenon
      <4>3. QED
        BY <3>2, <4>1, <4>2, SMT
    <3>4. QED
      BY <3>1, <3>3, Zenon
  <2>3. QED
    BY <2>1, <2>2, Zenon
<1>2. OnHarts(OverC(T)) /\ OnHarts([OverC(S) EXCEPT ![h] = T[h]])
  BY OverFacts, ExceptOnHarts, Zenon
<1>3. QED
  BY <1>1, <1>2, SameOnHarts, Zenon

\* The mapped variables.
LEMMA Mapped ==
    ASSUME OnHarts(SCHEDULERS), OnHarts(context)
    PROVE  StartedHarts = Over(SCHEDULERS) /\ StartedContexts = OverC(context)
<1>1. /\ \A h : StartedHart(h) = IF InUser(h) THEN SCHEDULERS[h] ELSE Fresh(h)
      /\ \A h : StartedContext(h) = IF InUser(h) THEN context[h]
                                    ELSE [context[h] EXCEPT ![Fresh(h).current] = "live"]
  BY Zenon DEF StartedHart, StartedContext, Fresh
<1>2. StartedHarts = [h \in Hart |-> StartedHart(h)]
  BY BothReplaced, Zenon DEF StartedHarts, Hart
<1>3. StartedContexts = [h \in Hart |-> StartedContext(h)]
  BY BothReplaced, Zenon DEF StartedContexts, Hart
<1>4. QED
  BY <1>1, <1>2, <1>3, Zenon DEF Over, OverC

\* A step of the partitions: no hart goes on in kmain, and the table and the
\* frames of a hart that has not started stay.
Untouched ==
    /\ pc' = pc
    /\ OnHarts(SCHEDULERS') /\ OnHarts(context')
    /\ \A g \in Hart : ~InUser(g) => SCHEDULERS'[g] = SCHEDULERS[g] /\ context'[g] = context[g]

\* The mapped state after a step that leaves unstarted harts alone.
LEMMA MappedNext ==
    ASSUME Untouched
    PROVE  StartedHarts' = Over(SCHEDULERS') /\ StartedContexts' = OverC(context')
<1>1. /\ \A h : StartedHart(h)' = IF InUser(h) THEN SCHEDULERS'[h] ELSE Fresh(h)
      /\ \A h : StartedContext(h)' = IF InUser(h) THEN context'[h]
                                    ELSE [context'[h] EXCEPT ![Fresh(h).current] = "live"]
  BY Zenon DEF StartedHart, StartedContext, Fresh, Untouched, InUser
<1>2. StartedHarts' = [h \in Hart |-> StartedHart(h)']
  BY BothReplaced, Zenon DEF StartedHarts, Hart, Untouched
<1>3. StartedContexts' = [h \in Hart |-> StartedContext(h)']
  BY BothReplaced, Zenon DEF StartedContexts, Hart, Untouched
<1>4. QED
  BY <1>1, <1>2, <1>3, Zenon DEF Over, OverC

\* The operators of System that read none of the mapped variables.
LEMMA SameOperators ==
    /\ Booted!Hart = Hart /\ Booted!Slot = Slot /\ Booted!IDLE = IDLE
    /\ Booted!WATCHDOG = WATCHDOG /\ Booted!NoTick = NoTick /\ Booted!NoOwner = NoOwner
    /\ Booted!Ready = Ready /\ Booted!Running = Running /\ Booted!Terminated = Terminated
    /\ \A k, a : Booted!State(k, a) = State(k, a)
    /\ \A w : Booted!WaiterHart(w) = WaiterHart(w)
    /\ \A W : Booted!HighestWaiter(W) = HighestWaiter(W)
    /\ \A m : Booted!HandedOver(m) = HandedOver(m)
    /\ \A S, h, i, x : Booted!SetState(S, h, i, x) = SetState(S, h, i, x)
BY Zenon DEF Booted!Hart, Hart, Booted!Slot, Slot, Booted!IDLE, IDLE, Booted!WATCHDOG, WATCHDOG,
   Booted!NoTick, NoTick, Booted!NoOwner, NoOwner, Booted!Ready, Ready, Booted!Running, Running,
   Booted!Terminated, Terminated, Booted!State, State, Booted!WaiterHart, WaiterHart,
   Booted!HighestWaiter, HighestWaiter, Booted!HandedOver, HandedOver, Booted!SetState, SetState

\* The dispatcher is the same.
LEMMA SameSchedule ==
    ASSUME NEW s, NEW t
    PROVE  /\ Booted!schedule(s, t) = schedule(s, t)
           /\ Booted!Switches(s, t) = Switches(s, t)
           /\ Booted!ReadyPartitions(s) = ReadyPartitions(s)
<1>1. /\ Booted!ReadyPartitions(s) = ReadyPartitions(s)
      /\ Booted!Found(s) = Found(s) /\ Booted!Charged(s, t) = Charged(s, t)
      /\ Booted!CurrentRunnable(s) = CurrentRunnable(s)
      /\ Booted!Running = Running /\ Booted!Ready = Ready
  BY Zenon DEF Booted!ReadyPartitions, ReadyPartitions, Booted!Found, Found, Booted!Charged,
     Charged,
     Booted!Slot, Slot, Booted!IDLE, IDLE, Booted!CurrentRunnable, CurrentRunnable,
     Booted!Ready, Ready, Booted!Running, Running, Booted!State, State
<1>2. Booted!NextPartition(s) = NextPartition(s)
  BY Zenon DEF Booted!NextPartition, NextPartition, Booted!Ahead, Ahead, Booted!IDLE, IDLE,
     Booted!ReadyPartitions, ReadyPartitions, Booted!Slot, Slot
<1>3. Booted!Triggered(s, t) = Triggered(s, t) /\ Booted!Swap(s) = Swap(s)
  BY <1>1, <1>2, Zenon DEF Booted!Triggered, Triggered, Booted!Swap, Swap
<1>4. QED
  BY <1>1, <1>3, Zenon DEF Booted!schedule, schedule, Booted!Switches, Switches

\* A switch on a started hart is one of the mapped state.
LEMMA SwitchMapped ==
    ASSUME NEW h \in Hart, InUser(h), NEW S, NEW t, switch_task(h, S, t), pc' = pc,
           OnHarts(SCHEDULERS), OnHarts(context), OnHarts(S),
           \A g \in Hart : ~InUser(g) => S[g] = SCHEDULERS[g]
    PROVE  Booted!switch_task(h, Over(S), t) /\ Untouched
<1>1. SCHEDULERS' = [S EXCEPT ![h] = schedule(S[h], t)]
  BY Zenon DEF switch_task
<1>2. OnHarts(SCHEDULERS') /\ SCHEDULERS'[h] = schedule(S[h], t)
      /\ \A g \in Hart : g # h => SCHEDULERS'[g] = S[g]
  BY <1>1, SMT DEF OnHarts
<1> DEFINE row == [i \in Slot |-> IF i = schedule(S[h], t).current THEN "live"
                                  ELSE IF i = S[h].current THEN "suspended"
                                  ELSE context[h][i]]
<1>3. context' = IF Switches(S[h], t) THEN [context EXCEPT ![h] = row] ELSE context
  BY Zenon DEF switch_task
<1>4. OnHarts(context') /\ context'[h] = (IF Switches(S[h], t) THEN row ELSE context[h])
      /\ \A g \in Hart : g # h => context'[g] = context[g]
  <2> HIDE DEF row
  <2>1. QED
    BY <1>3, SMT DEF OnHarts
<1>5. Untouched
  BY <1>2, <1>4, Zenon DEF Untouched
<1>6. StartedHarts' = Over(SCHEDULERS') /\ StartedContexts' = OverC(context')
  BY <1>5, MappedNext, Zenon
<1>7. StartedContexts = OverC(context)
  BY Mapped, Zenon
<1>8. Over(S)[h] = S[h] /\ OverC(context)[h] = context[h]
  BY Zenon DEF Over, OverC
<1>9. Over(SCHEDULERS') = [Over(S) EXCEPT ![h] = schedule(S[h], t)]
  <2>1. Over(SCHEDULERS') = [Over(S) EXCEPT ![h] = SCHEDULERS'[h]]
    <3>1. \A g \in Hart : g # h => SCHEDULERS'[g] = S[g]
      BY <1>2, Zenon
    <3>2. QED
      BY <3>1, OneReplaced, SMTT(20)
  <2>2. QED
    BY <1>2, <2>1, Zenon
<1>10. OverC(context') = IF Switches(S[h], t) THEN [OverC(context) EXCEPT ![h] = row]
                         ELSE OverC(context)
  <2> HIDE DEF row
  <2>1. CASE Switches(S[h], t)
    <3>1. OverC(context') = [OverC(context) EXCEPT ![h] = context'[h]]
      BY <1>4, OneReplacedC
    <3>2. context'[h] = row
      BY <1>4, <2>1, Zenon
    <3>3. QED
      BY <2>1, <3>1, <3>2, Zenon
  <2>2. CASE ~Switches(S[h], t)
    BY <1>3, <2>2, Zenon
  <2>3. QED
    BY <2>1, <2>2, Zenon
<1>11. /\ StartedHarts' = [Over(S) EXCEPT ![h] = Booted!schedule(Over(S)[h], t)]
       /\ StartedContexts' = IF Booted!Switches(Over(S)[h], t) THEN [StartedContexts EXCEPT ![h] = row]
                             ELSE StartedContexts
  <2> HIDE DEF row
  <2>1. Booted!schedule(Over(S)[h], t) = schedule(S[h], t) /\ Booted!Switches(Over(S)[h], t) = Switches(S[h], t)
    BY <1>8, SameSchedule, Zenon
  <2>2. QED
    BY <1>6, <1>7, <1>9, <1>10, <2>1, Zenon
<1>12. row = [i \in Booted!Slot |-> IF i = Booted!schedule(Over(S)[h], t).current THEN "live"
                                    ELSE IF i = Over(S)[h].current THEN "suspended"
                                    ELSE StartedContexts[h][i]]
  <2>1. /\ Booted!Slot = Slot /\ Booted!schedule(Over(S)[h], t) = schedule(S[h], t)
        /\ StartedContexts[h] = context[h]
    BY <1>7, <1>8, SameSchedule, SameOperators, Zenon
  <2>2. QED
    BY <1>8, <2>1, SMT
<1>13. QED
  BY <1>5, <1>11, <1>12, Zenon DEF Booted!switch_task

\* What the handlers read of a started hart.
LEMMA Reads ==
    ASSUME OnHarts(SCHEDULERS), OnHarts(context), NEW h \in Hart, InUser(h)
    PROVE  /\ StartedHarts[h] = SCHEDULERS[h] /\ StartedContexts[h] = context[h]
           /\ Booted!Current(h) = Current(h)
           /\ \A i : Booted!KindOf(h, i) = KindOf(h, i) /\ Booted!StateOf(h, i) = StateOf(h, i)
           /\ Booted!Enters(h) <=> Enters(h)
           /\ Booted!Traps(h) <=> Traps(h)
           /\ h = 0 => (Booted!Scanning <=> Scanning)
<1>1. StartedHarts[h] = SCHEDULERS[h] /\ StartedContexts[h] = context[h]
  BY Mapped, OverFacts, Zenon
<1>2. /\ Booted!Current(h) = Current(h)
      /\ \A i : Booted!KindOf(h, i) = KindOf(h, i) /\ Booted!StateOf(h, i) = StateOf(h, i)
  BY <1>1, Zenon DEF Booted!Current, Current, Booted!KindOf, KindOf, Booted!StateOf, StateOf
<1>3. Booted!Enters(h) <=> Enters(h)
  BY SameOperators, Zenon DEF Booted!Enters, Enters
<1>4. h = 0 => (Booted!Scanning <=> Scanning)
  <2>1. SUFFICES ASSUME h = 0 PROVE Booted!Scanning <=> Scanning
    BY Zenon
  <2>2. Booted!Current(0) = Current(0)
    BY <1>2, <2>1, Zenon
  <2>3. QED
    BY <2>2, SameOperators, Zenon DEF Booted!Scanning, Scanning
<1>5. Booted!Traps(h) <=> Traps(h)
  <2>1. (h = 0 /\ Booted!Scanning) <=> (h = 0 /\ Scanning)
    BY <1>4, Zenon
  <2>2. QED
    BY <1>2, <1>3, <2>1, SameOperators, Zenon DEF Booted!Traps, Traps
<1>6. QED
  BY <1>1, <1>2, <1>3, <1>4, <1>5, Zenon

\* A step that leaves schedulers and frames alone.
LEMMA KeptMapped ==
    ASSUME OnHarts(SCHEDULERS), OnHarts(context), pc' = pc, SCHEDULERS' = SCHEDULERS, context' = context
    PROVE  StartedHarts' = StartedHarts /\ StartedContexts' = StartedContexts /\ Untouched
<1>1. Untouched
  BY Zenon DEF Untouched
<1>2. QED
  BY <1>1, Mapped, MappedNext, Zenon

\* A task of a started hart changes its state.
LEMMA SetStateMapped ==
    ASSUME NEW S, OnHarts(S), NEW h \in Hart, InUser(h), NEW i, NEW x
    PROVE  /\ OnHarts(SetState(S, h, i, x))
           /\ Over(SetState(S, h, i, x)) = SetState(Over(S), h, i, x)
           /\ \A g \in Hart : ~InUser(g) => SetState(S, h, i, x)[g] = S[g]
<1> DEFINE r(s) == [s EXCEPT !.task_table = [s.task_table EXCEPT ![i] = x]]
           T == SetState(S, h, i, x)
<1>1. \A F : SetState(F, h, i, x) = [F EXCEPT ![h] = r(F[h])]
  BY SMT DEF SetState
<1>2. Over(S)[h] = S[h]
  BY OverFacts, Zenon
<1> HIDE DEF r
<1>3. OnHarts(T) /\ T[h] = r(S[h]) /\ \A g \in Hart : g # h => T[g] = S[g]
  <2>1. T = [S EXCEPT ![h] = r(S[h])]
    BY <1>1, Zenon
  <2> HIDE DEF T
  <2>2. QED
    BY <2>1, SMT DEF OnHarts
<1>4. Over(T) = [Over(S) EXCEPT ![h] = r(S[h])]
  <2> HIDE DEF T
  <2>1. Over(T) = [Over(S) EXCEPT ![h] = T[h]]
    BY <1>3, OneReplaced
  <2>2. QED
    BY <1>3, <2>1, Zenon
<1>5. QED
  BY <1>1, <1>2, <1>3, <1>4, Zenon

\* A switch after such a change, and one after none.
LEMMA ChangeMapped ==
    ASSUME OnHarts(SCHEDULERS), OnHarts(context), pc' = pc,
           NEW h \in Hart, InUser(h), NEW g \in Hart, InUser(g), NEW i, NEW x, NEW t,
           switch_task(h, SetState(SCHEDULERS, g, i, x), t)
    PROVE  Booted!switch_task(h, Booted!SetState(StartedHarts, g, i, x), t) /\ Untouched
<1> DEFINE S == SetState(SCHEDULERS, g, i, x)
<1>1. OnHarts(S) /\ (\A f \in Hart : ~InUser(f) => S[f] = SCHEDULERS[f])
  BY SetStateMapped
<1>2. Over(S) = Booted!SetState(StartedHarts, g, i, x)
  <2>1. Over(S) = SetState(Over(SCHEDULERS), g, i, x)
    BY SetStateMapped
  <2>2. QED
    BY <2>1, Mapped, SameOperators, Zenon
<1>3. Booted!switch_task(h, Over(S), t) /\ Untouched
  <2> HIDE DEF S
  <2>1. switch_task(h, S, t)
    BY DEF S
  <2>2. QED
    BY <1>1, <2>1, SwitchMapped, Zenon
<1>4. QED
  BY <1>2, <1>3, Zenon

\* A trap that only reschedules.
LEMMA PlainMapped ==
    ASSUME OnHarts(SCHEDULERS), OnHarts(context), pc' = pc, NEW h \in Hart, InUser(h), NEW t,
           switch_task(h, SCHEDULERS, t)
    PROVE  Booted!switch_task(h, StartedHarts, t) /\ Untouched
<1>1. Booted!switch_task(h, Over(SCHEDULERS), t) /\ Untouched
  BY SwitchMapped, Zenon
<1>2. QED
  BY <1>1, Mapped, Zenon

-----------------------------------------------------------------------------
(* The handlers, one lemma each: a step of a started hart is a step of the   *)
(* mapped state, and leaves the other hart alone if it has not started.      *)

Base == OnHarts(SCHEDULERS) /\ OnHarts(context) /\ pc' = pc

\* The timer interrupt.
LEMMA TimerMapped ==
    ASSUME Base, NEW h \in Hart, InUser(h)
    PROVE  /\ TimerEntry(h) => Booted!TimerEntry(h) /\ Untouched
           /\ TimerInterrupt(h) => Booted!TimerInterrupt(h) /\ Untouched
           /\ SoftwareInterrupt(h) => Booted!SoftwareInterrupt(h) /\ Untouched
<1>1. ASSUME TimerEntry(h) PROVE Booted!TimerEntry(h) /\ Untouched
  <2>1. StartedHarts' = StartedHarts /\ StartedContexts' = StartedContexts /\ Untouched
    BY <1>1, KeptMapped, Zenon DEF Base, TimerEntry
  <2>2. QED
    BY <1>1, <2>1, SameOperators, Zenon DEF Booted!TimerEntry, TimerEntry
<1>2. ASSUME TimerInterrupt(h) PROVE Booted!TimerInterrupt(h) /\ Untouched
  <2> DEFINE r(s) == [s EXCEPT !.task_table = Woken(s.task_table, timer[h])]
             S == [SCHEDULERS EXCEPT ![h] = r(SCHEDULERS[h])]
  <2>1. /\ timer[h] # NoTick
        /\ SCHED_LOCK = "free" \/ (SCHED_LOCK = "watchdog" /\ h = 0)
        /\ switch_task(h, S, TRUE)
        /\ timer' = [timer EXCEPT ![h] = NoTick]
        /\ UNCHANGED <<MUTEXES, TICK_COUNT, msip, SCHED_LOCK, halted>>
    BY <1>2 DEF TimerInterrupt
  <2>2. Booted!switch_task(h, [StartedHarts EXCEPT ![h] = r(StartedHarts[h])], TRUE) /\ Untouched
    <3> HIDE DEF r
    <3>1. OnHarts(S) /\ S[h] = r(SCHEDULERS[h]) /\ \A g \in Hart : g # h => S[g] = SCHEDULERS[g]
      BY SMT DEF OnHarts, Base
    <3>2. Over(S) = [Over(SCHEDULERS) EXCEPT ![h] = r(SCHEDULERS[h])]
      <4> HIDE DEF S
      <4>1. Over(S) = [Over(SCHEDULERS) EXCEPT ![h] = S[h]]
        BY <3>1, OneReplaced
      <4>2. QED
        BY <3>1, <4>1, Zenon
    <3>3. StartedHarts = Over(SCHEDULERS) /\ StartedHarts[h] = SCHEDULERS[h]
      BY Mapped, Reads, Zenon DEF Base
    <3>4. Booted!switch_task(h, Over(S), TRUE) /\ Untouched
      <4> HIDE DEF S
      <4>1. QED
        BY <2>1, <3>1, SwitchMapped, Zenon DEF Base
    <3>5. QED
      BY <3>2, <3>3, <3>4, Zenon
  <2>3. \A table, tick : Booted!Woken(table, tick) = Woken(table, tick)
    BY Zenon DEF Booted!Woken, Woken, Booted!Slot, Slot, Booted!Ready, Ready, Booted!State, State
  <2>4. [StartedHarts EXCEPT ![h].task_table = Booted!Woken(@, timer[h])]
            = [StartedHarts EXCEPT ![h] = r(StartedHarts[h])]
    <3> DEFINE w == Booted!Woken(StartedHarts[h].task_table, timer[h])
    <3>1. w = Woken(StartedHarts[h].task_table, timer[h])
      BY <2>3, Zenon
    <3>2. [StartedHarts EXCEPT ![h].task_table = Booted!Woken(@, timer[h])]
              = [StartedHarts EXCEPT ![h] = [StartedHarts[h] EXCEPT !.task_table = w]]
      BY SMT
    <3> HIDE DEF w
    <3>3. QED
      BY <3>1, <3>2, Zenon
  <2>5. QED
    BY <2>1, <2>2, <2>4, SameOperators, Zenon DEF Booted!TimerInterrupt
<1>3. ASSUME SoftwareInterrupt(h) PROVE Booted!SoftwareInterrupt(h) /\ Untouched
  <2>1. Booted!switch_task(h, StartedHarts, FALSE) /\ Untouched
    BY <1>3, PlainMapped, Zenon DEF Base, SoftwareInterrupt
  <2>2. Booted!Enters(h) <=> Enters(h)
    BY Reads, Zenon DEF Base
  <2>3. QED
    BY <1>3, <2>1, <2>2, Zenon DEF SoftwareInterrupt, Booted!SoftwareInterrupt
<1>4. QED
  BY <1>1, <1>2, <1>3, Zenon

\* yield and sleep.
LEMMA YieldMapped ==
    ASSUME Base, NEW h \in Hart, InUser(h)
    PROVE  /\ Sys1Yield(h) => Booted!Sys1Yield(h) /\ Untouched
           /\ \A n : Sys2Sleep(h, n) => Booted!Sys2Sleep(h, n) /\ Untouched
<1>1. (Booted!Traps(h) <=> Traps(h)) /\ Booted!Current(h) = Current(h)
  BY Reads, Zenon DEF Base
<1>2. ASSUME Sys1Yield(h) PROVE Booted!Sys1Yield(h) /\ Untouched
  <2>1. Booted!switch_task(h, StartedHarts, FALSE) /\ Untouched
    BY <1>2, PlainMapped, Zenon DEF Base, Sys1Yield
  <2>2. QED
    BY <1>1, <1>2, <2>1, Zenon DEF Sys1Yield, Booted!Sys1Yield
<1>3. ASSUME NEW n, Sys2Sleep(h, n) PROVE Booted!Sys2Sleep(h, n) /\ Untouched
  <2> DEFINE x == State("Blocked", (TICK_COUNT + n) % TICK_MOD)
  <2>1. Booted!switch_task(h, Booted!SetState(StartedHarts, h, Current(h), x), FALSE) /\ Untouched
    BY <1>3, ChangeMapped, Zenon DEF Base, Sys2Sleep
  <2>2. QED
    BY <1>1, <1>3, <2>1, SameOperators, Zenon DEF Sys2Sleep, Booted!Sys2Sleep
<1>4. QED
  BY <1>2, <1>3, Zenon

\* lock.
LEMMA LockMapped ==
    ASSUME Base, NEW h \in Hart, InUser(h), NEW m, Sys3Lock(h, m)
    PROVE  Booted!Sys3Lock(h, m) /\ Untouched
<1>1. (Booted!Traps(h) <=> Traps(h)) /\ Booted!Current(h) = Current(h)
  BY Reads, Zenon DEF Base
<1>2. CASE ~MUTEXES[m].locked
  <2>1. StartedHarts' = StartedHarts /\ StartedContexts' = StartedContexts /\ Untouched
    BY <1>2, KeptMapped, Zenon DEF Base, Sys3Lock
  <2>2. QED
    BY <1>1, <1>2, <2>1, Zenon DEF Sys3Lock, Booted!Sys3Lock
<1>3. CASE MUTEXES[m].locked
  <2>1. Booted!switch_task(h, Booted!SetState(StartedHarts, h, Current(h), State("BlockedOnMutex", m)), FALSE)
        /\ Untouched
    BY <1>3, ChangeMapped, Zenon DEF Base, Sys3Lock
  <2>2. QED
    BY <1>1, <1>3, <2>1, SameOperators, Zenon DEF Sys3Lock, Booted!Sys3Lock
<1>4. QED
  BY <1>2, <1>3, Zenon

\* The table of a hart that has not started, before and after the mapping.
LEMMA UnstartedTable ==
    ASSUME NEW g \in Hart, Unstarted(g)
    PROVE  /\ \A j \in Slot : KindOf(g, j) \in {"Ready", "None"}
           /\ [SCHEDULERS[g] EXCEPT !.task_table = [j \in Slot |-> StateOf(g, j)]] = SCHEDULERS[g]
BY SMT DEF Unstarted, KindOf, StateOf, Registered, Ready, NoTask, State

\* The table of a hart that has just started.
LEMMA FreshTable ==
    ASSUME NEW g \in Hart
    PROVE  /\ \A j \in Slot : Fresh(g).task_table[j].kind \in {"Ready", "None", "Running"}
           /\ [Fresh(g) EXCEPT !.task_table = [j \in Slot |-> Fresh(g).task_table[j]]] = Fresh(g)
<1> DEFINE f == FirstReady(Registered(Tasks[g]))
           T == [Registered(Tasks[g]).task_table EXCEPT ![f] = Running]
<1>1. Fresh(g) = [task_table |-> T, current |-> f, remaining |-> MIF]
  BY Zenon DEF Fresh, start_first_task
<1> HIDE DEF f
<1>2. /\ \A j \in Slot : T[j].kind \in {"Ready", "None", "Running"}
      /\ [j \in Slot |-> T[j]] = T
  <2>1. DOMAIN Registered(Tasks[g]).task_table = Slot
    BY SMT DEF Registered
  <2>2. \A j \in Slot : Registered(Tasks[g]).task_table[j].kind \in {"Ready", "None"}
    BY SMT DEF Registered, Ready, NoTask, State
  <2>3. Running.kind = "Running"
    BY SMT DEF Running, State
  <2>4. [j \in Slot |-> Registered(Tasks[g]).task_table[j]] = Registered(Tasks[g]).task_table
    BY SMT DEF Registered
  <2>5. \A j \in Slot : T[j] = IF j = f THEN Running ELSE Registered(Tasks[g]).task_table[j]
    BY <2>1, SMT
  <2>6. [j \in Slot |-> T[j]] = T
    BY <2>4, SMT
  <2> HIDE DEF T
  <2>7. QED
    BY <2>2, <2>3, <2>5, <2>6, Zenon
<1> HIDE DEF T
<1>3. Fresh(g).task_table = T
  BY <1>1, SMT
<1>4. [Fresh(g) EXCEPT !.task_table = T] = Fresh(g)
  BY <1>1, SMT
<1>5. [j \in Slot |-> Fresh(g).task_table[j]] = T
  BY <1>2, <1>3, Zenon
<1>6. QED
  BY <1>2, <1>3, <1>4, <1>5, Zenon

\* The waiter that unlock and the recovery code take is one of a started hart.
LEMMA WaiterStarted ==
    ASSUME Apart, NEW m \in Mutex, MUTEXES[m].waiters # {}
    PROVE  LET w == HighestWaiter(MUTEXES[m].waiters) IN
           /\ w \in MUTEXES[m].waiters /\ w \in Slot
           /\ WaiterHart(w) \in Hart /\ InUser(WaiterHart(w)) /\ w \in Tasks[WaiterHart(w)]
<1>1. MUTEXES[m].waiters \subseteq Slot
  BY SMT DEF Apart, KernelMutex
<1>2. HighestWaiter(MUTEXES[m].waiters) \in MUTEXES[m].waiters
  BY <1>1, HighestWaiterFacts, Zenon
<1>3. HighestWaiter(MUTEXES[m].waiters) \in Nat
  BY <1>1, <1>2, SlotFacts, Zenon
<1>4. QED
  BY <1>1, <1>2, <1>3, WaiterHartType, Zenon DEF Apart

\* unlock, by the owner and by another task.
LEMMA UnlockMapped ==
    ASSUME Base, Apart, NEW h \in Hart, InUser(h), NEW m \in Mutex
    PROVE  /\ Sys4Unlock(h, m) => Booted!Sys4Unlock(h, m) /\ Untouched
           /\ Sys4UnlockPanics(h, m) => Booted!Sys4UnlockPanics(h, m) /\ Untouched
<1>1. (Booted!Traps(h) <=> Traps(h)) /\ Booted!Current(h) = Current(h)
  BY Reads, Zenon DEF Base
<1>2. ASSUME Sys4UnlockPanics(h, m) PROVE Booted!Sys4UnlockPanics(h, m) /\ Untouched
  <2>1. StartedHarts' = StartedHarts /\ StartedContexts' = StartedContexts /\ Untouched
    BY <1>2, KeptMapped, Zenon DEF Base, Sys4UnlockPanics
  <2>2. QED
    BY <1>1, <1>2, <2>1, Zenon DEF Sys4UnlockPanics, Booted!Sys4UnlockPanics
<1>3. ASSUME Sys4Unlock(h, m) PROVE Booted!Sys4Unlock(h, m) /\ Untouched
  <2> DEFINE w == HighestWaiter(MUTEXES[m].waiters)
  <2>1. /\ Traps(h) /\ m \in UnlockCaps[h][Current(h)]
        /\ MUTEXES[m].owner = Current(h)
        /\ MUTEXES' = [MUTEXES EXCEPT ![m] = HandedOver(@)]
        /\ msip' = IF MUTEXES[m].waiters # {} /\ WaiterHart(w) # h
                   THEN [msip EXCEPT ![WaiterHart(w)] = TRUE] ELSE msip
        /\ switch_task(h, IF MUTEXES[m].waiters # {}
                          THEN SetState(SCHEDULERS, WaiterHart(w), w, Ready) ELSE SCHEDULERS, FALSE)
        /\ UNCHANGED <<TICK_COUNT, timer, SCHED_LOCK, halted>>
    BY <1>3, Zenon DEF Sys4Unlock
  <2>2. /\ Booted!switch_task(h, IF MUTEXES[m].waiters # {}
                          THEN Booted!SetState(StartedHarts, WaiterHart(w), w, Ready)
                          ELSE StartedHarts, FALSE)
        /\ Untouched
    <3>1. CASE MUTEXES[m].waiters # {}
      <4>1. switch_task(h, SetState(SCHEDULERS, WaiterHart(w), w, Ready), FALSE)
        BY <2>1, <3>1, Zenon
      <4>2. WaiterHart(w) \in Hart /\ InUser(WaiterHart(w))
        BY <3>1, WaiterStarted, Zenon
      <4>3. Booted!switch_task(h, Booted!SetState(StartedHarts, WaiterHart(w), w, Ready), FALSE)
            /\ Untouched
        BY <4>1, <4>2, ChangeMapped, Zenon DEF Base
      <4>4. QED
        BY <3>1, <4>3, Zenon
    <3>2. CASE MUTEXES[m].waiters = {}
      <4>1. switch_task(h, SCHEDULERS, FALSE)
        BY <2>1, <3>2, Zenon
      <4>2. Booted!switch_task(h, StartedHarts, FALSE) /\ Untouched
        BY <4>1, PlainMapped, Zenon DEF Base
      <4>3. QED
        BY <3>2, <4>2, Zenon
    <3>3. QED
      BY <3>1, <3>2, Zenon
  <2>3. /\ Booted!HighestWaiter(MUTEXES[m].waiters) = w /\ Booted!WaiterHart(w) = WaiterHart(w)
        /\ Booted!Ready = Ready /\ Booted!HandedOver(MUTEXES[m]) = HandedOver(MUTEXES[m])
    BY SameOperators, Zenon
  <2>4. QED
    BY <1>1, <2>1, <2>2, <2>3, Zenon DEF Booted!Sys4Unlock
<1>4. QED
  BY <1>2, <1>3, Zenon

AllUnstarted == \A g \in Hart : ~InUser(g) => Unstarted(g)

\* Nobody is parked on an endpoint on a hart that has not started.
LEMMA ParkedMapped ==
    ASSUME Base, AllUnstarted, NEW kind \in {"BlockedOnIpcSend", "BlockedOnIpcRecv"}, NEW e
    PROVE  /\ Booted!Parked(kind, e) = Parked(kind, e)
           /\ Booted!FirstParked(kind, e) = FirstParked(kind, e)
           /\ \A p \in Parked(kind, e) : p[1] \in Hart /\ InUser(p[1])
<1>1. ASSUME NEW p \in Hart \X Slot
      PROVE  /\ (Booted!KindOf(p[1], p[2]) = kind /\ Booted!StateOf(p[1], p[2]).arg = e)
                   <=> (KindOf(p[1], p[2]) = kind /\ StateOf(p[1], p[2]).arg = e)
             /\ KindOf(p[1], p[2]) = kind => InUser(p[1])
  <2>1. p[1] \in Hart /\ p[2] \in Slot
    BY SMT
  <2>2. CASE InUser(p[1])
    BY <2>1, <2>2, Reads, Zenon DEF Base
  <2>3. CASE ~InUser(p[1])
    <3>1. KindOf(p[1], p[2]) \in {"Ready", "None"}
      BY <2>1, <2>3, UnstartedTable, Zenon DEF AllUnstarted
    <3>2. Booted!KindOf(p[1], p[2]) = Fresh(p[1]).task_table[p[2]].kind
      <4>1. StartedHarts[p[1]] = Fresh(p[1])
        <5>1. \A g \in Hart : ~InUser(g) => Over(SCHEDULERS)[g] = Fresh(g)
          BY OverFacts, Zenon
        <5>2. QED
          BY <2>1, <2>3, <5>1, Mapped, Zenon DEF Base
      <4>2. QED
        BY <4>1, Zenon DEF Booted!KindOf
    <3>3. Booted!KindOf(p[1], p[2]) \in {"Ready", "None", "Running"}
      BY <2>1, <3>2, FreshTable, Zenon
    <3>4. kind \notin {"Ready", "None", "Running"}
      OBVIOUS
    <3>5. QED
      BY <3>1, <3>3, <3>4, Zenon
  <2>4. QED
    BY <2>2, <2>3, Zenon
<1>2. Booted!Hart = Hart /\ Booted!Slot = Slot
  BY SameOperators, Zenon
<1>3. Booted!Parked(kind, e) = Parked(kind, e)
  <2>1. Booted!Parked(kind, e) = {p \in Hart \X Slot : Booted!KindOf(p[1], p[2]) = kind /\ Booted!StateOf(p[1], p[2]).arg = e}
    BY <1>2, Zenon DEF Booted!Parked
  <2>2. QED
    BY <1>1, <2>1, Zenon DEF Parked
<1>4. \A p \in Parked(kind, e) : p[1] \in Hart /\ InUser(p[1])
  BY <1>1, SMT DEF Parked
<1>5. Booted!FirstParked(kind, e) = FirstParked(kind, e)
  <2> DEFINE P == Parked(kind, e)
             Q == Booted!Parked(kind, e)
  <2>1. /\ FirstParked(kind, e) = CHOOSE p \in P : \A q \in P : p[1] < q[1] \/ (p[1] = q[1] /\ p[2] <= q[2])
        /\ Booted!FirstParked(kind, e) =
              CHOOSE p \in Q : \A q \in Q : p[1] < q[1] \/ (p[1] = q[1] /\ p[2] <= q[2])
    BY Zenon DEF FirstParked, Booted!FirstParked
  <2>2. P = Q
    BY <1>3, Zenon
  <2> HIDE DEF P, Q
  <2>3. QED
    BY <2>1, <2>2
<1>6. QED
  BY <1>3, <1>4, <1>5, Zenon

\* send and receive.
LEMMA RendezvousMapped ==
    ASSUME Base, AllUnstarted, NEW h \in Hart, InUser(h), NEW e,
           NEW peerKind \in {"BlockedOnIpcSend", "BlockedOnIpcRecv"}, NEW ownKind,
           Rendezvous(h, e, peerKind, ownKind)
    PROVE  Booted!Rendezvous(h, e, peerKind, ownKind) /\ Untouched
<1> DEFINE peer == FirstParked(peerKind, e)
<1>1. Booted!Parked(peerKind, e) = Parked(peerKind, e) /\ Booted!FirstParked(peerKind, e) = peer
  BY ParkedMapped, Zenon
<1>2. Booted!Current(h) = Current(h)
  BY Reads, Zenon DEF Base
<1>3. UNCHANGED <<MUTEXES, TICK_COUNT, timer, SCHED_LOCK, halted>>
  BY Zenon DEF Rendezvous
<1>4. CASE Parked(peerKind, e) # {}
  <2>1. /\ SCHEDULERS' = SetState(SCHEDULERS, peer[1], peer[2], Ready)
        /\ msip' = IF peer[1] # h THEN [msip EXCEPT ![peer[1]] = TRUE] ELSE msip
        /\ context' = context
    BY <1>4, Zenon DEF Rendezvous
  <2>2. peer[1] \in Hart /\ InUser(peer[1])
    BY <1>4, FirstParkedFacts, ParkedMapped, Zenon
  <2> HIDE DEF peer
  <2>3. /\ OnHarts(SCHEDULERS') /\ Over(SCHEDULERS') = SetState(Over(SCHEDULERS), peer[1], peer[2], Ready)
        /\ \A g \in Hart : ~InUser(g) => SCHEDULERS'[g] = SCHEDULERS[g]
    <3>1. LET T == SetState(SCHEDULERS, peer[1], peer[2], Ready) IN
          /\ OnHarts(T) /\ Over(T) = SetState(Over(SCHEDULERS), peer[1], peer[2], Ready)
          /\ \A g \in Hart : ~InUser(g) => T[g] = SCHEDULERS[g]
      BY <2>2, SetStateMapped DEF Base
    <3>2. QED
      BY <2>1, <3>1, Zenon
  <2>4. Untouched
    BY <2>1, <2>3, Zenon DEF Untouched, Base
  <2>5. StartedHarts' = Booted!SetState(StartedHarts, peer[1], peer[2], Ready) /\ StartedContexts' = StartedContexts
    BY <2>1, <2>3, <2>4, Mapped, MappedNext, SameOperators, Zenon DEF Base
  <2>6. QED
    BY <1>1, <1>3, <1>4, <2>1, <2>4, <2>5, SameOperators, Zenon DEF Booted!Rendezvous
<1>5. CASE Parked(peerKind, e) = {}
  <2>1. switch_task(h, SetState(SCHEDULERS, h, Current(h), State(ownKind, e)), FALSE) /\ msip' = msip
    BY <1>5, Zenon DEF Rendezvous
  <2>2. Booted!switch_task(h, Booted!SetState(StartedHarts, h, Current(h), State(ownKind, e)), FALSE)
        /\ Untouched
    BY <2>1, ChangeMapped, Zenon DEF Base
  <2>3. QED
    BY <1>1, <1>2, <1>3, <1>5, <2>1, <2>2, SameOperators, Zenon DEF Booted!Rendezvous
<1>6. QED
  BY <1>4, <1>5, Zenon

\* send and receive.
LEMMA ExchangeMapped ==
    ASSUME Base, AllUnstarted, NEW h \in Hart, InUser(h), NEW e
    PROVE  /\ Sys6Send(h, e) => Booted!Sys6Send(h, e) /\ Untouched
           /\ Sys7Recv(h, e) => Booted!Sys7Recv(h, e) /\ Untouched
<1>1. (Booted!Traps(h) <=> Traps(h)) /\ Booted!Current(h) = Current(h)
  BY Reads, Zenon DEF Base
<1>2. ASSUME Sys6Send(h, e) PROVE Booted!Sys6Send(h, e) /\ Untouched
  <2>1. Booted!Rendezvous(h, e, "BlockedOnIpcRecv", "BlockedOnIpcSend") /\ Untouched
    BY <1>2, RendezvousMapped, Zenon DEF Sys6Send
  <2>2. QED
    BY <1>1, <1>2, <2>1, Zenon DEF Sys6Send, Booted!Sys6Send
<1>3. ASSUME Sys7Recv(h, e) PROVE Booted!Sys7Recv(h, e) /\ Untouched
  <2>1. Booted!Rendezvous(h, e, "BlockedOnIpcSend", "BlockedOnIpcRecv") /\ Untouched
    BY <1>3, RendezvousMapped, Zenon DEF Sys7Recv
  <2>2. QED
    BY <1>1, <1>3, <2>1, Zenon DEF Sys7Recv, Booted!Sys7Recv
<1>4. QED
  BY <1>2, <1>3, Zenon

\* A termination and the recovery of the task's mutexes, on harts that have
\* started.
LEMMA TerminationMapped ==
    ASSUME Base, Apart, AllUnstarted, NEW h \in Hart, InUser(h), NEW i
    PROVE  LET T == TerminatedAndRecovered(h, i) IN
           /\ OnHarts(T)
           /\ Over(T) = Booted!TerminatedAndRecovered(h, i)
           /\ \A g \in Hart : ~InUser(g) => T[g] = SCHEDULERS[g]
           /\ Booted!Recovered(i) = Recovered(i)
<1> DEFINE T == TerminatedAndRecovered(h, i)
           U == Booted!TerminatedAndRecovered(h, i)
<1>1. Booted!Recovered(i) = Recovered(i) /\ Booted!NewOwners(i) = NewOwners(i)
  BY Zenon DEF Booted!Recovered, Recovered, Booted!NewOwners, NewOwners, Booted!HandedOver,
     HandedOver,
     Booted!HighestWaiter, HighestWaiter, Booted!NoOwner, NoOwner
<1>2. \A j \in NewOwners(i) : InUser(WaiterHart(j))
  BY WaiterStarted, Zenon DEF NewOwners
<1> DEFINE row(g) == [j \in Slot |->
              IF j \in NewOwners(i) /\ g = WaiterHart(j) /\ KindOf(g, j) # "None" THEN Ready
              ELSE IF g = h /\ j = i THEN Terminated
              ELSE StateOf(g, j)]
           brow(g) == [j \in Slot |->
              IF j \in NewOwners(i) /\ g = WaiterHart(j) /\ Booted!KindOf(g, j) # "None" THEN Ready
              ELSE IF g = h /\ j = i THEN Terminated
              ELSE Booted!StateOf(g, j)]
<1>3. T = [g \in Hart |-> [SCHEDULERS[g] EXCEPT !.task_table = row(g)]]
  BY Zenon DEF TerminatedAndRecovered
<1>4. U = [g \in Hart |-> [StartedHarts[g] EXCEPT !.task_table = brow(g)]]
  <2>1. /\ Booted!Hart = Hart /\ Booted!Slot = Slot /\ Booted!Ready = Ready
        /\ Booted!Terminated = Terminated /\ \A w : Booted!WaiterHart(w) = WaiterHart(w)
    BY SameOperators, Zenon
  <2>2. U = [g \in Booted!Hart |-> [StartedHarts[g] EXCEPT !.task_table =
              [j \in Booted!Slot |->
                IF j \in Booted!NewOwners(i) /\ g = Booted!WaiterHart(j) /\ Booted!KindOf(g, j) # "None"
                THEN Booted!Ready
                ELSE IF g = h /\ j = i THEN Booted!Terminated
                ELSE Booted!StateOf(g, j)]]]
    BY Zenon DEF Booted!TerminatedAndRecovered
  <2>3. QED
    BY <1>1, <2>1, <2>2
<1>5. ASSUME NEW g \in Hart, InUser(g)
      PROVE  Over(T)[g] = U[g]
  <2>1. StartedHarts[g] = SCHEDULERS[g]
        /\ \A j : Booted!KindOf(g, j) = KindOf(g, j) /\ Booted!StateOf(g, j) = StateOf(g, j)
    BY <1>5, Reads, Zenon DEF Base
  <2>2. brow(g) = row(g)
    BY <2>1
  <2>3. Over(T)[g] = T[g]
    BY <1>5, OverFacts, Zenon
  <2> HIDE DEF row, brow, T, U
  <2>4. QED
    BY <1>3, <1>4, <2>1, <2>2, <2>3
<1>6. ASSUME NEW g \in Hart, ~InUser(g)
      PROVE  T[g] = SCHEDULERS[g] /\ Over(T)[g] = U[g]
  <2>1. g # h /\ \A j \in NewOwners(i) : g # WaiterHart(j)
    BY <1>2, <1>6, Zenon
  <2>2. row(g) = [j \in Slot |-> StateOf(g, j)] /\ brow(g) = [j \in Slot |-> Booted!StateOf(g, j)]
    BY <2>1, Zenon
  <2>3. StartedHarts[g] = Fresh(g)
    <3>1. \A f \in Hart : ~InUser(f) => Over(SCHEDULERS)[f] = Fresh(f)
      BY OverFacts, Zenon
    <3>2. QED
      BY <1>6, <3>1, Mapped, Zenon DEF Base
  <2>4. \A j : Booted!StateOf(g, j) = Fresh(g).task_table[j]
    BY <2>3, Zenon DEF Booted!StateOf
  <2>5. brow(g) = [j \in Slot |-> Fresh(g).task_table[j]]
    BY <2>2, <2>4, Zenon
  <2>6. Over(T)[g] = Fresh(g)
    BY <1>6, OverFacts, Zenon
  <2>7. Unstarted(g)
    BY <1>6, Zenon DEF AllUnstarted
  <2> HIDE DEF row, brow, T, U
  <2>8. T[g] = [SCHEDULERS[g] EXCEPT !.task_table = row(g)] /\ U[g] = [StartedHarts[g] EXCEPT !.task_table = brow(g)]
    BY <1>3, <1>4, Zenon
  <2>9. QED
    BY <2>2, <2>3, <2>5, <2>6, <2>7, <2>8, UnstartedTable, FreshTable, Zenon
<1>7. OnHarts(T) /\ OnHarts(U)
  BY <1>3, <1>4, Zenon DEF OnHarts
<1>8. Over(T) = U
  <2> HIDE DEF T, U
  <2>1. \A g \in Hart : Over(T)[g] = U[g]
    BY <1>5, <1>6, Zenon
  <2>2. QED
    BY <1>7, <2>1, OverFacts, SameOnHarts, Zenon
<1>9. QED
  BY <1>1, <1>6, <1>7, <1>8, Zenon

\* A contained fault.
LEMMA FaultMapped ==
    ASSUME Base, Apart, AllUnstarted, NEW h \in Hart, InUser(h), Fault(h)
    PROVE  Booted!Fault(h) /\ Untouched
<1> DEFINE T == TerminatedAndRecovered(h, Current(h))
<1>1. /\ Traps(h) /\ MUTEXES' = Recovered(Current(h)) /\ switch_task(h, T, FALSE)
      /\ UNCHANGED <<TICK_COUNT, timer, msip, SCHED_LOCK, halted>>
  BY Zenon DEF Fault
<1>2. (Booted!Traps(h) <=> Traps(h)) /\ Booted!Current(h) = Current(h)
  BY Reads, Zenon DEF Base
<1>3. /\ OnHarts(T) /\ Over(T) = Booted!TerminatedAndRecovered(h, Current(h))
      /\ \A g \in Hart : ~InUser(g) => T[g] = SCHEDULERS[g]
      /\ Booted!Recovered(Current(h)) = Recovered(Current(h))
  BY TerminationMapped, Zenon
<1> HIDE DEF T
<1>4. Booted!switch_task(h, Over(T), FALSE) /\ Untouched
  BY <1>1, <1>3, SwitchMapped, Zenon DEF Base
<1>5. QED
  BY <1>1, <1>2, <1>3, <1>4, Zenon DEF Booted!Fault

\* The watchdog's steps, once both harts have started.
LEMMA TerminateMapped ==
    ASSUME Base, Apart, InUser(0), InUser(1), NEW i, Sys8Terminate(i)
    PROVE  Booted!Sys8Terminate(i) /\ Untouched
<1> DEFINE h == IF KindOf(0, i) # "None" THEN 0 ELSE 1
           T == TerminatedAndRecovered(h, i)
<1>1. h \in Hart /\ InUser(h) /\ 0 \in Hart /\ 1 \in Hart /\ AllUnstarted
  BY Zenon DEF Hart, AllUnstarted
<1>2. /\ Scanning /\ KindOf(h, i) # "None" /\ SCHEDULERS' = T /\ MUTEXES' = Recovered(i)
      /\ msip' = (IF h # 0 THEN [msip EXCEPT ![h] = TRUE] ELSE msip)
      /\ UNCHANGED <<TICK_COUNT, timer, context, SCHED_LOCK, halted>>
  BY Zenon DEF Sys8Terminate
<1>3. Booted!KindOf(0, i) = KindOf(0, i) /\ (Booted!Scanning <=> Scanning)
  BY <1>1, Reads, Zenon DEF Base
<1>4. Booted!KindOf(h, i) = KindOf(h, i)
  BY <1>1, Reads, Zenon DEF Base
<1> HIDE DEF h
<1>5. /\ OnHarts(T) /\ Over(T) = Booted!TerminatedAndRecovered(h, i)
      /\ \A g \in Hart : ~InUser(g) => T[g] = SCHEDULERS[g]
      /\ Booted!Recovered(i) = Recovered(i)
  BY <1>1, TerminationMapped, Zenon
<1> HIDE DEF T
<1>6. Untouched
  BY <1>2, <1>5, Zenon DEF Untouched, Base
<1>7. StartedHarts' = Booted!TerminatedAndRecovered(h, i) /\ StartedContexts' = StartedContexts
  BY <1>2, <1>5, <1>6, Mapped, MappedNext, Zenon DEF Base
<1>8. h = IF Booted!KindOf(0, i) # "None" THEN 0 ELSE 1
  BY <1>3, Zenon DEF h
<1>9. QED
  BY <1>2, <1>3, <1>4, <1>5, <1>6, <1>7, <1>8, Zenon DEF Booted!Sys8Terminate

\* The watchdog's lock, and its restart of a task of a started hart.
LEMMA ScanMapped ==
    ASSUME Base, InUser(0)
    PROVE  /\ WatchdogLocks => Booted!WatchdogLocks /\ Untouched
           /\ WatchdogUnlocks => Booted!WatchdogUnlocks /\ Untouched
           /\ \A g \in Hart : \A i : InUser(g) /\ WatchdogRestarts(g, i) =>
                 Booted!WatchdogRestarts(g, i) /\ Untouched
<1>1. 0 \in Hart
  BY Zenon DEF Hart
<1>2. (Booted!Scanning <=> Scanning) /\ Booted!Current(0) = Current(0)
  BY <1>1, Reads, Zenon DEF Base
<1>3. ASSUME WatchdogLocks \/ WatchdogUnlocks
      PROVE  StartedHarts' = StartedHarts /\ StartedContexts' = StartedContexts /\ Untouched
  BY <1>3, KeptMapped, Zenon DEF Base, WatchdogLocks, WatchdogUnlocks
<1>4. WatchdogLocks => Booted!WatchdogLocks /\ Untouched
  BY <1>2, <1>3, SameOperators, Zenon DEF WatchdogLocks, Booted!WatchdogLocks
<1>5. WatchdogUnlocks => Booted!WatchdogUnlocks /\ Untouched
  BY <1>2, <1>3, Zenon DEF WatchdogUnlocks, Booted!WatchdogUnlocks
<1>6. ASSUME NEW g \in Hart, NEW i, InUser(g), WatchdogRestarts(g, i)
      PROVE  Booted!WatchdogRestarts(g, i) /\ Untouched
  <2> DEFINE row == [context[g] EXCEPT ![i] = "fresh"]
  <2>1. /\ Scanning /\ KindOf(g, i) = "Terminated"
        /\ SCHEDULERS' = SetState(SCHEDULERS, g, i, Ready)
        /\ context' = [context EXCEPT ![g] = row]
        /\ UNCHANGED <<MUTEXES, TICK_COUNT, timer, msip, SCHED_LOCK, halted>>
    BY <1>6 DEF WatchdogRestarts
  <2>2. Booted!KindOf(g, i) = KindOf(g, i) /\ StartedContexts[g] = context[g]
    BY <1>6, Reads, Zenon DEF Base
  <2>3. LET T == SetState(SCHEDULERS, g, i, Ready) IN
        /\ OnHarts(T) /\ Over(T) = SetState(Over(SCHEDULERS), g, i, Ready)
        /\ \A f \in Hart : ~InUser(f) => T[f] = SCHEDULERS[f]
    BY <1>6, SetStateMapped DEF Base
  <2> HIDE DEF row
  <2>4. OnHarts(context') /\ context'[g] = row /\ \A f \in Hart : f # g => context'[f] = context[f]
    BY <2>1, SMT DEF OnHarts, Base
  <2>5. Untouched
    BY <1>6, <2>1, <2>3, <2>4, Zenon DEF Untouched, Base
  <2>6. OverC(context') = [OverC(context) EXCEPT ![g] = context'[g]]
    <3>1. \A f \in Hart : f # g => context'[f] = context[f]
      BY <2>4, Zenon
    <3>2. InUser(g)
      BY <1>6, Zenon
    <3>3. QED
      BY <3>1, <3>2, OneReplacedC
  <2>7. /\ StartedHarts' = Booted!SetState(StartedHarts, g, i, Ready)
        /\ StartedContexts' = [StartedContexts EXCEPT ![g] = row]
    BY <2>1, <2>3, <2>4, <2>5, <2>6, Mapped, MappedNext, SameOperators, Zenon DEF Base
  <2>8. [StartedContexts EXCEPT ![g][i] = "fresh"] = [StartedContexts EXCEPT ![g] = row]
    BY <2>2 DEF row
  <2>9. QED
    BY <1>2, <2>1, <2>2, <2>5, <2>7, <2>8, SameOperators, Zenon DEF Booted!WatchdogRestarts
<1>7. QED
  BY <1>4, <1>5, <1>6, Zenon

-----------------------------------------------------------------------------
(* The programs                                                             *)

\* The operators of System that read only the programs' variables.
LEMMA SamePrograms ==
    /\ Booted!Monitored = Monitored /\ Booted!A = A /\ Booted!B = B /\ Booted!C = C
    /\ Booted!HSM = HSM
    /\ \A i : Booted!HartOf(i) = HartOf(i)
    /\ \A i : Booted!NextCall(i) = NextCall(i) /\ Booted!After(i) = After(i)
    /\ \A i : Booted!Elapsed(i) = Elapsed(i)
    /\ \A i : Booted!Computes(i) <=> Computes(i)
<1>1. /\ Booted!Monitored = Monitored /\ Booted!A = A /\ Booted!B = B /\ Booted!C = C
      /\ Booted!HSM = HSM /\ Booted!task_a = task_a /\ Booted!task_b = task_b
      /\ Booted!task_c = task_c /\ Booted!hsm_task = hsm_task
  BY Zenon DEF Booted!Monitored, Monitored, Booted!A, A, Booted!B, B, Booted!C, C, Booted!HSM, HSM,
     Booted!task_a, task_a, Booted!task_b, task_b, Booted!task_c, task_c, Booted!hsm_task, hsm_task
<1>2. \A i : Booted!Program(i) = Program(i)
  BY <1>1, SMT DEF Booted!Program, Program
<1>3. \A i : Booted!NextCall(i) = NextCall(i)
  BY <1>2, Zenon DEF Booted!NextCall, NextCall
<1>4. \A i : Booted!After(i) = After(i)
  BY <1>2, <1>3, Zenon DEF Booted!After, After
<1>5. /\ \A i : Booted!HartOf(i) = HartOf(i)
      /\ \A i : Booted!Elapsed(i) = Elapsed(i)
      /\ \A i : Booted!Computes(i) <=> Computes(i)
  BY <1>1, Zenon DEF Booted!HartOf, HartOf, Booted!Elapsed, Elapsed, Booted!Computes, Computes
<1>6. QED
  BY <1>1, <1>3, <1>4, <1>5, Zenon

\* Which harts the partitions sit on.
LEMMA HartsOfPartitions ==
    /\ A \in Monitored /\ C \in Monitored /\ HSM \in Monitored
    /\ HartOf(C) = 1 /\ HartOf(HSM) = 0
    /\ 0 \in Hart /\ 1 \in Hart /\ \A i : HartOf(i) \in Hart
BY SMT DEF A, C, HSM, B, Monitored, HartOf, Hart

\* Task C starts anew in the one if it does in the other; on a hart that has
\* not started the frame of the first task is loaded already.
LEMMA AnewMapped ==
    ASSUME Base, AllUnstarted, Untouched
    PROVE  Booted!StartsAnew <=> StartsAnew
<1>1. 1 \in Hart /\ Booted!C = C
  BY HartsOfPartitions, SamePrograms, Zenon
<1>2. StartedContexts' = OverC(context') /\ StartedContexts = OverC(context)
      /\ StartedHarts = Over(SCHEDULERS)
  BY Mapped, MappedNext, Zenon DEF Base
<1>3. CASE InUser(1)
  <2>1. /\ Booted!Current(1) = Current(1) /\ StartedContexts[1] = context[1]
    BY <1>1, <1>3, Reads, Zenon DEF Base
  <2>2. StartedContexts'[1] = context'[1]
    BY <1>1, <1>2, <1>3, OverFacts, Zenon
  <2>3. QED
    BY <1>1, <2>1, <2>2, Zenon DEF StartsAnew, Booted!StartsAnew
<1>4. CASE ~InUser(1)
  <2>1. C \in Slot
    <3>1. Monitored \subseteq Targets /\ Targets \subseteq Slot
      BY RegistrationAssumption, KernelAssumption, Zenon
    <3>2. QED
      BY <3>1, HartsOfPartitions, Zenon
  <2>2. context[1] = [i \in Slot |-> "fresh"] /\ context'[1] = context[1]
    BY <1>1, <1>4, Zenon DEF AllUnstarted, Unstarted, Untouched
  <2>3. ~StartsAnew
    BY <2>1, <2>2 DEF StartsAnew
  <2>4. Booted!Current(1) = Fresh(1).current
    BY <1>1, <1>2, <1>4, OverFacts, Zenon DEF Booted!Current
  <2>5. StartedContexts[1] = [context[1] EXCEPT ![Fresh(1).current] = "live"]
    BY <1>1, <1>2, <1>4, OverFacts, Zenon
  <2>6. Fresh(1).current = C => StartedContexts[1][C] = "live"
    BY <2>1, <2>2, <2>5
  <2>7. ~Booted!StartsAnew
    BY <1>1, <2>4, <2>6 DEF Booted!StartsAnew
  <2>8. QED
    BY <2>3, <2>7, Zenon
<1>5. QED
  BY <1>3, <1>4, Zenon

\* The calls of the partitions.
LEMMA CallsMapped ==
    ASSUME Base, Apart, AllUnstarted, NEW h \in Hart, InUser(h), Calls(h)
    PROVE  Booted!Calls(h) /\ Untouched
<1> DEFINE i == Current(h)
           call == NextCall(i)[1]
           arg  == NextCall(i)[2]
<1>1. /\ i \in Monitored
      /\ \/ call = "checkin" /\ Sys5Checkin(h)
         \/ /\ \/ call = "lock" /\ Sys3Lock(h, arg)
               \/ call = "unlock" /\ (Sys4Unlock(h, arg) \/ Sys4UnlockPanics(h, arg))
               \/ call = "send" /\ Sys6Send(h, arg)
               \/ call = "recv" /\ Sys7Recv(h, arg)
               \/ call \in {"yield", "spin"} /\ Sys1Yield(h)
               \/ call = "hang" /\ Traps(h) /\ UNCHANGED vars
               \/ call = "fault" /\ Fault(h)
            /\ UNCHANGED LAST_CHECKIN_TICK
      /\ at' = [at EXCEPT ![i] = IF i = C /\ StartsAnew THEN 1 ELSE After(i)]
      /\ tc' = IF i = C /\ StartsAnew THEN TEST_COUNTER ELSE tc
      /\ loops' = IF i = B /\ call = "yield" /\ loops < LOOPS THEN loops + 1 ELSE loops
      /\ UNCHANGED <<TEST_COUNTER, faults, unanswered, watchdogVars, clockVars>>
  BY Zenon DEF Calls
<1>2. (Booted!Traps(h) <=> Traps(h)) /\ Booted!Current(h) = i
  BY Reads, Zenon DEF Base
<1>3. /\ Booted!Monitored = Monitored /\ Booted!B = B /\ Booted!C = C
      /\ Booted!NextCall(i) = NextCall(i) /\ Booted!After(i) = After(i)
  BY SamePrograms, Zenon
<1>4. ASSUME UNCHANGED vars
      PROVE  UNCHANGED Booted!vars /\ Untouched
  BY <1>4, KeptMapped, Zenon DEF Base, vars, Booted!vars
<1>5. Sys5Checkin(h) => Booted!Sys5Checkin(h) /\ Untouched
  BY <1>2, <1>4, Zenon DEF Sys5Checkin, Booted!Sys5Checkin
<1>6. i \in Slot
  <2>1. Monitored \subseteq Targets /\ Targets \subseteq Slot
    BY RegistrationAssumption, KernelAssumption, Zenon
  <2>2. QED
    BY <1>1, <2>1, Zenon
<1>7. \A m : m \in UnlockCaps[h][i] => m \in Mutex
  BY <1>6, CapabilityAssumption, SMT
<1>8. Sys4Unlock(h, arg) \/ Sys4UnlockPanics(h, arg) => arg \in Mutex
  BY <1>7, Zenon DEF Sys4Unlock, Sys4UnlockPanics
<1> HIDE DEF i, call, arg
<1>9. /\ Sys3Lock(h, arg) => Booted!Sys3Lock(h, arg) /\ Untouched
      /\ Sys4Unlock(h, arg) => Booted!Sys4Unlock(h, arg) /\ Untouched
      /\ Sys4UnlockPanics(h, arg) => Booted!Sys4UnlockPanics(h, arg) /\ Untouched
      /\ Sys6Send(h, arg) => Booted!Sys6Send(h, arg) /\ Untouched
      /\ Sys7Recv(h, arg) => Booted!Sys7Recv(h, arg) /\ Untouched
      /\ Sys1Yield(h) => Booted!Sys1Yield(h) /\ Untouched
      /\ Fault(h) => Booted!Fault(h) /\ Untouched
  BY <1>8, LockMapped, UnlockMapped, ExchangeMapped, YieldMapped, FaultMapped, Zenon
<1>10. Untouched
  BY <1>1, <1>4, <1>5, <1>9, Zenon
<1>11. \/ call = "checkin" /\ Booted!Sys5Checkin(h)
       \/ /\ \/ call = "lock" /\ Booted!Sys3Lock(h, arg)
             \/ call = "unlock" /\ (Booted!Sys4Unlock(h, arg) \/ Booted!Sys4UnlockPanics(h, arg))
             \/ call = "send" /\ Booted!Sys6Send(h, arg)
             \/ call = "recv" /\ Booted!Sys7Recv(h, arg)
             \/ call \in {"yield", "spin"} /\ Booted!Sys1Yield(h)
             \/ call = "hang" /\ Booted!Traps(h) /\ UNCHANGED Booted!vars
             \/ call = "fault" /\ Booted!Fault(h)
          /\ UNCHANGED LAST_CHECKIN_TICK
  BY <1>1, <1>2, <1>4, <1>5, <1>9, Zenon
<1>12. /\ at' = [at EXCEPT ![i] = IF i = C /\ Booted!StartsAnew THEN 1 ELSE After(i)]
       /\ tc' = IF i = C /\ Booted!StartsAnew THEN TEST_COUNTER ELSE tc
  <2>1. Booted!StartsAnew <=> StartsAnew
    BY <1>10, AnewMapped, Zenon
  <2>2. CASE StartsAnew
    BY <1>1, <2>1, <2>2, Zenon
  <2>3. CASE ~StartsAnew
    BY <1>1, <2>1, <2>3, Zenon
  <2>4. QED
    BY <2>2, <2>3, Zenon
<1>13. QED
  BY <1>1, <1>2, <1>3, <1>10, <1>11, <1>12, Zenon
     DEF Booted!Calls, call, arg, watchdogVars, Booted!watchdogVars,
     clockVars, Booted!clockVars

\* The ticks, which come when both harts have started.
LEMMA TicksMapped ==
    ASSUME Base, InUser(0), InUser(1), NEW h \in Hart
    PROVE  /\ Ticks(h) => Booted!Ticks(h) /\ Untouched
           /\ Handles(h) => Booted!Handles(h) /\ Untouched
<1>1. \A g \in Hart : InUser(g)
  BY Zenon DEF Hart
<1>2. ASSUME NEW g \in Hart
      PROVE  /\ Booted!Current(g) = Current(g)
             /\ Booted!ReadyPartitions(StartedHarts[g]) = ReadyPartitions(SCHEDULERS[g])
  BY <1>1, Reads, SameSchedule, Zenon DEF Base
<1>3. ASSUME NEW g \in Hart
      PROVE  /\ Booted!Spins(g) <=> Spins(g)
             /\ Booted!Interruptible(g) <=> Interruptible(g)
  BY <1>2, SameOperators, SamePrograms, Zenon
     DEF Booted!Spins, Spins, Booted!Interruptible, Interruptible
<1>4. Booted!MayTick(h) <=> MayTick(h)
  BY <1>3, SameOperators, Zenon DEF Booted!MayTick, MayTick
<1>5. /\ TimerEntry(h) => Booted!TimerEntry(h) /\ Untouched
      /\ TimerInterrupt(h) => Booted!TimerInterrupt(h) /\ Untouched
      /\ SoftwareInterrupt(h) => Booted!SoftwareInterrupt(h) /\ Untouched
  BY <1>1, TimerMapped, Zenon
<1>6. (\A g \in Booted!Hart : Booted!Spins(g)) <=> (\A g \in Hart : Spins(g))
  BY <1>3, SameOperators, Zenon
<1>7. Ticks(h) => Booted!Ticks(h) /\ Untouched
  <2>1. SUFFICES ASSUME Ticks(h) PROVE Booted!Ticks(h) /\ Untouched
    BY Zenon
  <2>2. hits' = IF \A g \in Booted!Hart : Booted!Spins(g) THEN hits ELSE hits + 1
    <3>1. hits' = IF \A g \in Hart : Spins(g) THEN hits ELSE hits + 1
      BY <2>1, Zenon DEF Ticks
    <3>2. QED
      BY <1>6, <3>1, SMT
  <2>3. QED
    BY <1>4, <1>5, <2>1, <2>2, Zenon DEF Ticks, Booted!Ticks, programVars, Booted!programVars,
       watchdogVars, Booted!watchdogVars
<1>8. Handles(h) => Booted!Handles(h) /\ Untouched
  <2>1. SUFFICES ASSUME Handles(h) PROVE Booted!Handles(h) /\ Untouched
    BY Zenon
  <2>2. Untouched /\ (Booted!TimerInterrupt(h) \/ Booted!SoftwareInterrupt(h))
    BY <1>5, <2>1, Zenon DEF Handles
  <2>3. Booted!StartsAnew <=> StartsAnew
    BY <1>1, <2>2, AnewMapped, Zenon DEF AllUnstarted
  <2>4. Booted!C = C
    BY SamePrograms, Zenon
  <2>5. CASE StartsAnew
    BY <2>1, <2>2, <2>3, <2>4, <2>5, Zenon DEF Handles, Booted!Handles,
       watchdogVars, Booted!watchdogVars, clockVars, Booted!clockVars
  <2>6. CASE ~StartsAnew
    BY <2>1, <2>2, <2>3, <2>4, <2>6, Zenon DEF Handles, Booted!Handles,
       watchdogVars, Booted!watchdogVars, clockVars, Booted!clockVars
  <2>7. QED
    BY <2>5, <2>6, Zenon
<1>9. QED
  BY <1>7, <1>8, Zenon

\* Before both harts have started no time has passed: no partition is late.
LEMMA NobodyLate ==
    ASSUME Apart, ~(InUser(0) /\ InUser(1)), NEW i \in Monitored
    PROVE  ~Failed(i) /\ ~Booted!Failed(i)
<1>1. current_tick = 0 /\ LAST_CHECKIN_TICK[i] = 0
  BY Zenon DEF Apart
<1>2. Elapsed(i) = 0
  <2>1. TICK_MOD \in Nat /\ TICK_MOD > 0
    BY KernelAssumption, Zenon
  <2>2. (0 - 0) % TICK_MOD = 0
    BY <2>1, SMT
  <2>3. QED
    BY <1>1, <2>2, Zenon DEF Elapsed
<1>3. GRACE \in Nat
  BY SystemAssumption, Zenon
<1>4. ~(0 > GRACE)
  BY <1>3, SMT
<1>5. QED
  BY <1>1, <1>2, <1>4, SamePrograms, SMT DEF Failed, Booted!Failed

\* The watchdog finds late whom it would find late if both harts had started.
LEMMA FailedMapped ==
    ASSUME Base, Apart, InUser(0), NEW i \in Monitored
    PROVE  Booted!Failed(i) <=> Failed(i)
<1>1. CASE InUser(1)
  <2>1. InUser(HartOf(i)) /\ HartOf(i) \in Hart
    BY <1>1, HartsOfPartitions, Zenon DEF Hart
  <2>2. Booted!KindOf(HartOf(i), i) = KindOf(HartOf(i), i)
    BY <2>1, Reads, Zenon DEF Base
  <2>3. QED
    BY <2>2, SamePrograms, Zenon DEF Failed, Booted!Failed
<1>2. CASE ~InUser(1)
  BY <1>2, NobodyLate, Zenon
<1>3. QED
  BY <1>1, <1>2, Zenon

\* Task C has a test left only when hart 1 has started.
LEMMA TestLeftMapped ==
    ASSUME Base, AllUnstarted
    PROVE  /\ Booted!TestLeft <=> TestLeft
           /\ TestLeft => InUser(1)
<1>1. 1 \in Hart
  BY HartsOfPartitions, Zenon
<1>2. CASE InUser(1)
  BY <1>1, <1>2, Reads, SamePrograms, Zenon DEF Base, TestLeft, Booted!TestLeft
<1>3. CASE ~InUser(1)
  <2>1. Unstarted(1)
    BY <1>1, <1>3, Zenon DEF AllUnstarted
  <2>2. C \in Slot
    <3>1. C \in Targets /\ Targets \subseteq Slot
      BY HartsOfPartitions, RegistrationAssumption, KernelAssumption, Zenon
    <3>2. QED
      BY <3>1, Zenon
  <2>3. KindOf(1, C) # "Terminated"
    <3>1. KindOf(1, C) \in {"Ready", "None"}
      BY <1>1, <2>1, <2>2, UnstartedTable, Zenon
    <3>2. QED
      BY <3>1, SMT
  <2>4. Booted!KindOf(1, C) # "Terminated"
    <3>1. \A g \in Hart : ~InUser(g) => Over(SCHEDULERS)[g] = Fresh(g)
      BY OverFacts, Zenon
    <3>2. StartedHarts[1] = Fresh(1)
      BY <1>1, <1>3, <3>1, Mapped, Zenon DEF Base
    <3>3. Fresh(1).task_table[C].kind \in {"Ready", "None", "Running"}
      BY <1>1, <2>2, FreshTable, Zenon
    <3>4. Fresh(1).task_table[C].kind # "Terminated"
      BY <3>3, SMT
    <3>5. QED
      BY <3>2, <3>4, Zenon DEF Booted!KindOf
  <2>5. QED
    BY <2>3, <2>4, SamePrograms, Zenon DEF TestLeft, Booted!TestLeft
<1>4. QED
  BY <1>2, <1>3, Zenon

\* The watchdog's loop.
LEMMA WatchdogMapped ==
    ASSUME Base, Apart, AllUnstarted, InUser(0), watchdog_task
    PROVE  Booted!watchdog_task /\ Untouched
<1>1. 0 \in Hart /\ 1 \in Hart /\ HSM \in Monitored
  BY HartsOfPartitions, Zenon
<1>2. /\ Booted!Current(0) = Current(0) /\ (Booted!Scanning <=> Scanning)
      /\ \A i : Booted!KindOf(0, i) = KindOf(0, i)
  BY <1>1, Reads, Zenon DEF Base
<1>3. \A s : Booted!At(s) <=> At(s)
  BY <1>2, SameOperators, Zenon DEF At, Booted!At
<1>4. Booted!Owes <=> Owes
  BY <1>2, SamePrograms, Zenon DEF Owes, Booted!Owes
<1>5. ASSUME UNCHANGED vars
      PROVE  UNCHANGED Booted!vars /\ Untouched
  BY <1>5, KeptMapped, Zenon DEF Base, vars, Booted!vars
<1>6. \A i \in Monitored : Booted!Failed(i) <=> Failed(i)
  BY FailedMapped, Zenon
<1>7. Booted!programVars = programVars /\ Booted!clockVars = clockVars
  BY Zenon DEF Booted!programVars, programVars, Booted!clockVars, clockVars
<1>8. CASE WatchdogSleeps
  <2>1. Booted!Sys2Sleep(0, PERIOD) /\ Untouched
    BY <1>1, <1>8, YieldMapped, Zenon DEF WatchdogSleeps
  <2>2. QED
    BY <1>3, <1>8, <2>1, Zenon DEF WatchdogSleeps, Booted!WatchdogSleeps, Booted!watchdog_task,
       programVars, Booted!programVars, clockVars, Booted!clockVars
<1>9. CASE WatchdogLoads
  BY <1>3, <1>5, <1>9, SameOperators, Zenon
     DEF WatchdogLoads, Booted!WatchdogLoads, Booted!watchdog_task,
     programVars, Booted!programVars, clockVars, Booted!clockVars
<1>10. CASE WatchdogStartsScan
  <2>1. Booted!WatchdogLocks /\ Untouched
    BY <1>10, ScanMapped, Zenon DEF WatchdogStartsScan
  <2>2. QED
    BY <1>3, <1>10, <2>1, Zenon DEF WatchdogStartsScan, Booted!WatchdogStartsScan,
       Booted!watchdog_task,
       programVars, Booted!programVars, clockVars, Booted!clockVars
<1>11. CASE WatchdogEndsScan
  <2>1. Booted!WatchdogUnlocks /\ Untouched
    BY <1>11, ScanMapped, Zenon DEF WatchdogEndsScan
  <2>2. QED
    BY <1>3, <1>11, <2>1, Zenon DEF WatchdogEndsScan, Booted!WatchdogEndsScan, Booted!watchdog_task,
       programVars, Booted!programVars, clockVars, Booted!clockVars
<1>12. CASE WatchdogChecks
  <2>1. \/ (\A i \in Monitored : ~Failed(i)) /\ UNCHANGED vars
        \/ (\E i \in Monitored : Failed(i)) /\ Sys8Terminate(failed_task)
    BY <1>12, Zenon DEF WatchdogChecks
  <2>2. ASSUME NEW i \in Monitored, Failed(i) PROVE InUser(1)
    BY <2>2, NobodyLate, Zenon
  <2>3. Booted!failed_task = failed_task
    <3>1. {j \in Booted!Monitored : Booted!Failed(j)} = {j \in Monitored : Failed(j)}
      BY <1>6, SamePrograms, Zenon
    <3>2. \A i : (\A j \in Booted!Monitored : Booted!Failed(j) => j <= i) <=>
                 (\A j \in Monitored : Failed(j) => j <= i)
      BY <1>6, SamePrograms, Zenon
    <3>3. QED
      BY <3>1, <3>2, SMT DEF failed_task, Booted!failed_task
  <2>4. \/ (\A i \in Monitored : ~Booted!Failed(i)) /\ UNCHANGED Booted!vars /\ Untouched
        \/ (\E i \in Monitored : Booted!Failed(i)) /\ Booted!Sys8Terminate(failed_task) /\ Untouched
    BY <1>5, <1>6, <2>1, <2>2, TerminateMapped, Zenon
  <2>5. (Booted!Failed(Booted!HSM) /\ Booted!Owes) <=> (Failed(HSM) /\ Owes)
    BY <1>1, <1>4, <1>6, SamePrograms, Zenon
  <2>6. unanswered' = (unanswered \/ (Booted!Failed(Booted!HSM) /\ Booted!Owes))
    <3>1. unanswered' = (unanswered \/ (Failed(HSM) /\ Owes))
      BY <1>12, Zenon DEF WatchdogChecks
    <3>2. QED
      BY <2>5, <3>1, Zenon
  <2>7. QED
    BY <1>2, <1>3, <1>12, <2>3, <2>4, <2>6, SamePrograms, Zenon
       DEF WatchdogChecks, Booted!WatchdogChecks,
       Booted!watchdog_task, clockVars, Booted!clockVars
<1>13. CASE WatchdogRestartsC
  <2>1. (Booted!TestLeft <=> TestLeft) /\ (TestLeft => InUser(1))
    BY TestLeftMapped, Zenon
  <2>2. CASE TestLeft
    <3>1. Booted!Current(1) = Current(1)
      BY <1>1, <2>1, <2>2, Reads, Zenon DEF Base
    <3>2. Booted!WatchdogRestarts(1, C) /\ Untouched
      BY <1>1, <1>13, <2>1, <2>2, ScanMapped, Zenon DEF WatchdogRestartsC
    <3>3. QED
      BY <1>2, <1>3, <1>13, <2>1, <2>2, <3>1, <3>2, SamePrograms, Zenon DEF WatchdogRestartsC,
         Booted!WatchdogRestartsC, Booted!watchdog_task, clockVars, Booted!clockVars
  <2>3. CASE ~TestLeft
    BY <1>2, <1>3, <1>5, <1>13, <2>1, <2>3, SamePrograms, Zenon DEF WatchdogRestartsC,
       Booted!WatchdogRestartsC, Booted!watchdog_task, clockVars, Booted!clockVars
  <2>4. QED
    BY <2>2, <2>3, Zenon
<1>14. CASE WatchdogRestartsHsm
  <2>1. CASE KindOf(0, HSM) = "Terminated"
    <3>1. Booted!WatchdogRestarts(0, HSM) /\ Untouched
      BY <1>1, <1>14, <2>1, ScanMapped, Zenon DEF WatchdogRestartsHsm
    <3>2. QED
      BY <1>2, <1>3, <1>14, <2>1, <3>1, SamePrograms, Zenon DEF WatchdogRestartsHsm,
         Booted!WatchdogRestartsHsm, Booted!watchdog_task, clockVars, Booted!clockVars
  <2>2. CASE KindOf(0, HSM) # "Terminated"
    BY <1>2, <1>3, <1>5, <1>14, <2>2, SamePrograms, Zenon DEF WatchdogRestartsHsm,
       Booted!WatchdogRestartsHsm, Booted!watchdog_task, clockVars, Booted!clockVars
  <2>3. QED
    BY <2>1, <2>2, Zenon
<1>15. QED
  BY <1>8, <1>9, <1>10, <1>11, <1>12, <1>13, <1>14, Zenon DEF watchdog_task

\* A fault of the HSM.
LEMMA HsmFaultsMapped ==
    ASSUME Base, Apart, AllUnstarted, InUser(0), HsmFaults
    PROVE  Booted!HsmFaults /\ Untouched
<1>1. 0 \in Hart /\ Booted!HSM = HSM
  BY HartsOfPartitions, SamePrograms, Zenon
<1>2. Booted!Current(0) = Current(0) /\ \A i : Booted!KindOf(0, i) = KindOf(0, i)
  BY <1>1, Reads, Zenon DEF Base
<1>3. Booted!Owes <=> Owes
  BY <1>2, SamePrograms, Zenon DEF Owes, Booted!Owes
<1>4. Booted!Fault(0) /\ Untouched
  BY <1>1, FaultMapped, Zenon DEF HsmFaults
<1>5. unanswered' = (unanswered \/ Booted!Owes)
  <2>1. unanswered' = (unanswered \/ Owes)
    BY Zenon DEF HsmFaults
  <2>2. (unanswered \/ Booted!Owes) = (unanswered \/ Owes)
    BY <1>3, SMT
  <2>3. QED
    BY <2>1, <2>2, Zenon
<1>6. QED
  BY <1>1, <1>2, <1>4, <1>5, Zenon DEF HsmFaults, Booted!HsmFaults, watchdogVars,
     Booted!watchdogVars, clockVars, Booted!clockVars

\* A step of the partitions.
LEMMA PartitionsMapped ==
    ASSUME BootInv, Partitions
    PROVE  Booted!Next_System /\ Untouched
<1>1. Base /\ Apart /\ AllUnstarted
  BY Zenon DEF BootInv, Base, AllUnstarted, Partitions
<1>2. ASSUME NEW h \in Hart, InUser(h), Calls(h)
      PROVE  Booted!Calls(h) /\ Untouched
  BY <1>1, <1>2, CallsMapped, Zenon
<1>3. armed \subseteq Hart
  BY Zenon DEF BootInv, Sequence
<1>4. ASSUME NEW h \in Hart, InUser(0), InUser(1), Ticks(h) \/ Handles(h)
      PROVE  (Booted!Ticks(h) \/ Booted!Handles(h)) /\ Untouched
  BY <1>1, <1>4, TicksMapped, Zenon
<1>5. ASSUME InUser(0), watchdog_task
      PROVE  Booted!watchdog_task /\ Untouched
  BY <1>1, <1>5, WatchdogMapped, Zenon
<1>6. \/ \E h \in Hart : InUser(h) /\ Calls(h)
      \/ \E h \in armed : InUser(0) /\ InUser(1) /\ (Ticks(h) \/ Handles(h))
      \/ InUser(0) /\ (HsmFaults \/ watchdog_task)
  BY Zenon DEF Partitions
<1>7. InUser(0) /\ HsmFaults => Booted!HsmFaults /\ Untouched
  BY <1>1, HsmFaultsMapped, Zenon
<1>8. QED
  BY <1>2, <1>3, <1>4, <1>5, <1>6, <1>7, SameOperators, Zenon DEF Booted!Next_System

-----------------------------------------------------------------------------
(* The partitions keep the invariant                                        *)

\* The waiters of the mutexes M are tasks of harts that have started.
Behind(M) ==
    /\ M \in [Mutex -> KernelMutex]
    /\ \A m \in Mutex : \A w \in M[m].waiters :
          InUser(WaiterHart(w)) /\ w \in Tasks[WaiterHart(w)]

\* Handing a mutex over adds no waiter.
LEMMA HandoverShrinks ==
    ASSUME NEW m \in KernelMutex
    PROVE  HandedOver(m) \in KernelMutex /\ HandedOver(m).waiters \subseteq m.waiters
<1>1. /\ m.waiters \in SUBSET Slot /\ NoOwner \in Slot \cup {NoOwner}
      /\ m = [locked |-> m.locked, owner |-> m.owner, waiters |-> m.waiters]
  BY SMT DEF KernelMutex
<1>2. CASE m.waiters = {}
  <2>1. HandedOver(m) = [m EXCEPT !.locked = FALSE, !.owner = NoOwner]
    BY <1>2, Zenon DEF HandedOver
  <2>2. HandedOver(m) \in KernelMutex /\ HandedOver(m).waiters = {}
    BY <1>2, <2>1, Zenon DEF KernelMutex
  <2>3. QED
    BY <2>2, Zenon
<1>3. CASE m.waiters # {}
  <2> DEFINE w == HighestWaiter(m.waiters)
  <2>1. w \in m.waiters
    BY <1>1, <1>3, HighestWaiterFacts, Zenon
  <2>2. HandedOver(m) = [locked |-> TRUE, owner |-> w, waiters |-> m.waiters \ {w}]
    BY <1>3, Zenon DEF HandedOver
  <2> HIDE DEF w
  <2>3. QED
    BY <1>1, <2>1, <2>2, SMT DEF KernelMutex
<1>4. QED
  BY <1>2, <1>3, Zenon

\* The calls that change the mutexes.
LEMMA MutexesBehind ==
    ASSUME Behind(MUTEXES), NEW h \in Hart, InUser(h), Current(h) \in Slot
    PROVE  /\ \A m : Sys3Lock(h, m) => Behind(MUTEXES')
           /\ \A m : Sys4Unlock(h, m) => Behind(MUTEXES')
           /\ \A i : Behind(Recovered(i))
<1> DEFINE c == Current(h)
<1>1. ASSUME NEW m, Sys3Lock(h, m) PROVE Behind(MUTEXES')
  <2>1. m \in LockCaps[h][c]
    BY <1>1, Zenon DEF Sys3Lock
  <2>2. m \in Mutex /\ h = WaiterHart(c) /\ c \in Tasks[h]
    BY <2>1, CapabilityAssumption, SMT
  <2>3. \/ MUTEXES' = [MUTEXES EXCEPT ![m].locked = TRUE, ![m].owner = c]
        \/ MUTEXES' = [MUTEXES EXCEPT ![m].waiters = @ \cup {c}]
    BY <1>1, Zenon DEF Sys3Lock
  <2> HIDE DEF c
  <2>4. c \in Slot
    BY Zenon DEF c
  <2>5. MUTEXES' \in [Mutex -> KernelMutex]
    <3>1. MUTEXES[m] \in KernelMutex /\ MUTEXES \in [Mutex -> KernelMutex]
      BY <2>2, Zenon DEF Behind
    <3>2. CASE MUTEXES' = [MUTEXES EXCEPT ![m].locked = TRUE, ![m].owner = c]
      BY <2>4, <3>1, <3>2, Zenon DEF KernelMutex
    <3>3. CASE MUTEXES' = [MUTEXES EXCEPT ![m].waiters = @ \cup {c}]
      BY <2>4, <3>1, <3>3, Zenon DEF KernelMutex
    <3>4. QED
      BY <2>3, <3>2, <3>3, Zenon
  <2>6. \A n \in Mutex : MUTEXES'[n].waiters \subseteq MUTEXES[n].waiters \cup {c}
    BY <2>2, <2>3, <2>4, SMT DEF Behind, KernelMutex
  <2>7. QED
    BY <2>2, <2>5, <2>6, Zenon DEF Behind
<1>2. ASSUME NEW m, Sys4Unlock(h, m) PROVE Behind(MUTEXES')
  <2>1. m \in UnlockCaps[h][c] /\ MUTEXES' = [MUTEXES EXCEPT ![m] = HandedOver(MUTEXES[m])]
    BY <1>2 DEF Sys4Unlock
  <2>2. m \in Mutex
    BY <2>1, CapabilityAssumption, SMT
  <2>3. MUTEXES[m] \in KernelMutex
    BY <2>2, Zenon DEF Behind
  <2>4. HandedOver(MUTEXES[m]) \in KernelMutex /\ HandedOver(MUTEXES[m]).waiters \subseteq MUTEXES[m].waiters
    BY <2>3, HandoverShrinks
  <2>5. MUTEXES' \in [Mutex -> KernelMutex] /\ \A n \in Mutex : MUTEXES'[n].waiters \subseteq MUTEXES[n].waiters
    BY <2>1, <2>2, <2>4, SMT DEF Behind
  <2>6. QED
    BY <2>5, Zenon DEF Behind
<1>3. ASSUME NEW i PROVE Behind(Recovered(i))
  <2>1. ASSUME NEW m \in Mutex
        PROVE  Recovered(i)[m] \in KernelMutex /\ Recovered(i)[m].waiters \subseteq MUTEXES[m].waiters
    <3>1. MUTEXES[m] \in KernelMutex
      BY Zenon DEF Behind
    <3>2. HandedOver(MUTEXES[m]) \in KernelMutex /\ HandedOver(MUTEXES[m]).waiters \subseteq MUTEXES[m].waiters
      BY <3>1, HandoverShrinks
    <3>3. Recovered(i)[m] = HandedOver(MUTEXES[m]) \/ Recovered(i)[m] = MUTEXES[m]
      BY SMT DEF Recovered
    <3>4. QED
      BY <3>1, <3>2, <3>3, Zenon
  <2>2. Recovered(i) = [m \in Mutex |-> Recovered(i)[m]]
    BY SMT DEF Recovered
  <2>3. Recovered(i) \in [Mutex -> KernelMutex]
    BY <2>1, <2>2, SMT
  <2>4. QED
    BY <2>1, <2>3, Zenon DEF Behind
<1>4. QED
  BY <1>1, <1>2, <1>3, Zenon

\* Every step of the partitions.
LEMMA PartitionsBehind ==
    ASSUME Behind(MUTEXES), Partitions
    PROVE  Behind(MUTEXES')
<1>1. ASSUME NEW h \in Hart, InUser(h), Calls(h) PROVE Behind(MUTEXES')
  <2>1. Current(h) \in Monitored
    BY <1>1, Zenon DEF Calls
  <2>2. Current(h) \in Slot
    <3>1. Monitored \subseteq Targets /\ Targets \subseteq Slot
      BY RegistrationAssumption, KernelAssumption, Zenon
    <3>2. QED
      BY <2>1, <3>1, Zenon
  <2>3. /\ \A m : Sys3Lock(h, m) => Behind(MUTEXES')
        /\ \A m : Sys4Unlock(h, m) => Behind(MUTEXES')
        /\ Fault(h) => Behind(MUTEXES')
    BY <1>1, <2>2, MutexesBehind, Zenon DEF Fault
  <2>4. \/ MUTEXES' = MUTEXES
        \/ \E m : Sys3Lock(h, m) \/ Sys4Unlock(h, m)
        \/ Fault(h)
    BY <1>1, Zenon DEF Calls, Sys5Checkin, Sys4UnlockPanics, Sys6Send, Sys7Recv, Rendezvous,
       Sys1Yield, vars
  <2>5. QED
    BY <2>3, <2>4, Zenon
<1>2. ASSUME InUser(0), watchdog_task PROVE Behind(MUTEXES')
  <2>1. MUTEXES' = MUTEXES \/ \E i : MUTEXES' = Recovered(i) /\ Scanning
    BY <1>2, Zenon DEF watchdog_task, WatchdogSleeps, WatchdogLoads, WatchdogStartsScan,
       WatchdogChecks,
       WatchdogRestartsC, WatchdogRestartsHsm, WatchdogEndsScan, Sys2Sleep, WatchdogLocks, WatchdogUnlocks,
       WatchdogRestarts, Sys8Terminate, vars
  <2>2. ASSUME Scanning PROVE 0 \in Hart /\ Current(0) \in Slot
    BY <2>2, SlotFacts, Zenon DEF Scanning, WATCHDOG, Hart
  <2>3. QED
    BY <1>2, <2>1, <2>2, MutexesBehind, Zenon
<1>3. ASSUME NEW h, Ticks(h) \/ Handles(h) PROVE MUTEXES' = MUTEXES
  BY <1>3, Zenon DEF Ticks, Handles, TimerEntry, TimerInterrupt, SoftwareInterrupt
<1>4. ASSUME InUser(0), HsmFaults PROVE Behind(MUTEXES')
  <2>1. 0 \in Hart /\ HSM \in Slot
    <3>1. Monitored \subseteq Targets /\ Targets \subseteq Slot
      BY RegistrationAssumption, KernelAssumption, Zenon
    <3>2. QED
      BY <3>1, HartsOfPartitions, Zenon
  <2>2. Current(0) = HSM /\ MUTEXES' = Recovered(Current(0))
    BY <1>4, Zenon DEF HsmFaults, Fault
  <2>3. QED
    BY <1>4, <2>1, <2>2, MutexesBehind, Zenon
<1>5. QED
  BY <1>1, <1>2, <1>3, <1>4, Zenon DEF Partitions

\* While one hart has not started, no tick comes.
LEMMA StaysQuiet ==
    ASSUME Apart, Partitions, ~(InUser(0) /\ InUser(1))
    PROVE  /\ TICK_COUNT' = 0 /\ current_tick' = 0
           /\ LAST_CHECKIN_TICK' = [i \in Monitored |-> 0]
<1>1. TICK_COUNT = 0 /\ current_tick = 0 /\ LAST_CHECKIN_TICK = [i \in Monitored |-> 0]
  BY Zenon DEF Apart
<1>2. \A i : [LAST_CHECKIN_TICK EXCEPT ![i] = 0] = LAST_CHECKIN_TICK
  BY <1>1, SMT
<1>3. (\E h \in Hart : InUser(h) /\ Calls(h)) \/ HsmFaults \/ watchdog_task
  BY Zenon DEF Partitions
<1>4. ASSUME NEW h \in Hart, Calls(h)
      PROVE  /\ TICK_COUNT' = TICK_COUNT /\ current_tick' = current_tick
             /\ \/ LAST_CHECKIN_TICK' = LAST_CHECKIN_TICK
                \/ LAST_CHECKIN_TICK' = [LAST_CHECKIN_TICK EXCEPT ![Current(h)] = TICK_COUNT]
  BY <1>4, Zenon DEF Calls, Sys5Checkin, Sys3Lock, Sys4Unlock, Sys4UnlockPanics, Sys6Send, Sys7Recv,
     Rendezvous, Sys1Yield, Fault, vars, watchdogVars
<1>5. ASSUME watchdog_task
      PROVE  /\ TICK_COUNT' = TICK_COUNT /\ current_tick' \in {0, current_tick, TICK_COUNT}
             /\ \/ LAST_CHECKIN_TICK' = LAST_CHECKIN_TICK
                \/ \E i : LAST_CHECKIN_TICK' = [LAST_CHECKIN_TICK EXCEPT ![i] = 0]
  BY <1>5, Zenon DEF watchdog_task, WatchdogSleeps, WatchdogLoads, WatchdogStartsScan,
     WatchdogChecks,
     WatchdogRestartsC, WatchdogRestartsHsm, WatchdogEndsScan, Sys2Sleep, WatchdogLocks, WatchdogUnlocks,
     WatchdogRestarts, Sys8Terminate, vars, programVars
<1>6. ASSUME NEW h \in Hart, Calls(h)
      PROVE  LAST_CHECKIN_TICK' = LAST_CHECKIN_TICK
  <2>1. [LAST_CHECKIN_TICK EXCEPT ![Current(h)] = TICK_COUNT] = LAST_CHECKIN_TICK
    BY <1>1, <1>2
  <2>2. QED
    BY <1>4, <1>6, <2>1, Zenon
<1>7. HsmFaults => UNCHANGED <<TICK_COUNT, current_tick, LAST_CHECKIN_TICK>>
  BY Zenon DEF HsmFaults, Fault, watchdogVars
<1>8. QED
  BY <1>1, <1>2, <1>3, <1>4, <1>5, <1>6, <1>7, Zenon

\* The invariant survives whatever the partitions do.
LEMMA PartitionsInv ==
    ASSUME BootInv, Partitions
    PROVE  BootInv'
<1>1. Untouched
  BY PartitionsMapped, Zenon
<1>2. pc' = pc /\ UNCHANGED <<trusted, localVars, barrierVars>>
  BY Zenon DEF Partitions
<1>3. Sequence'
  BY <1>2, Zenon DEF BootInv, Sequence, Released, InUser, localVars, barrierVars
<1>4. OnHarts(SCHEDULERS)' /\ OnHarts(context)' /\ OnHarts(first_idx)'
  BY <1>1, <1>2, Zenon DEF BootInv, Untouched, OnHarts, localVars
<1>5. ASSUME NEW h \in Hart, ~InUser(h)'
      PROVE  Unstarted(h)'
  <2>1. ~InUser(h) /\ Unstarted(h) /\ Upto(h)' = Upto(h)
    BY <1>2, <1>5, Zenon DEF BootInv, InUser, Upto, localVars
  <2>2. SCHEDULERS'[h] = SCHEDULERS[h] /\ context'[h] = context[h]
    BY <1>1, <2>1, Zenon DEF Untouched
  <2>3. QED
    BY <1>2, <2>1, <2>2, Zenon DEF Unstarted, localVars
<1>6. Behind(MUTEXES) /\ Apart
  BY Zenon DEF BootInv, Apart, Behind
<1>7. Behind(MUTEXES')
  BY <1>6, PartitionsBehind, Zenon
<1>8. Apart'
  BY <1>2, <1>6, <1>7, StaysQuiet, Zenon DEF Apart, Behind, InUser
<1>9. QED
  BY <1>3, <1>4, <1>5, <1>8, Zenon DEF BootInv

-----------------------------------------------------------------------------
(* kmain                                                                    *)

\* A step of kmain changes nothing of the mapped state.
Silent ==
    /\ StartedHarts' = StartedHarts /\ StartedContexts' = StartedContexts
    /\ UNCHANGED <<MUTEXES, TICK_COUNT, timer, msip, SCHED_LOCK, halted, programAndClockVars>>

\* One hart goes on.
LEMMA OneGoes ==
    ASSUME Sequence, NEW h \in Hart, NEW from, NEW to, Goes(h, from, to)
    PROVE  /\ pc[h] = from /\ pc'[h] = to /\ pc' = [pc EXCEPT ![h] = to]
           /\ \A g \in Hart : g # h => pc'[g] = pc[g]
BY SMT DEF Sequence, Goes

\* The seven calls of register_task register what Kernel's constants say.
LEMMA AllRegistered ==
    ASSUME registered = 7, NEW h \in Hart
    PROVE  Upto(h) = Tasks[h]
<1>1. {m \in 1 .. 7 : m <= registered /\ Registrations[m][1] = h} = {m \in 1 .. 7 : Registrations[m][1] = h}
  BY SMT
<1>2. QED
  BY <1>1, BootAssumption, Zenon DEF Upto

\* They have been made when a hart comes to start_first_task.
LEMMA StartsRegistered ==
    ASSUME Sequence, NEW h \in Hart, pc[h] \in {"select", "point", "start", "user"}
    PROVE  registered = 7 /\ trusted /\ stacks
<1>1. Released
  BY Zenon DEF Sequence, Released, Hart
<1>2. QED
  BY <1>1, Zenon DEF Sequence

\* The harts in user mode stay there, and no other gets there.
LEMMA NoneStarts ==
    ASSUME BootInv, NEW h \in Hart, NEW from, NEW to, Goes(h, from, to), from # "user", to # "user",
           OnHarts(SCHEDULERS'), context' = context,
           \A g \in Hart : InUser(g) => SCHEDULERS'[g] = SCHEDULERS[g]
    PROVE  /\ StartedHarts' = StartedHarts /\ StartedContexts' = StartedContexts
           /\ \A g \in Hart : InUser(g)' <=> InUser(g)
<1>1. \A g \in Hart : InUser(g)' <=> InUser(g)
  BY OneGoes, Zenon DEF BootInv, InUser
<1>2. \A g \in Hart : StartedHart(g)' = StartedHart(g) /\ StartedContext(g)' = StartedContext(g)
  BY <1>1, Zenon DEF StartedHart, StartedContext
<1>3. OnHarts(context) /\ OnHarts(SCHEDULERS) /\ 0 \in Hart /\ 1 \in Hart
  BY Zenon DEF BootInv, Hart
<1>4. StartedHarts' = [g \in Hart |-> IF g = 0 THEN StartedHart(0)' ELSE StartedHart(1)']
  BY BothReplaced, Zenon DEF StartedHarts
<1>5. StartedHarts = [g \in Hart |-> IF g = 0 THEN StartedHart(0) ELSE StartedHart(1)]
  <2>1. OnHarts(SCHEDULERS)
    BY <1>3, Zenon
  <2>2. QED
    BY <2>1, BothReplaced DEF StartedHarts
<1>6. StartedContexts' = StartedContexts
  BY <1>2, <1>3, Zenon DEF StartedContexts
<1>7. QED
  BY <1>1, <1>2, <1>3, <1>4, <1>5, <1>6, Zenon

\* What stays apart when harts go on in kmain.
LEMMA ApartStays ==
    ASSUME Apart, \A g \in Hart : InUser(g) => InUser(g)',
           UNCHANGED <<MUTEXES, TICK_COUNT, programAndClockVars>>
    PROVE  Apart'
<1>1. 0 \in Hart /\ 1 \in Hart
  BY Zenon DEF Hart
<1>2. UNCHANGED <<MUTEXES, TICK_COUNT, current_tick, LAST_CHECKIN_TICK>>
  BY Zenon DEF programAndClockVars, programVars, watchdogVars
<1>3. \A m \in Mutex : \A w \in MUTEXES[m].waiters : WaiterHart(w) \in Hart
  <2>1. \A m \in Mutex : MUTEXES[m].waiters \subseteq Slot
    BY SMT DEF Apart, KernelMutex
  <2>2. QED
    BY <2>1, SlotFacts, WaiterHartType, Zenon
<1>4. QED
  BY <1>1, <1>2, <1>3, Zenon DEF Apart

\* The steps that touch neither a scheduler nor a frame.
LEMMA LocalStep ==
    ASSUME BootInv, Sequence', NEW h \in Hart, NEW from, NEW to, Goes(h, from, to),
           from \notin {"user", "point", "start"}, to \notin {"user", "point", "start"},
           UNCHANGED <<systemVars, registered, first_idx>>
    PROVE  Silent /\ BootInv'
<1>1. /\ UNCHANGED <<SCHEDULERS, context, MUTEXES, TICK_COUNT, timer, msip, SCHED_LOCK, halted>>
      /\ UNCHANGED programAndClockVars
  BY Zenon DEF systemVars, vars, programAndClockVars
<1>2. /\ StartedHarts' = StartedHarts /\ StartedContexts' = StartedContexts
      /\ \A g \in Hart : InUser(g)' <=> InUser(g)
  <2>1. OnHarts(SCHEDULERS') /\ from # "user" /\ to # "user"
    BY <1>1, Zenon DEF BootInv
  <2>2. QED
    BY <1>1, <2>1, NoneStarts, Zenon
<1>3. Silent
  BY <1>1, <1>2, Zenon DEF Silent
<1>4. Apart'
  BY <1>1, <1>2, ApartStays, Zenon DEF BootInv
<1>5. ASSUME NEW g \in Hart, ~InUser(g)' PROVE Unstarted(g)'
  <2>1. Unstarted(g) /\ Upto(g)' = Upto(g)
    BY <1>2, <1>5, Zenon DEF BootInv, Upto
  <2>2. pc'[g] = pc[g] \/ (pc[g] \notin {"point", "start"} /\ pc'[g] \notin {"point", "start"})
    BY OneGoes, Zenon DEF BootInv
  <2>3. QED
    BY <1>1, <2>1, <2>2, Zenon DEF Unstarted
<1>6. QED
  BY <1>1, <1>3, <1>4, <1>5, Zenon DEF BootInv, OnHarts

\* Every step of kmain keeps the sequence.
LEMMA SequenceStep ==
    ASSUME Sequence, NEW h \in Hart, kmain(h)
    PROVE  Sequence'
<1> DEFINE P == {"barrier", "reset", "verify", "wfi", "stacks", "register", "timer",
                 "release", "wait", "signal", "select", "point", "start", "user"}
<1>0. /\ "verify" \in P /\ "timer" \in P /\ "stacks" \in P /\ "wfi" \in P /\ "register" \in P
      /\ "release" \in P /\ "signal" \in P /\ "reset" \in P /\ "select" \in P /\ "wait" \in P
      /\ "point" \in P /\ "start" \in P /\ "user" \in P
  BY Zenon
<1>1. pc \in [Hart -> P]
  BY Zenon DEF Sequence
<1>2. 0 \in Hart /\ 1 \in Hart /\ 0 # 1 /\ 1 # 0 /\ \A g \in Hart : g = 0 \/ g = 1
  BY SMT DEF Hart
<1> HIDE DEF P
<1> DEFINE Ordered(from, to) ==
             \/ from = "select" /\ to = "point"
             \/ from = "point" /\ to = "start"
             \/ from = "start" /\ to = "user"
<1>3. CASE AwaitsBarrier
  <2>1. /\ pc' \in [Hart -> P] /\ pc[1] = "barrier" /\ pc'[1] = "reset" /\ pc'[0] = pc[0]
        /\ BOOT_BARRIER /\ UNCHANGED <<trusted, localVars, barrierVars>>
    BY <1>0, <1>1, <1>2, <1>3, SMT DEF AwaitsBarrier, Goes
  <2>2. QED
    BY <1>2, <2>1, Zenon DEF Sequence, Released, InUser, localVars, barrierVars, P
<1>4. CASE Signals
  <2>1. /\ pc' \in [Hart -> P] /\ pc[1] = "signal" /\ pc'[1] = "select" /\ pc'[0] = pc[0]
        /\ UNCHANGED <<trusted, localVars, BOOT_BARRIER>>
    BY <1>0, <1>1, <1>2, <1>4, SMT DEF Signals, Goes
  <2>2. QED
    BY <1>2, <2>1, Zenon DEF Sequence, Released, InUser, localVars, P
<1>5. CASE Verifies
  <2>1. /\ pc' \in [Hart -> P] /\ pc[0] = "verify" /\ pc'[0] = (IF trusted THEN "stacks" ELSE "wfi")
        /\ pc'[1] = pc[1] /\ UNCHANGED <<trusted, localVars, barrierVars>>
    <3>1. Goes(0, "verify", IF trusted THEN "stacks" ELSE "wfi") /\ (IF trusted THEN "stacks" ELSE "wfi") \in P
      BY <1>0, <1>5, Zenon DEF Verifies
    <3>2. pc' \in [Hart -> P] /\ pc[0] = "verify" /\ pc'[0] = (IF trusted THEN "stacks" ELSE "wfi") /\ pc'[1] = pc[1]
      BY <1>1, <1>2, <3>1, SMT DEF Goes
    <3>3. QED
      BY <1>5, <3>2, Zenon DEF Verifies
  <2>2. QED
    BY <1>2, <2>1, Zenon DEF Sequence, Released, InUser, localVars, barrierVars, P
<1>6. CASE InitializesStacks
  <2>1. /\ pc' \in [Hart -> P] /\ pc[0] = "stacks" /\ pc'[0] = "register" /\ pc'[1] = pc[1] /\ stacks'
        /\ UNCHANGED <<trusted, registered, mtvec, pmp, armed, mscratch, first_idx, barrierVars>>
    <3>1. Goes(0, "stacks", "register") /\ "register" \in P
      BY <1>0, <1>6, Zenon DEF InitializesStacks
    <3>2. pc' \in [Hart -> P] /\ pc[0] = "stacks" /\ pc'[0] = ("register") /\ pc'[1] = pc[1]
      BY <1>1, <1>2, <3>1, SMT DEF Goes
    <3>3. QED
      BY <1>6, <3>2, Zenon DEF InitializesStacks
  <2>2. QED
    BY <1>2, <2>1, Zenon DEF Sequence, Released, InUser, barrierVars, P
<1>7. CASE Registers
  <2>1. /\ pc' \in [Hart -> P] /\ pc[0] = "register" /\ pc'[1] = pc[1]
        /\ pc'[0] = (IF registered + 1 = Len(Registrations) THEN "timer" ELSE "register")
        /\ registered' = registered + 1
        /\ UNCHANGED <<trusted, stacks, mtvec, pmp, armed, mscratch, first_idx, barrierVars>>
    <3>1. Goes(0, "register", IF registered + 1 = Len(Registrations) THEN "timer" ELSE "register") /\ (IF registered + 1 = Len(Registrations) THEN "timer" ELSE "register") \in P
      BY <1>0, <1>7, Zenon DEF Registers
    <3>2. pc' \in [Hart -> P] /\ pc[0] = "register" /\ pc'[0] = (IF registered + 1 = Len(Registrations) THEN "timer" ELSE "register") /\ pc'[1] = pc[1]
      BY <1>1, <1>2, <3>1, SMT DEF Goes
    <3>3. QED
      BY <1>7, <3>2, Zenon DEF Registers
  <2>2. Len(Registrations) = 7
    BY SMT DEF Registrations
  <2>3. /\ registered' \in 0 .. 7 /\ (pc'[0] = "register" => registered' < 7)
        /\ (pc'[0] = "timer" => registered' = 7) /\ pc'[0] \in {"timer", "register"}
    BY <2>1, <2>2, SMT DEF Sequence
  <2>4. QED
    BY <1>2, <2>1, <2>3, Zenon DEF Sequence, Released, InUser, barrierVars, P
<1>8. CASE Releases
  <2>1. /\ pc' \in [Hart -> P] /\ pc[0] = "release" /\ pc'[0] = "wait" /\ pc'[1] = pc[1]
        /\ UNCHANGED <<trusted, localVars, CORE_1_READY>>
    <3>1. Goes(0, "release", "wait") /\ "wait" \in P
      BY <1>0, <1>8, Zenon DEF Releases
    <3>2. pc' \in [Hart -> P] /\ pc[0] = "release" /\ pc'[0] = ("wait") /\ pc'[1] = pc[1]
      BY <1>1, <1>2, <3>1, SMT DEF Goes
    <3>3. QED
      BY <1>8, <3>2, Zenon DEF Releases
  <2>2. pc[1] = "barrier"
    BY <2>1, Zenon DEF Sequence, Released
  <2>3. QED
    BY <1>2, <2>1, <2>2, Zenon DEF Sequence, Released, InUser, localVars, P
<1>9. CASE AwaitsCore1
  <2>1. /\ pc' \in [Hart -> P] /\ pc[0] = "wait" /\ pc'[0] = "select" /\ pc'[1] = pc[1]
        /\ UNCHANGED <<trusted, localVars, barrierVars>>
    <3>1. Goes(0, "wait", "select") /\ "select" \in P
      BY <1>0, <1>9, Zenon DEF AwaitsCore1
    <3>2. pc' \in [Hart -> P] /\ pc[0] = "wait" /\ pc'[0] = ("select") /\ pc'[1] = pc[1]
      BY <1>1, <1>2, <3>1, SMT DEF Goes
    <3>3. QED
      BY <1>9, <3>2, Zenon DEF AwaitsCore1
  <2>2. QED
    BY <1>2, <2>1, Zenon DEF Sequence, Released, InUser, localVars, barrierVars, P
<1>10. CASE Resets(h)
  <2>1. /\ pc' \in [Hart -> P] /\ pc[h] = "reset" /\ pc'[h] = (IF h = 0 THEN "verify" ELSE "timer")
        /\ (\A f \in Hart : f # h => pc'[f] = pc[f])
        /\ mtvec' = mtvec \cup {h} /\ pmp' = pmp \cup {h}
        /\ UNCHANGED <<trusted, stacks, registered, armed, mscratch, first_idx, barrierVars>>
    <3>1. Goes(h, "reset", IF h = 0 THEN "verify" ELSE "timer") /\ (IF h = 0 THEN "verify" ELSE "timer") \in P
      BY <1>0, <1>10, Zenon DEF Resets
    <3>2. pc' \in [Hart -> P] /\ pc[h] = "reset" /\ pc'[h] = (IF h = 0 THEN "verify" ELSE "timer") /\ \A f \in Hart : f # h => pc'[f] = pc[f]
      BY <1>1, <1>2, <3>1, SMT DEF Goes
    <3>3. QED
      BY <1>10, <3>2, Zenon DEF Resets
  <2>2. CASE h = 0
    BY <1>2, <2>1, <2>2, Zenon DEF Sequence, Released, InUser, barrierVars, P
  <2>3. CASE h = 1
    BY <1>2, <2>1, <2>3, Zenon DEF Sequence, Released, InUser, barrierVars, P
  <2>4. QED
    BY <1>2, <2>2, <2>3, Zenon
<1>11. CASE init_timer(h)
  <2>1. /\ pc' \in [Hart -> P] /\ pc[h] = "timer" /\ pc'[h] = (IF h = 0 THEN "release" ELSE "signal")
        /\ (\A f \in Hart : f # h => pc'[f] = pc[f])
        /\ armed' = armed \cup {h}
        /\ UNCHANGED <<trusted, stacks, registered, mtvec, pmp, mscratch, first_idx, barrierVars>>
    <3>1. Goes(h, "timer", IF h = 0 THEN "release" ELSE "signal") /\ (IF h = 0 THEN "release" ELSE "signal") \in P
      BY <1>0, <1>11, Zenon DEF init_timer
    <3>2. pc' \in [Hart -> P] /\ pc[h] = "timer" /\ pc'[h] = (IF h = 0 THEN "release" ELSE "signal") /\ \A f \in Hart : f # h => pc'[f] = pc[f]
      BY <1>1, <1>2, <3>1, SMT DEF Goes
    <3>3. QED
      BY <1>11, <3>2, Zenon DEF init_timer
  <2>2. CASE h = 0
    BY <1>2, <2>1, <2>2, Zenon DEF Sequence, Released, InUser, barrierVars, P
  <2>3. CASE h = 1
    BY <1>2, <2>1, <2>3, Zenon DEF Sequence, Released, InUser, barrierVars, P
  <2>4. QED
    BY <1>2, <2>2, <2>3, Zenon
<1>12. ASSUME NEW from, NEW to, Ordered(from, to),
              Goes(h, from, to), to = "user" => h \in mscratch', mscratch \subseteq mscratch',
              UNCHANGED <<trusted, stacks, registered, mtvec, pmp, armed, barrierVars>>
       PROVE  Sequence'
  <2>1. \/ from = "select" /\ to = "point"
        \/ from = "point" /\ to = "start"
        \/ from = "start" /\ to = "user"
    BY <1>12, Zenon DEF Ordered
  <2>2. to \in P
    BY <1>0, <2>1, Zenon
  <2>3. pc' \in [Hart -> P] /\ pc[h] = from /\ pc'[h] = to /\ \A f \in Hart : f # h => pc'[f] = pc[f]
    BY <1>1, <1>2, <1>12, <2>2, SMT DEF Goes
  <2>4. CASE h = 0
    BY <1>2, <1>12, <2>1, <2>3, <2>4, Zenon DEF Sequence, Released, InUser, barrierVars, P
  <2>5. CASE h = 1
    BY <1>2, <1>12, <2>1, <2>3, <2>5, Zenon DEF Sequence, Released, InUser, barrierVars, P
  <2>6. QED
    BY <1>2, <2>4, <2>5, Zenon
<1>13. CASE Selects(h)
  <2>1. /\ Ordered("select", "point") /\ Goes(h, "select", "point") /\ "point" # "user" /\ mscratch' = mscratch
        /\ UNCHANGED <<trusted, stacks, registered, mtvec, pmp, armed, barrierVars>>
    BY <1>13, Zenon DEF Selects
  <2>2. QED
    BY <1>12, <2>1, Zenon
<1>14. CASE Points(h)
  <2>1. /\ Ordered("point", "start") /\ Goes(h, "point", "start") /\ "start" # "user" /\ mscratch' = mscratch
        /\ UNCHANGED <<trusted, stacks, registered, mtvec, pmp, armed, barrierVars>>
    BY <1>14, Zenon DEF Points, localVars
  <2>2. QED
    BY <1>12, <2>1, Zenon
<1>15. CASE Starts(h)
  <2>1. /\ Ordered("start", "user") /\ Goes(h, "start", "user") /\ mscratch' = mscratch \cup {h}
        /\ UNCHANGED <<trusted, stacks, registered, mtvec, pmp, armed, barrierVars>>
    BY <1>15, Zenon DEF Starts
  <2>2. QED
    BY <1>12, <2>1, Zenon
<1>16. QED
  BY <1>3, <1>4, <1>5, <1>6, <1>7, <1>8, <1>9, <1>10, <1>11, <1>13, <1>14, <1>15, Zenon DEF kmain

\* The effect of register_task on a table.
LEMMA RowWith ==
    ASSUME NEW U, NEW V, NEW s, \A x : x \in V <=> x \in U \/ x = s
    PROVE  [[i \in Slot |-> IF i \in U THEN Ready ELSE NoTask] EXCEPT ![s] = Ready]
              = [i \in Slot |-> IF i \in V THEN Ready ELSE NoTask]
<1> DEFINE f == [i \in Slot |-> IF i \in U THEN Ready ELSE NoTask]
<1>1. \A i \in Slot : f[i] = IF i \in U THEN Ready ELSE NoTask
  BY Zenon
<1>2. f = [i \in Slot |-> f[i]]
  BY Zenon
<1> HIDE DEF f
<1>3. [f EXCEPT ![s] = Ready] = [i \in Slot |-> IF i = s THEN Ready ELSE f[i]]
  BY <1>2, SMT
<1>4. \A i \in Slot : (IF i = s THEN Ready ELSE f[i]) = IF i \in V THEN Ready ELSE NoTask
  BY <1>1, Zenon
<1>5. [i \in Slot |-> IF i = s THEN Ready ELSE f[i]] = [i \in Slot |-> IF i \in V THEN Ready ELSE NoTask]
  BY <1>4, Zenon
<1>6. QED
  BY <1>3, <1>5, Zenon DEF f

\* Replacing an entry adds none.
LEMMA ExceptAnywhere ==
    ASSUME NEW f, OnHarts(f), NEW a, NEW x
    PROVE  OnHarts([f EXCEPT ![a] = x])
BY SMT DEF OnHarts

\* register_task: the next task of the sequence.
LEMMA RegistersStep ==
    ASSUME BootInv, Sequence', Registers
    PROVE  Silent /\ BootInv'
<1> DEFINE n == registered + 1
           hart == Registrations[n][1]
           slot == Registrations[n][2]
<1>1. /\ \E to \in {"timer", "register"} : Goes(0, "register", to)
      /\ SCHEDULERS' = SetState(SCHEDULERS, hart, slot, Ready)
      /\ registered' = n
      /\ UNCHANGED <<MUTEXES, TICK_COUNT, timer, msip, context, SCHED_LOCK, halted, programAndClockVars,
                     first_idx>>
  BY Zenon DEF Registers
<1>2. PICK to \in {"timer", "register"} : Goes(0, "register", to)
  BY <1>1, Zenon
<1>3. 0 \in Hart /\ \A g \in Hart : ~InUser(g) /\ pc[g] \notin {"point", "start"}
  BY <1>2, Zenon DEF BootInv, Sequence, Released, InUser, Goes, Hart
<1>4. pc'[0] = to /\ \A g \in Hart : g # 0 => pc'[g] = pc[g]
  BY <1>2, <1>3, OneGoes, Zenon DEF BootInv
<1>5. \A g \in Hart : pc'[g] \notin {"point", "start", "user"}
  BY <1>3, <1>4, Zenon DEF InUser
<1>6. n \in 1 .. 7 /\ \A m \in 1 .. 7 : m <= n <=> m <= registered \/ m = n
  BY <1>2, SMT DEF BootInv, Sequence, Goes
<1>7. OnHarts(SCHEDULERS')
  <2> HIDE DEF hart, slot
  <2>1. SetState(SCHEDULERS, hart, slot, Ready) = [SCHEDULERS EXCEPT ![hart] =
            [SCHEDULERS[hart] EXCEPT !.task_table = [SCHEDULERS[hart].task_table EXCEPT ![slot] = Ready]]]
    BY SMT DEF SetState
  <2>2. OnHarts(SCHEDULERS)
    BY Zenon DEF BootInv
  <2>3. QED
    <3> DEFINE x == [SCHEDULERS[hart] EXCEPT !.task_table = [SCHEDULERS[hart].task_table EXCEPT ![slot] = Ready]]
    <3>1. SCHEDULERS' = [SCHEDULERS EXCEPT ![hart] = x]
      BY <1>1, <2>1, Zenon
    <3> HIDE DEF x
    <3>2. OnHarts([SCHEDULERS EXCEPT ![hart] = x])
      BY <2>2, ExceptAnywhere
    <3>3. QED
      BY <3>1, <3>2, Zenon
<1>8. ASSUME NEW g \in Hart PROVE Unstarted(g)'
  <2> HIDE DEF n, hart, slot
  <2>1. \A x : x \in Upto(g)' <=> x \in Upto(g) \/ (hart = g /\ x = slot)
    <3>1. Upto(g)' = {Registrations[k][2] : k \in {m \in 1 .. 7 : m <= n /\ Registrations[m][1] = g}}
      BY <1>1, Zenon DEF Upto
    <3>2. QED
      BY <1>6, <3>1, Zenon DEF Upto, hart, slot
  <2> DEFINE row(U) == [i \in Slot |-> IF i \in U THEN Ready ELSE NoTask]
  <2>2. SCHEDULERS[g] = [task_table |-> row(Upto(g)), current |-> 0, remaining |-> MIF]
    <3>1. Registered(Upto(g)).task_table = row(Upto(g))
      BY SMT DEF Registered
    <3>2. QED
      BY <1>3, <3>1, Zenon DEF BootInv, Unstarted
  <2>3. SCHEDULERS'[g] = [task_table |-> row(Upto(g)'), current |-> 0, remaining |-> MIF]
    <3>1. CASE hart = g
      <4>1. SCHEDULERS'[g] = [SCHEDULERS[g] EXCEPT !.task_table = [SCHEDULERS[g].task_table EXCEPT ![slot] = Ready]]
        BY <1>1, <3>1, SMT DEF SetState, BootInv, OnHarts
      <4>2. [row(Upto(g)) EXCEPT ![slot] = Ready] = row(Upto(g)')
        <5>1. \A x : x \in Upto(g)' <=> x \in Upto(g) \/ x = slot
          BY <2>1, <3>1, Zenon
        <5>2. QED
          BY <5>1, RowWith, Zenon
      <4> HIDE DEF row
      <4>3. SCHEDULERS[g].task_table = row(Upto(g))
        BY <2>2, SMT
      <4>4. SCHEDULERS'[g] = [SCHEDULERS[g] EXCEPT !.task_table = row(Upto(g)')]
        BY <4>1, <4>2, <4>3, Zenon
      <4>5. QED
        BY <2>2, <4>4, SMT
    <3>2. CASE hart # g
      <4>1. SCHEDULERS'[g] = SCHEDULERS[g]
        BY <1>1, <3>2, SMT DEF SetState, BootInv, OnHarts
      <4>2. row(Upto(g)') = row(Upto(g))
        BY <2>1, <3>2, SMT
      <4>3. QED
        BY <2>2, <4>1, <4>2, Zenon
    <3>3. QED
      BY <3>1, <3>2, Zenon
  <2>4. Registered(Upto(g)').task_table = row(Upto(g)')
    BY SMT DEF Registered
  <2>5. context'[g] = [i \in Slot |-> "fresh"]
    BY <1>1, <1>3, Zenon DEF BootInv, Unstarted
  <2> HIDE DEF row
  <2>6. QED
    BY <1>5, <2>3, <2>4, <2>5, Zenon DEF Unstarted
<1>9. /\ StartedHarts' = StartedHarts /\ StartedContexts' = StartedContexts
      /\ \A g \in Hart : InUser(g)' <=> InUser(g)
  <2>1. "register" # "user" /\ to # "user"
    BY <1>2, Zenon
  <2>2. QED
    BY <1>1, <1>2, <1>3, <1>7, <2>1, NoneStarts, Zenon
<1>10. Apart'
  BY <1>1, <1>9, ApartStays, Zenon DEF BootInv
<1>11. Silent
  BY <1>1, <1>9, Zenon DEF Silent
<1>12. QED
  BY <1>1, <1>7, <1>8, <1>10, <1>11, Zenon DEF BootInv, OnHarts

\* What the table of a hart is when it comes to start_first_task.
LEMMA AtStart ==
    ASSUME BootInv, NEW h \in Hart, pc[h] \in {"select", "point", "start"}
    PROVE  /\ SCHEDULERS[h] = [task_table |-> Registered(Tasks[h]).task_table,
                               current |-> IF pc[h] = "start" THEN first_idx[h] ELSE 0, remaining |-> MIF]
           /\ FirstReady(SCHEDULERS[h]) = FirstReady(Registered(Tasks[h]))
           /\ context[h] = [i \in Slot |-> "fresh"] /\ Upto(h) = Tasks[h]
           /\ pc[h] \in {"point", "start"} => first_idx[h] = FirstReady(Registered(Tasks[h]))
<1>1. Upto(h) = Tasks[h]
  <2>1. registered = 7
    BY StartsRegistered, Zenon DEF BootInv
  <2>2. QED
    BY <2>1, AllRegistered, Zenon
<1>2. Unstarted(h)
  BY Zenon DEF BootInv, InUser
<1>3. SCHEDULERS[h] = [task_table |-> Registered(Tasks[h]).task_table,
                       current |-> IF pc[h] = "start" THEN first_idx[h] ELSE 0, remaining |-> MIF]
  BY <1>1, <1>2, Zenon DEF Unstarted
<1>4. SCHEDULERS[h].task_table = Registered(Tasks[h]).task_table
  BY <1>3, SMT
<1>5. FirstReady(SCHEDULERS[h]) = FirstReady(Registered(Tasks[h]))
  BY <1>4, Zenon DEF FirstReady
<1>6. QED
  BY <1>1, <1>2, <1>3, <1>5, Zenon DEF Unstarted

\* The scan of start_first_task stores the first ready task in a local.
LEMMA SelectsStep ==
    ASSUME BootInv, Sequence', NEW h \in Hart, Selects(h)
    PROVE  Silent /\ BootInv'
<1>1. /\ Goes(h, "select", "point") /\ first_idx' = [first_idx EXCEPT ![h] = FirstReady(SCHEDULERS[h])]
      /\ UNCHANGED <<SCHEDULERS, context, MUTEXES, TICK_COUNT, timer, msip, SCHED_LOCK, halted, registered>>
      /\ UNCHANGED programAndClockVars
  BY Zenon DEF Selects, systemVars, vars, programAndClockVars
<1>2. pc[h] = "select" /\ pc'[h] = "point" /\ \A g \in Hart : g # h => pc'[g] = pc[g]
  BY <1>1, OneGoes, Zenon DEF BootInv
<1>3. /\ OnHarts(first_idx') /\ first_idx'[h] = FirstReady(SCHEDULERS[h])
      /\ \A g \in Hart : g # h => first_idx'[g] = first_idx[g]
  <2>1. OnHarts(first_idx)
    BY Zenon DEF BootInv
  <2>2. QED
    <3>1. LET x == [first_idx EXCEPT ![h] = FirstReady(SCHEDULERS[h])] IN
          OnHarts(x) /\ x[h] = FirstReady(SCHEDULERS[h]) /\ \A g \in Hart : g # h => x[g] = first_idx[g]
      BY <2>1, ExceptOnHarts
    <3>2. QED
      BY <1>1, <3>1, Zenon
<1>4. /\ StartedHarts' = StartedHarts /\ StartedContexts' = StartedContexts
      /\ \A g \in Hart : InUser(g)' <=> InUser(g)
  <2>1. OnHarts(SCHEDULERS') /\ "select" # "user" /\ "point" # "user"
    BY <1>1, Zenon DEF BootInv
  <2>2. QED
    BY <1>1, <2>1, NoneStarts, Zenon
<1>5. Silent
  BY <1>1, <1>4, Zenon DEF Silent
<1>6. Apart'
  BY <1>1, <1>4, ApartStays, Zenon DEF BootInv
<1>7. ASSUME NEW g \in Hart, ~InUser(g)' PROVE Unstarted(g)'
  <2>1. Unstarted(g) /\ Upto(g)' = Upto(g)
    BY <1>1, <1>4, <1>7, Zenon DEF BootInv, Upto
  <2>2. CASE g # h
    BY <1>1, <1>2, <1>3, <2>1, <2>2, Zenon DEF Unstarted
  <2>3. CASE g = h
    <3>1. FirstReady(SCHEDULERS[h]) = FirstReady(Registered(Tasks[h]))
      BY <1>2, AtStart, Zenon
    <3>2. QED
      BY <1>1, <1>2, <1>3, <2>1, <2>3, <3>1, Zenon DEF Unstarted
  <2>4. QED
    BY <2>2, <2>3, Zenon
<1>8. QED
  BY <1>1, <1>3, <1>5, <1>6, <1>7, Zenon DEF BootInv, OnHarts

\* start_first_task sets current and the slice.
LEMMA PointsStep ==
    ASSUME BootInv, Sequence', NEW h \in Hart, Points(h)
    PROVE  Silent /\ BootInv'
<1>1. /\ Goes(h, "point", "start")
      /\ SCHEDULERS' = [SCHEDULERS EXCEPT ![h].current = first_idx[h], ![h].remaining = MIF]
      /\ UNCHANGED <<context, MUTEXES, TICK_COUNT, timer, msip, SCHED_LOCK, halted, registered, first_idx>>
      /\ UNCHANGED programAndClockVars
  BY Zenon DEF Points, localVars
<1>2. pc[h] = "point" /\ pc'[h] = "start" /\ \A g \in Hart : g # h => pc'[g] = pc[g]
  BY <1>1, OneGoes, Zenon DEF BootInv
<1>3. /\ SCHEDULERS[h] = [task_table |-> Registered(Tasks[h]).task_table, current |-> 0, remaining |-> MIF]
      /\ Upto(h) = Tasks[h] /\ first_idx[h] = FirstReady(Registered(Tasks[h]))
      /\ context[h] = [i \in Slot |-> "fresh"]
  BY <1>2, AtStart, Zenon
<1>4. /\ OnHarts(SCHEDULERS')
      /\ SCHEDULERS'[h] = [SCHEDULERS[h] EXCEPT !.current = first_idx[h], !.remaining = MIF]
      /\ \A g \in Hart : g # h => SCHEDULERS'[g] = SCHEDULERS[g]
  BY <1>1, Zenon DEF BootInv, OnHarts
<1>5. SCHEDULERS'[h] = [task_table |-> Registered(Tasks[h]).task_table, current |-> first_idx[h], remaining |-> MIF]
  <2> DEFINE s == SCHEDULERS[h]
             t == Registered(Tasks[h]).task_table
             a == first_idx[h]
             q == [task_table |-> t, current |-> a, remaining |-> MIF]
  <2>1. s = [task_table |-> t, current |-> 0, remaining |-> MIF]
    BY <1>3, Zenon
  <2>2. SCHEDULERS'[h] = [[s EXCEPT !.current = a] EXCEPT !.remaining = MIF]
    BY <1>4, Zenon
  <2> HIDE DEF s, t, a
  <2>3. [s EXCEPT !.current = a] = q
    BY <2>1, SMT
  <2>4. [q EXCEPT !.remaining = MIF] = q
    BY SMT
  <2> HIDE DEF q
  <2>5. SCHEDULERS'[h] = q
    BY <2>2, <2>3, <2>4, Zenon
  <2>6. QED
    BY <2>5, Zenon DEF q, t, a
<1>6. /\ StartedHarts' = StartedHarts /\ StartedContexts' = StartedContexts
      /\ \A g \in Hart : InUser(g)' <=> InUser(g)
  <2>1. "point" # "user" /\ "start" # "user"
    BY Zenon
  <2>2. \A g \in Hart : InUser(g) => SCHEDULERS'[g] = SCHEDULERS[g]
    BY <1>2, <1>4, Zenon DEF InUser
  <2>3. QED
    BY <1>1, <1>4, <2>1, <2>2, NoneStarts, Zenon
<1>7. Silent
  BY <1>1, <1>6, Zenon DEF Silent
<1>8. Apart'
  BY <1>1, <1>6, ApartStays, Zenon DEF BootInv
<1>9. ASSUME NEW g \in Hart, ~InUser(g)' PROVE Unstarted(g)'
  <2>1. Unstarted(g) /\ Upto(g)' = Upto(g)
    BY <1>1, <1>6, <1>9, Zenon DEF BootInv, Upto
  <2>2. CASE g # h
    BY <1>1, <1>2, <1>4, <2>1, <2>2, Zenon DEF Unstarted
  <2>3. CASE g = h
    BY <1>1, <1>2, <1>3, <1>5, <2>1, <2>3, Zenon DEF Unstarted
  <2>4. QED
    BY <2>2, <2>3, Zenon
<1>10. QED
  BY <1>1, <1>4, <1>7, <1>8, <1>9, Zenon DEF BootInv, OnHarts

\* The first partition of a hart starts: its table and its frames are now
\* what the mapping showed all along.
LEMMA StartsStep ==
    ASSUME BootInv, Sequence', NEW h \in Hart, Starts(h)
    PROVE  Silent /\ BootInv'
<1> DEFINE f == first_idx[h]
<1>1. /\ Goes(h, "start", "user")
      /\ SCHEDULERS' = SetState(SCHEDULERS, h, f, Running)
      /\ context' = [context EXCEPT ![h][f] = "live"]
      /\ UNCHANGED <<MUTEXES, TICK_COUNT, timer, msip, SCHED_LOCK, halted, registered, first_idx>>
      /\ UNCHANGED programAndClockVars
  BY Zenon DEF Starts
<1>2. pc[h] = "start" /\ pc'[h] = "user" /\ \A g \in Hart : g # h => pc'[g] = pc[g]
  BY <1>1, OneGoes, Zenon DEF BootInv
<1>3. /\ SCHEDULERS[h] = [task_table |-> Registered(Tasks[h]).task_table, current |-> f, remaining |-> MIF]
      /\ f = FirstReady(Registered(Tasks[h]))
  BY <1>2, AtStart, Zenon
<1>4. Fresh(h) = [task_table |-> [Registered(Tasks[h]).task_table EXCEPT ![f] = Running], current |-> f, remaining |-> MIF]
  BY <1>3, Zenon DEF Fresh, start_first_task
<1>5. /\ OnHarts(SCHEDULERS')
      /\ SCHEDULERS'[h] = [SCHEDULERS[h] EXCEPT !.task_table = [SCHEDULERS[h].task_table EXCEPT ![f] = Running]]
      /\ \A g \in Hart : g # h => SCHEDULERS'[g] = SCHEDULERS[g]
  BY <1>1, SMT DEF BootInv, OnHarts, SetState
<1>6. /\ OnHarts(context')
      /\ context'[h] = [context[h] EXCEPT ![f] = "live"]
      /\ \A g \in Hart : g # h => context'[g] = context[g]
  <2>1. context' = [context EXCEPT ![h] = [context[h] EXCEPT ![f] = "live"]]
    BY <1>1, SMT
  <2>2. OnHarts(context)
    BY Zenon DEF BootInv
  <2>3. QED
    <3>1. LET x == [context EXCEPT ![h] = [context[h] EXCEPT ![f] = "live"]] IN
          OnHarts(x) /\ x[h] = [context[h] EXCEPT ![f] = "live"] /\ \A g \in Hart : g # h => x[g] = context[g]
      BY <2>2, ExceptOnHarts
    <3>2. QED
      BY <2>1, <3>1, Zenon
<1> HIDE DEF f
<1>7. SCHEDULERS'[h] = Fresh(h)
  <2> DEFINE T == [Registered(Tasks[h]).task_table EXCEPT ![f] = Running]
  <2>1. SCHEDULERS[h].task_table = Registered(Tasks[h]).task_table
    BY <1>3, SMT
  <2>2. SCHEDULERS'[h] = [SCHEDULERS[h] EXCEPT !.task_table = T]
    BY <1>5, <2>1, Zenon
  <2> HIDE DEF T
  <2>3. SCHEDULERS'[h] = [task_table |-> T, current |-> f, remaining |-> MIF]
    BY <1>3, <2>2, SMT
  <2>4. QED
    BY <1>4, <2>3, Zenon DEF T
<1>8. Fresh(h).current = f
  BY <1>4, SMT
<1>9. InUser(h)' /\ ~InUser(h) /\ \A g \in Hart : g # h => (InUser(g)' <=> InUser(g))
  BY <1>2, Zenon DEF InUser
<1>10. ASSUME NEW g \in Hart
       PROVE  StartedHart(g)' = StartedHart(g) /\ StartedContext(g)' = StartedContext(g)
  <2>1. CASE g = h
    <3>1. StartedHart(h)' = SCHEDULERS'[h] /\ StartedContext(h)' = context'[h]
      BY <1>9, Zenon DEF StartedHart, StartedContext
    <3>2. StartedHart(h) = Fresh(h)
      BY <1>9, Zenon DEF StartedHart, Fresh
    <3>3. StartedContext(h) = [context[h] EXCEPT ![f] = "live"]
      BY <1>8, <1>9, <3>2, Zenon DEF StartedContext
    <3>4. QED
      BY <1>6, <1>7, <2>1, <3>1, <3>2, <3>3, Zenon
  <2>2. CASE g # h
    <3>1. SCHEDULERS'[g] = SCHEDULERS[g] /\ context'[g] = context[g] /\ (InUser(g)' <=> InUser(g))
      BY <1>5, <1>6, <1>9, <2>2, Zenon
    <3>2. StartedHart(g)' = StartedHart(g)
      BY <3>1, Zenon DEF StartedHart
    <3>3. QED
      BY <3>1, <3>2, Zenon DEF StartedContext
  <2>3. QED
    BY <2>1, <2>2, Zenon
<1>11. StartedHarts' = StartedHarts /\ StartedContexts' = StartedContexts
  <2>1. OnHarts(SCHEDULERS) /\ OnHarts(context) /\ 0 \in Hart /\ 1 \in Hart
    BY Zenon DEF BootInv, Hart
  <2>2. /\ StartedHarts' = [g \in Hart |-> IF g = 0 THEN StartedHart(0)' ELSE StartedHart(1)']
        /\ StartedContexts' = [g \in Hart |-> IF g = 0 THEN StartedContext(0)' ELSE StartedContext(1)']
    <3>1. OnHarts(SCHEDULERS')
      BY <1>5, Zenon
    <3>2. OnHarts(context')
      BY <1>6, Zenon
    <3>3. StartedHarts' = [g \in Hart |-> IF g = 0 THEN StartedHart(0)' ELSE StartedHart(1)']
      BY <3>1, BothReplaced, Zenon DEF StartedHarts
    <3>4. StartedContexts' = [g \in Hart |-> IF g = 0 THEN StartedContext(0)' ELSE StartedContext(1)']
      BY <3>2, BothReplaced, Zenon DEF StartedContexts
    <3>5. QED
      BY <3>3, <3>4, Zenon
  <2>3. /\ StartedHarts = [g \in Hart |-> IF g = 0 THEN StartedHart(0) ELSE StartedHart(1)]
        /\ StartedContexts = [g \in Hart |-> IF g = 0 THEN StartedContext(0) ELSE StartedContext(1)]
    BY <2>1, BothReplaced DEF StartedHarts, StartedContexts
  <2>4. QED
    BY <1>10, <2>1, <2>2, <2>3, Zenon
<1>12. Silent
  BY <1>1, <1>11, Zenon DEF Silent
<1>13. Apart'
  BY <1>1, <1>9, ApartStays, Zenon DEF BootInv
<1>14. ASSUME NEW g \in Hart, ~InUser(g)' PROVE Unstarted(g)'
  <2>1. g # h /\ Unstarted(g) /\ Upto(g)' = Upto(g)
    BY <1>1, <1>9, <1>14, Zenon DEF BootInv, Upto
  <2>2. QED
    BY <1>1, <1>2, <1>5, <1>6, <2>1, Zenon DEF Unstarted
<1>15. QED
  BY <1>1, <1>5, <1>6, <1>12, <1>13, <1>14, Zenon DEF BootInv, OnHarts

\* Every step of kmain.
LEMMA KmainStep ==
    ASSUME BootInv, NEW h \in Hart, kmain(h)
    PROVE  Silent /\ BootInv'
<1>1. Sequence'
  BY SequenceStep, Zenon DEF BootInv
<1>2. 0 \in Hart /\ 1 \in Hart
  BY Zenon DEF Hart
<1> DEFINE Inside(s) == s \notin {"user", "point", "start"}
<1>3. ASSUME NEW g \in Hart, NEW from, NEW to, Goes(g, from, to), Inside(from), Inside(to),
             UNCHANGED <<systemVars, registered, first_idx>>
      PROVE  Silent /\ BootInv'
  BY <1>1, <1>3, LocalStep, Zenon
<1>4. CASE AwaitsBarrier
  <2>1. Goes(1, "barrier", "reset") /\ Inside("barrier") /\ Inside("reset")
        /\ UNCHANGED <<systemVars, registered, first_idx>>
    BY <1>4, Zenon DEF AwaitsBarrier, localVars
  <2>2. QED
    BY <1>2, <1>3, <2>1, Zenon
<1>5. CASE Signals
  <2>1. Goes(1, "signal", "select") /\ Inside("signal") /\ Inside("select")
        /\ UNCHANGED <<systemVars, registered, first_idx>>
    BY <1>5, Zenon DEF Signals, localVars
  <2>2. QED
    BY <1>2, <1>3, <2>1, Zenon
<1>6. CASE Verifies
  <2>1. PICK to \in {"stacks", "wfi"} : Goes(0, "verify", to)
    BY <1>6, Zenon DEF Verifies
  <2>2. Inside("verify") /\ Inside(to) /\ UNCHANGED <<systemVars, registered, first_idx>>
    BY <1>6, <2>1, Zenon DEF Verifies, localVars
  <2>3. QED
    BY <1>2, <1>3, <2>1, <2>2, Zenon
<1>7. CASE InitializesStacks
  <2>1. Goes(0, "stacks", "register") /\ Inside("stacks") /\ Inside("register")
        /\ UNCHANGED <<systemVars, registered, first_idx>>
    BY <1>7, Zenon DEF InitializesStacks
  <2>2. QED
    BY <1>2, <1>3, <2>1, Zenon
<1>8. CASE Releases
  <2>1. Goes(0, "release", "wait") /\ Inside("release") /\ Inside("wait")
        /\ UNCHANGED <<systemVars, registered, first_idx>>
    BY <1>8, Zenon DEF Releases, localVars
  <2>2. QED
    BY <1>2, <1>3, <2>1, Zenon
<1>9. CASE AwaitsCore1
  <2>1. Goes(0, "wait", "select") /\ Inside("wait") /\ Inside("select")
        /\ UNCHANGED <<systemVars, registered, first_idx>>
    BY <1>9, Zenon DEF AwaitsCore1, localVars
  <2>2. QED
    BY <1>2, <1>3, <2>1, Zenon
<1>10. CASE Resets(h)
  <2>1. PICK to \in {"verify", "timer"} : Goes(h, "reset", to)
    BY <1>10, Zenon DEF Resets
  <2>2. Inside("reset") /\ Inside(to) /\ UNCHANGED <<systemVars, registered, first_idx>>
    BY <1>10, <2>1, Zenon DEF Resets
  <2>3. QED
    BY <1>3, <2>1, <2>2, Zenon
<1>11. CASE init_timer(h)
  <2>1. PICK to \in {"release", "signal"} : Goes(h, "timer", to)
    BY <1>11, Zenon DEF init_timer
  <2>2. Inside("timer") /\ Inside(to) /\ UNCHANGED <<systemVars, registered, first_idx>>
    BY <1>11, <2>1, Zenon DEF init_timer
  <2>3. QED
    BY <1>3, <2>1, <2>2, Zenon
<1>12. QED
  BY <1>1, <1>4, <1>5, <1>6, <1>7, <1>8, <1>9, <1>10, <1>11,
     RegistersStep, SelectsStep, PointsStep, StartsStep, Zenon DEF kmain

\* A silent step is a stuttering step of System.
LEMMA SilentStutters == Silent => UNCHANGED Booted!systemVars
BY Zenon DEF Silent, programAndClockVars, Booted!systemVars, Booted!vars, Booted!programVars,
   Booted!watchdogVars, Booted!clockVars, programVars, watchdogVars, clockVars

\* Every step preserves the invariant, and is a step of System or a stutter.
LEMMA BootStep ==
    ASSUME BootInv, [Next_Boot]_bootVars
    PROVE  BootInv' /\ [Booted!Next_System]_Booted!systemVars
<1>1. CASE UNCHANGED bootVars
  <2>1. /\ UNCHANGED <<SCHEDULERS, MUTEXES, TICK_COUNT, timer, msip, context, SCHED_LOCK, halted,
                       programAndClockVars>>
        /\ UNCHANGED <<pc, trusted, localVars, barrierVars>>
    BY <1>1, Zenon DEF bootVars, systemVars, vars, programAndClockVars
  <2>2. UNCHANGED <<stacks, registered, mtvec, pmp, armed, mscratch, first_idx, BOOT_BARRIER>>
        /\ UNCHANGED <<current_tick, LAST_CHECKIN_TICK>>
    BY <2>1, Zenon DEF localVars, barrierVars, programAndClockVars, watchdogVars, programVars
  <2>3. BootInv'
    <3>1. Sequence'
      BY <2>1, <2>2, Zenon DEF BootInv, Sequence, Released, InUser
    <3>2. Apart'
      BY <2>1, <2>2, Zenon DEF BootInv, Apart, InUser
    <3>3. \A h \in Hart : ~InUser(h)' => Unstarted(h)'
      BY <2>1, <2>2, Zenon DEF BootInv, Unstarted, InUser, Upto
    <3>4. QED
      BY <2>1, <2>2, <3>1, <3>2, <3>3, Zenon DEF BootInv, OnHarts
  <2>4. StartedHarts' = StartedHarts /\ StartedContexts' = StartedContexts
    BY <2>1, KeptMapped, Zenon DEF BootInv
  <2>5. Silent
    BY <2>1, <2>4, Zenon DEF Silent
  <2>6. QED
    BY <2>3, <2>5, SilentStutters, Zenon
<1>2. CASE Partitions
  BY <1>2, PartitionsMapped, PartitionsInv, Zenon
<1>3. ASSUME NEW h \in Hart, kmain(h) PROVE BootInv' /\ UNCHANGED Booted!systemVars
  BY <1>3, KmainStep, SilentStutters, Zenon
<1>4. QED
  BY <1>1, <1>2, <1>3, Zenon DEF Next_Boot

\* At reset nothing is started, and the mapped state is System's first one.
LEMMA BootInit == Init_Boot => BootInv /\ Booted!Init_System
<1>1. SUFFICES ASSUME Init_Boot PROVE BootInv /\ Booted!Init_System
  BY Zenon
<1>2. /\ SCHEDULERS = [h \in Hart |-> Registered({})] /\ context = [h \in Hart |-> [i \in Slot |-> "fresh"]]
      /\ pc = [h \in Hart |-> IF h = 0 THEN "reset" ELSE "barrier"]
      /\ first_idx = [h \in Hart |-> 0] /\ registered = 0 /\ armed = {} /\ BOOT_BARRIER = FALSE
      /\ MUTEXES = [m \in Mutex |-> [locked |-> FALSE, owner |-> NoOwner, waiters |-> {}]]
      /\ TICK_COUNT = 0 /\ SCHED_LOCK = "free" /\ halted = {}
      /\ timer = [h \in Hart |-> NoTick] /\ msip = [h \in Hart |-> FALSE]
      /\ Init_Programs
  BY <1>1, Zenon DEF Init_Boot
<1>3. 0 \in Hart /\ 1 \in Hart /\ pc[0] = "reset" /\ pc[1] = "barrier"
      /\ \A h \in Hart : pc[h] \in {"reset", "barrier"}
  BY <1>2, SMT DEF Hart
<1>4. \A h \in Hart : ~InUser(h) /\ pc[h] \notin {"point", "start"}
  BY <1>3, Zenon DEF InUser
<1>5. Sequence
  <2>1. registered \in 0 .. 7 /\ registered < 7
    BY <1>2, SMT
  <2>2. pc \in [Hart -> {"barrier", "reset", "verify", "wfi", "stacks", "register", "timer",
                         "release", "wait", "signal", "select", "point", "start", "user"}]
    BY <1>2, Zenon
  <2>3. ~BOOT_BARRIER /\ armed \subseteq Hart
    BY <1>2, Zenon
  <2>4. QED
    BY <1>3, <1>4, <2>1, <2>2, <2>3, Zenon DEF Sequence, Released
<1>6. OnHarts(SCHEDULERS) /\ OnHarts(context) /\ OnHarts(first_idx)
  BY <1>2, Zenon DEF OnHarts
<1>7. ASSUME NEW h \in Hart PROVE Unstarted(h)
  <2>1. Upto(h) = {}
    <3>1. {m \in 1 .. 7 : m <= registered /\ Registrations[m][1] = h} = {}
      BY <1>2, SMT
    <3>2. QED
      BY <3>1, Zenon DEF Upto
  <2>2. SCHEDULERS[h] = Registered(Upto(h))
    BY <1>2, <2>1, Zenon
  <2>3. Registered(Upto(h)) = [task_table |-> Registered(Upto(h)).task_table, current |-> 0, remaining |-> MIF]
    BY SMT DEF Registered
  <2>4. QED
    BY <1>2, <1>4, <2>2, <2>3, Zenon DEF Unstarted
<1>8. Apart
  <2>1. MUTEXES \in [Mutex -> KernelMutex] /\ \A m \in Mutex : MUTEXES[m].waiters = {}
    BY <1>2, SMT DEF KernelMutex
  <2>2. QED
    BY <1>2, <2>1, Zenon DEF Apart, Init_Programs
<1>9. BootInv
  BY <1>5, <1>6, <1>7, <1>8, Zenon DEF BootInv
<1>10. StartedHarts = [h \in Hart |-> Fresh(h)]
  BY <1>4, <1>6, Mapped, Zenon DEF Over
<1>11. StartedContexts = [h \in Hart |-> [i \in Slot |-> IF i = Fresh(h).current THEN "live" ELSE "fresh"]]
  <2>1. StartedContexts = [h \in Hart |-> [context[h] EXCEPT ![Fresh(h).current] = "live"]]
    BY <1>4, <1>6, Mapped, Zenon DEF OverC
  <2>2. ASSUME NEW h \in Hart
        PROVE  [context[h] EXCEPT ![Fresh(h).current] = "live"]
                  = [i \in Slot |-> IF i = Fresh(h).current THEN "live" ELSE "fresh"]
    <3> DEFINE c == Fresh(h).current
    <3> HIDE DEF c
    <3>1. context[h] = [i \in Slot |-> "fresh"]
      BY <1>2, Zenon
    <3>2. [[i \in Slot |-> "fresh"] EXCEPT ![c] = "live"] = [i \in Slot |-> IF i = c THEN "live" ELSE "fresh"]
      BY SMT
    <3>3. QED
      BY <3>1, <3>2, Zenon DEF c
  <2>3. QED
    BY <2>1, <2>2, Zenon
<1>12. Booted!Init
  <2>1. StartedHarts = [h \in Booted!Hart |-> Booted!start_first_task(Booted!Registered(Tasks[h]))]
    <3>1. \A h : Booted!start_first_task(Booted!Registered(Tasks[h])) = Fresh(h)
      BY Zenon DEF Booted!start_first_task, start_first_task, Booted!Registered, Registered, Fresh,
         Booted!FirstReady, FirstReady, Booted!Slot, Slot, Booted!Ready, Ready, Booted!NoTask, NoTask,
         Booted!Running, Running, Booted!State, State
    <3>2. QED
      BY <1>10, <3>1, SameOperators
  <2>2. StartedContexts = [h \in Booted!Hart |-> [i \in Booted!Slot |->
            IF i = StartedHarts[h].current THEN "live" ELSE "fresh"]]
    <3>1. \A h \in Hart : StartedHarts[h] = Fresh(h)
      BY <1>10, Zenon
    <3>2. [h \in Hart |-> [i \in Slot |-> IF i = Fresh(h).current THEN "live" ELSE "fresh"]]
            = [h \in Hart |-> [i \in Slot |-> IF i = StartedHarts[h].current THEN "live" ELSE "fresh"]]
      BY <3>1
    <3>3. QED
      BY <1>11, <3>2, SameOperators, Zenon
  <2>3. /\ Booted!Hart = Hart /\ Booted!NoOwner = NoOwner /\ Booted!NoTick = NoTick
    BY SameOperators, Zenon
  <2>4. QED
    BY <1>2, <2>1, <2>2, <2>3, Zenon DEF Booted!Init
<1>13. Booted!Init_Programs
  BY <1>2, SamePrograms, Zenon DEF Init_Programs, Booted!Init_Programs
<1>14. QED
  BY <1>9, <1>12, <1>13, Zenon DEF Booted!Init_System

\* The boot sequence implements System: the partitions that run on one hart
\* while the other is still in start_first_task, which takes no lock, find and
\* leave the other's table as if it had started.
THEOREM BootRefines == Spec_Boot => BootImplementsSystem
<1>1. Init_Boot => BootInv /\ Booted!Init_System
  BY BootInit, Zenon
<1>2. BootInv /\ [Next_Boot]_bootVars => BootInv' /\ [Booted!Next_System]_Booted!systemVars
  BY BootStep, Zenon
<1>3. QED
  BY <1>1, <1>2, PTL DEF Spec_Boot, BootImplementsSystem, Booted!Spec_System

-----------------------------------------------------------------------------
(* Every task is registered when partitions run                             *)

\* In the schedulers S the occupied slots are the registered ones, and a hart
\* that has started executes one of them.
Staffed(S) ==
    /\ S \in [Hart -> BitMapScheduler]
    /\ \A g \in Hart : \A i \in Slot : St(S, g, i).kind = "None" <=> i \notin Tasks[g]
    /\ \A g \in Hart : InUser(g) => S[g].current \in Tasks[g]

\* What of it an unstarted hart does not show by itself.
Manned ==
    /\ TICK_COUNT \in Nat
    /\ \A h \in Hart : InUser(h) =>
          /\ SCHEDULERS[h] \in BitMapScheduler /\ Current(h) \in Tasks[h]
          /\ \A i \in Slot : KindOf(h, i) = "None" <=> i \notin Tasks[h]

\* The scheduler start_first_task leaves behind.
LEMMA FreshStaffed ==
    ASSUME NEW h \in Hart
    PROVE  /\ Fresh(h) \in BitMapScheduler /\ Fresh(h).current \in Tasks[h]
           /\ \A i \in Slot : Fresh(h).task_table[i].kind = "None" <=> i \notin Tasks[h]
<1>1. Tasks[h] \in SUBSET Slot /\ IDLE \in Tasks[h]
  BY KernelAssumption, Zenon
<1>2. /\ Fresh(h) \in BitMapScheduler /\ Fresh(h).current \in Tasks[h]
      /\ \A i \in Slot : Fresh(h).task_table[i] =
            IF i = Fresh(h).current THEN Running ELSE IF i \in Tasks[h] THEN Ready ELSE NoTask
  BY <1>1, BootScheduler DEF Fresh
<1>3. Running.kind = "Running" /\ Ready.kind = "Ready" /\ NoTask.kind = "None"
  BY Zenon DEF Running, Ready, NoTask, State
<1>4. QED
  BY <1>2, <1>3, Zenon

\* As soon as one hart has started, both tables are complete.
LEMMA StartedStaffed ==
    ASSUME BootInv, Manned, NEW h \in Hart, InUser(h)
    PROVE  Staffed(SCHEDULERS)
<1>1. registered = 7
  BY StartsRegistered, Zenon DEF BootInv, InUser
<1>2. ASSUME NEW g \in Hart
      PROVE  /\ SCHEDULERS[g] \in BitMapScheduler
             /\ \A i \in Slot : SCHEDULERS[g].task_table[i].kind = "None" <=> i \notin Tasks[g]
  <2>1. CASE InUser(g)
    BY <2>1, Zenon DEF Manned, KindOf
  <2>2. CASE ~InUser(g)
    <3> DEFINE c == IF pc[g] = "start" THEN first_idx[g] ELSE 0
    <3>1. SCHEDULERS[g] = [task_table |-> Registered(Tasks[g]).task_table,
                           current |-> c, remaining |-> MIF]
      BY <1>1, <2>2, AllRegistered, Zenon DEF BootInv, Unstarted
    <3>2. FirstReady(Registered(Tasks[g])) \in Slot
      <4>1. Fresh(g).current = FirstReady(Registered(Tasks[g]))
        BY SMT DEF Fresh, start_first_task
      <4>2. Fresh(g) \in BitMapScheduler
        BY FreshStaffed, Zenon
      <4>3. QED
        BY <4>1, <4>2, SMT DEF BitMapScheduler
    <3>3. c \in Slot
      BY <2>2, <3>2, SlotFacts, Zenon DEF BootInv, Unstarted
    <3> HIDE DEF c
    <3>4. MIF \in 0 .. MIF
      BY SchedulerAssumption, SMT
    <3>5. Registered(Tasks[g]).task_table = [i \in Slot |-> IF i \in Tasks[g] THEN Ready ELSE NoTask]
      BY SMT DEF Registered
    <3>6. [i \in Slot |-> IF i \in Tasks[g] THEN Ready ELSE NoTask] \in [Slot -> TaskState]
      BY SlotFacts, Zenon
    <3>7. Ready.kind = "Ready" /\ NoTask.kind = "None"
      BY Zenon DEF Ready, NoTask, State
    <3>8. SCHEDULERS[g] \in BitMapScheduler
      BY <3>1, <3>3, <3>4, <3>5, <3>6, SMTT(20) DEF BitMapScheduler
    <3>9. SCHEDULERS[g].task_table = [i \in Slot |-> IF i \in Tasks[g] THEN Ready ELSE NoTask]
      BY <3>1, <3>5, SMT
    <3>10. QED
      BY <3>7, <3>8, <3>9, Zenon
  <2>3. QED
    BY <2>1, <2>2, Zenon
<1>3. SCHEDULERS = [g \in Hart |-> SCHEDULERS[g]]
  BY Zenon DEF BootInv, OnHarts
<1>4. SCHEDULERS \in [Hart -> BitMapScheduler]
  BY <1>2, <1>3, Zenon
<1>5. QED
  BY <1>2, <1>4, Zenon DEF Staffed, St, Manned, Current

\* switch_task dispatches a registered task and empties no slot.
LEMMA SwitchStaffed ==
    ASSUME NEW S, Staffed(S), NEW h \in Hart, NEW t \in BOOLEAN, switch_task(h, S, t)
    PROVE  Staffed(SCHEDULERS')
<1>1. S \in [Hart -> BitMapScheduler] /\ SCHEDULERS' = [S EXCEPT ![h] = schedule(S[h], t)]
  BY Zenon DEF Staffed, switch_task
<1>2. S[h] \in BitMapScheduler
  BY <1>1, Zenon
<1>3. /\ schedule(S[h], t) \in BitMapScheduler
      /\ schedule(S[h], t).current \in Tasks[h] \/ schedule(S[h], t).current = S[h].current
  <2>1. CASE ~(Triggered(S[h], t) /\ Found(S[h]))
    BY <1>2, <2>1, ScheduleKeeps, Zenon
  <2>2. CASE Triggered(S[h], t) /\ Found(S[h])
    <3>1. /\ NextPartition(S[h]) \in Slot
          /\ S[h].task_table[NextPartition(S[h])].kind = "Ready"
      BY <1>2, <2>2, NextPartitionFacts, Zenon
    <3>2. NextPartition(S[h]) \in Tasks[h]
      BY <3>1, Zenon DEF Staffed, St
    <3>3. /\ schedule(S[h], t) \in BitMapScheduler
          /\ schedule(S[h], t).current = NextPartition(S[h])
      BY <1>2, <2>2, ScheduleSwaps, Zenon
    <3>4. QED
      BY <3>2, <3>3, Zenon
  <2>3. QED
    BY <2>1, <2>2, Zenon
<1>4. SCHEDULERS' \in [Hart -> BitMapScheduler]
  BY <1>1, <1>3, Zenon
<1>5. \A g \in Hart : InUser(g) => SCHEDULERS'[g].current \in Tasks[g]
  BY <1>1, <1>3, Zenon DEF Staffed
<1>6. \A g \in Hart : \A i \in Slot : SameMode(St(S, g, i), St(SCHEDULERS', g, i))
  BY <1>1, SwitchModes, Zenon
<1>7. \A g \in Hart : \A i \in Slot : St(SCHEDULERS', g, i).kind = "None" <=> i \notin Tasks[g]
  <2> SUFFICES ASSUME NEW g \in Hart, NEW i \in Slot
               PROVE  St(SCHEDULERS', g, i).kind = "None" <=> i \notin Tasks[g]
    BY Zenon
  <2>1. St(S, g, i).kind = "None" <=> i \notin Tasks[g]
    BY Zenon DEF Staffed
  <2>2. SameMode(St(S, g, i), St(SCHEDULERS', g, i))
    BY <1>6, Zenon
  <2>3. QED
    BY <2>1, <2>2 DEF SameMode, Up
<1>8. QED
  BY <1>4, <1>5, <1>7, Zenon DEF Staffed

\* So does a change of state of a registered task.
LEMMA SetStateStaffed ==
    ASSUME NEW S, Staffed(S), NEW h \in Hart, NEW i \in Tasks[h], NEW st \in TaskState, st.kind # "None"
    PROVE  Staffed(SetState(S, h, i, st))
<1>1. S \in [Hart -> BitMapScheduler] /\ i \in Slot
  BY KernelAssumption, Zenon DEF Staffed
<1> DEFINE R == SetState(S, h, i, st)
<1>2. /\ R \in [Hart -> BitMapScheduler]
      /\ \A g \in Hart : R[g].current = S[g].current
      /\ \A g \in Hart, j \in Slot : St(R, g, j) = IF g = h /\ j = i THEN st ELSE St(S, g, j)
  BY <1>1, SetStateFacts
<1> HIDE DEF R
<1>3. \A g \in Hart : InUser(g) => R[g].current \in Tasks[g]
  BY <1>2, Zenon DEF Staffed
<1>4. ASSUME NEW g \in Hart, NEW j \in Slot PROVE St(R, g, j).kind = "None" <=> j \notin Tasks[g]
  <2>1. St(S, g, j).kind = "None" <=> j \notin Tasks[g]
    BY Zenon DEF Staffed
  <2>2. QED
    BY <1>2, <2>1
<1>5. Staffed(R)
  BY <1>2, <1>3, <1>4, Zenon DEF Staffed
<1>6. QED
  BY <1>5, Zenon DEF R

\* A termination, and the recovery of the mutexes after it.
LEMMA TerminatedStaffed ==
    ASSUME Staffed(SCHEDULERS), NEW h \in Hart, NEW i \in Tasks[h]
    PROVE  Staffed(TerminatedAndRecovered(h, i))
<1> DEFINE T(g) == [j \in Slot |->
                      IF j \in NewOwners(i) /\ g = WaiterHart(j) /\ KindOf(g, j) # "None" THEN Ready
                      ELSE IF g = h /\ j = i THEN Terminated
                      ELSE StateOf(g, j)]
           R == TerminatedAndRecovered(h, i)
<1>1. R = [g \in Hart |-> [SCHEDULERS[g] EXCEPT !.task_table = T(g)]]
  BY Zenon DEF TerminatedAndRecovered
<1>2. Ready.kind = "Ready" /\ Terminated.kind = "Terminated"
  BY Zenon DEF Ready, Terminated, State
<1>3. ASSUME NEW g \in Hart
      PROVE  /\ T(g) \in [Slot -> TaskState]
             /\ \A j \in Slot : T(g)[j].kind = "None" <=> j \notin Tasks[g]
  <2>1. \A j \in Slot : StateOf(g, j) \in TaskState
    <3>1. SCHEDULERS[g] \in BitMapScheduler
      BY Zenon DEF Staffed
    <3>2. QED
      BY <3>1, SMT DEF StateOf, BitMapScheduler
  <2>2. \A j \in Slot : KindOf(g, j) = "None" <=> j \notin Tasks[g]
    BY Zenon DEF Staffed, St, KindOf
  <2>3. \A j \in Slot : StateOf(g, j).kind = KindOf(g, j)
    BY Zenon DEF StateOf, KindOf
  <2>4. QED
    BY <1>2, <2>1, <2>2, <2>3, SlotFacts, Zenon
<1> HIDE DEF T
<1>4. ASSUME NEW g \in Hart
      PROVE  /\ R[g] \in BitMapScheduler /\ R[g].task_table = T(g)
             /\ R[g].current = SCHEDULERS[g].current
  <2>1. SCHEDULERS[g] \in BitMapScheduler /\ R[g] = [SCHEDULERS[g] EXCEPT !.task_table = T(g)]
    BY <1>1, Zenon DEF Staffed
  <2> HIDE DEF R
  <2>2. QED
    BY <1>3, <2>1, SMT DEF BitMapScheduler
<1>5. R = [g \in Hart |-> R[g]]
  BY <1>1, Zenon
<1> HIDE DEF R
<1>6. R \in [Hart -> BitMapScheduler]
  BY <1>4, <1>5, Zenon
<1>7. \A g \in Hart : InUser(g) => R[g].current \in Tasks[g]
  BY <1>4, Zenon DEF Staffed
<1>8. \A g \in Hart : \A j \in Slot : St(R, g, j).kind = "None" <=> j \notin Tasks[g]
  BY <1>3, <1>4 DEF St
<1>9. Staffed(R)
  BY <1>6, <1>7, <1>8, Zenon DEF Staffed
<1>10. QED
  BY <1>9, Zenon DEF R

\* A contained fault.
LEMMA FaultStaffed ==
    ASSUME Staffed(SCHEDULERS), NEW h \in Hart, InUser(h), Fault(h)
    PROVE  Staffed(SCHEDULERS')
<1> DEFINE c == Current(h)
<1>1. c \in Tasks[h] /\ switch_task(h, TerminatedAndRecovered(h, c), FALSE)
  BY Zenon DEF Staffed, Current, Fault
<1> HIDE DEF c
<1>2. Staffed(TerminatedAndRecovered(h, c))
  BY <1>1, TerminatedStaffed, Zenon
<1>3. QED
  BY <1>1, <1>2, SwitchStaffed, Zenon

\* The calls of a partition.
LEMMA CallsStaffed ==
    ASSUME Staffed(SCHEDULERS), Apart, NEW h \in Hart, InUser(h), Calls(h)
    PROVE  Staffed(SCHEDULERS')
<1> DEFINE c == Current(h)
<1>1. c \in Tasks[h] /\ c \in Slot
  BY KernelAssumption, Zenon DEF Staffed, Current
<1> HIDE DEF c
<1>2. ASSUME NEW st \in TaskState, st.kind # "None", switch_task(h, SetState(SCHEDULERS, h, c, st), FALSE)
      PROVE  Staffed(SCHEDULERS')
  <2>1. Staffed(SetState(SCHEDULERS, h, c, st))
    BY <1>1, <1>2, SetStateStaffed, Zenon
  <2>2. QED
    BY <1>2, <2>1, SwitchStaffed, Zenon
<1>3. ASSUME switch_task(h, SCHEDULERS, FALSE) PROVE Staffed(SCHEDULERS')
  BY <1>3, SwitchStaffed, Zenon
<1>4. Ready \in TaskState /\ Ready.kind # "None"
  BY SlotFacts, Zenon DEF Ready, State
<1>5. ASSUME NEW m, Sys3Lock(h, m) PROVE Staffed(SCHEDULERS')
  <2>1. m \in Mutex
    <3>1. m \in LockCaps[h][c]
      BY <1>5, Zenon DEF Sys3Lock, c
    <3>2. QED
      BY <1>1, <3>1, CapabilityAssumption, SMT
  <2>2. State("BlockedOnMutex", m) \in TaskState /\ State("BlockedOnMutex", m).kind # "None"
    BY <2>1, KernelAssumption, SMT DEF State, TaskState, Kind
  <2>3. \/ SCHEDULERS' = SCHEDULERS
        \/ switch_task(h, SetState(SCHEDULERS, h, c, State("BlockedOnMutex", m)), FALSE)
    BY <1>5, Zenon DEF Sys3Lock, c
  <2>4. QED
    BY <1>2, <2>2, <2>3, Zenon
<1>6. ASSUME NEW m, Sys4Unlock(h, m) PROVE Staffed(SCHEDULERS')
  <2> DEFINE w == HighestWaiter(MUTEXES[m].waiters)
             S == IF MUTEXES[m].waiters # {} THEN SetState(SCHEDULERS, WaiterHart(w), w, Ready) ELSE SCHEDULERS
  <2>1. m \in UnlockCaps[h][c] /\ switch_task(h, S, FALSE)
    BY <1>6, Zenon DEF Sys4Unlock, c
  <2>2. m \in Mutex
    BY <1>1, <2>1, CapabilityAssumption, SMT
  <2>3. CASE MUTEXES[m].waiters # {}
    <3>1. WaiterHart(w) \in Hart /\ w \in Tasks[WaiterHart(w)]
      BY <2>2, <2>3, WaiterStarted, Zenon
    <3>2. S = SetState(SCHEDULERS, WaiterHart(w), w, Ready)
      BY <2>3, Zenon
    <3> HIDE DEF w, S
    <3>3. Staffed(S)
      BY <1>4, <3>1, <3>2, SetStateStaffed, Zenon
    <3>4. QED
      BY <2>1, <3>3, SwitchStaffed, Zenon
  <2>4. CASE MUTEXES[m].waiters = {}
    BY <1>3, <2>1, <2>4, Zenon
  <2>5. QED
    BY <2>3, <2>4, Zenon
<1>7. ASSUME NEW e \in Endpoint, NEW peer \in {"BlockedOnIpcSend", "BlockedOnIpcRecv"},
             NEW own \in {"BlockedOnIpcSend", "BlockedOnIpcRecv"}, Rendezvous(h, e, peer, own)
      PROVE  Staffed(SCHEDULERS')
  <2>1. CASE Parked(peer, e) # {}
    <3> DEFINE p == FirstParked(peer, e)
    <3>1. p \in Parked(peer, e) /\ SCHEDULERS' = SetState(SCHEDULERS, p[1], p[2], Ready)
      BY <1>7, <2>1, FirstParkedFacts, Zenon DEF Rendezvous
    <3> HIDE DEF p
    <3>2. p[1] \in Hart /\ p[2] \in Slot /\ KindOf(p[1], p[2]) = peer
      BY <3>1, SMT DEF Parked
    <3>3. peer # "None"
      BY Zenon
    <3>4. p[2] \in Tasks[p[1]]
      BY <3>2, <3>3, Zenon DEF Staffed, St, KindOf
    <3>5. QED
      BY <1>4, <3>1, <3>2, <3>4, SetStateStaffed, Zenon
  <2>2. CASE Parked(peer, e) = {}
    <3>1. State(own, e) \in TaskState /\ State(own, e).kind # "None"
      BY KernelAssumption, SMT DEF State, TaskState, Kind
    <3>2. switch_task(h, SetState(SCHEDULERS, h, c, State(own, e)), FALSE)
      BY <1>7, <2>2, Zenon DEF Rendezvous, c
    <3>3. QED
      BY <1>2, <3>1, <3>2, Zenon
  <2>3. QED
    BY <2>1, <2>2, Zenon
<1>8. ASSUME NEW e, Sys6Send(h, e) \/ Sys7Recv(h, e) PROVE Staffed(SCHEDULERS')
  <2>1. e \in Endpoint
    <3>1. e \in SendCaps[h][c] \/ e \in RecvCaps[h][c]
      BY <1>8, Zenon DEF Sys6Send, Sys7Recv, c
    <3>2. QED
      BY <1>1, <3>1, CapabilityAssumption, SMT
  <2>2. \/ Rendezvous(h, e, "BlockedOnIpcRecv", "BlockedOnIpcSend")
        \/ Rendezvous(h, e, "BlockedOnIpcSend", "BlockedOnIpcRecv")
    BY <1>8, Zenon DEF Sys6Send, Sys7Recv
  <2>3. QED
    BY <1>7, <2>1, <2>2, Zenon
<1>9. ASSUME Fault(h) PROVE Staffed(SCHEDULERS')
  BY <1>9, FaultStaffed, Zenon
<1>10. \/ SCHEDULERS' = SCHEDULERS \/ switch_task(h, SCHEDULERS, FALSE) \/ Fault(h)
       \/ \E x : Sys3Lock(h, x) \/ Sys4Unlock(h, x) \/ Sys6Send(h, x) \/ Sys7Recv(h, x)
  BY Zenon DEF Calls, Sys5Checkin, Sys4UnlockPanics, Sys1Yield, vars
<1>11. QED
  BY <1>3, <1>5, <1>6, <1>8, <1>9, <1>10, Zenon

\* The watchdog: it terminates and restarts tasks that exist.
LEMMA WatchdogStaffed ==
    ASSUME Staffed(SCHEDULERS), TICK_COUNT \in Nat, InUser(0), watchdog_task
    PROVE  Staffed(SCHEDULERS')
<1>1. 0 \in Hart /\ 1 \in Hart
  BY Zenon DEF Hart
<1>2. ASSUME NEW n, Sys2Sleep(0, n), n \in Nat PROVE Staffed(SCHEDULERS')
  <2> DEFINE st == State("Blocked", (TICK_COUNT + n) % TICK_MOD)
             S == SetState(SCHEDULERS, 0, Current(0), st)
  <2>1. st \in TaskState /\ st.kind # "None"
    BY <1>2, KernelAssumption, SMT DEF State, TaskState, Kind
  <2>2. switch_task(0, S, FALSE)
    BY <1>2, Zenon DEF Sys2Sleep
  <2>3. Current(0) \in Tasks[0]
    BY <1>1, Zenon DEF Staffed, Current
  <2> HIDE DEF st
  <2>4. Staffed(S)
    BY <1>1, <2>1, <2>3, SetStateStaffed, Zenon
  <2> HIDE DEF S
  <2>5. QED
    BY <1>1, <2>2, <2>4, SwitchStaffed, Zenon
<1>3. ASSUME NEW i, i \in Slot, Sys8Terminate(i) PROVE Staffed(SCHEDULERS')
  <2> DEFINE h == IF KindOf(0, i) # "None" THEN 0 ELSE 1
  <2>1. h \in Hart /\ KindOf(h, i) # "None" /\ SCHEDULERS' = TerminatedAndRecovered(h, i)
    BY <1>1, <1>3, Zenon DEF Sys8Terminate
  <2> HIDE DEF h
  <2>2. i \in Tasks[h]
    BY <1>3, <2>1, Zenon DEF Staffed, St, KindOf
  <2>3. QED
    BY <2>1, <2>2, TerminatedStaffed, Zenon
<1>4. ASSUME NEW h \in Hart, NEW i, i \in Slot, WatchdogRestarts(h, i) PROVE Staffed(SCHEDULERS')
  <2>1. KindOf(h, i) = "Terminated" /\ SCHEDULERS' = SetState(SCHEDULERS, h, i, Ready)
    BY <1>4, Zenon DEF WatchdogRestarts
  <2>2. i \in Tasks[h]
    BY <1>4, <2>1, Zenon DEF Staffed, St, KindOf
  <2>3. Ready \in TaskState /\ Ready.kind # "None"
    BY SlotFacts, Zenon DEF Ready, State
  <2>4. QED
    BY <2>1, <2>2, <2>3, SetStateStaffed, Zenon
<1>5. Monitored \subseteq Slot /\ C \in Slot /\ HSM \in Slot
  <2>1. Monitored \subseteq Targets /\ Targets \subseteq Slot
    BY RegistrationAssumption, KernelAssumption, Zenon
  <2>2. QED
    BY <2>1, HartsOfPartitions, Zenon
<1>6. PERIOD \in Nat
  BY SystemAssumption, Zenon
<1>7. ASSUME WatchdogChecks PROVE Staffed(SCHEDULERS')
  <2>1. CASE UNCHANGED vars
    BY <2>1, Zenon DEF vars
  <2>2. CASE (\E i \in Monitored : Failed(i)) /\ Sys8Terminate(failed_task)
    <3> DEFINE F == {j \in Monitored : Failed(j)}
    <3>1. F \subseteq {1, 2, 3, 4} /\ F # {}
      BY <2>2, Zenon DEF Monitored, A, B, C, HSM
    <3>2. \E i \in F : \A j \in F : j <= i
      <4> HIDE DEF F
      <4>1. CASE 4 \in F
        BY <3>1, <4>1, SMT
      <4>2. CASE 4 \notin F /\ 3 \in F
        BY <3>1, <4>2, SMT
      <4>3. CASE 4 \notin F /\ 3 \notin F /\ 2 \in F
        BY <3>1, <4>3, SMT
      <4>4. CASE 4 \notin F /\ 3 \notin F /\ 2 \notin F
        <5>1. F = {1}
          BY <3>1, <4>4, Zenon
        <5>2. QED
          BY <5>1, SMT
      <4>5. QED
        BY <4>1, <4>2, <4>3, <4>4, Zenon
    <3>3. failed_task \in Slot
      BY <1>5, <3>2, Zenon DEF F, failed_task
    <3>4. QED
      BY <1>3, <2>2, <3>3, Zenon
  <2>3. QED
    BY <1>7, <2>1, <2>2, Zenon DEF WatchdogChecks
<1>8. ASSUME WatchdogRestartsC \/ WatchdogRestartsHsm PROVE Staffed(SCHEDULERS')
  <2>1. SCHEDULERS' = SCHEDULERS \/ WatchdogRestarts(1, C) \/ WatchdogRestarts(0, HSM)
    BY <1>8, Zenon DEF WatchdogRestartsC, WatchdogRestartsHsm, vars
  <2>2. QED
    BY <1>1, <1>4, <1>5, <2>1, Zenon
<1>9. ASSUME WatchdogLoads \/ WatchdogStartsScan \/ WatchdogEndsScan PROVE Staffed(SCHEDULERS')
  BY <1>9, Zenon DEF WatchdogLoads, WatchdogStartsScan, WatchdogEndsScan, WatchdogLocks,
     WatchdogUnlocks, vars
<1>10. ASSUME WatchdogSleeps PROVE Staffed(SCHEDULERS')
  BY <1>2, <1>6, <1>10, Zenon DEF WatchdogSleeps
<1>11. QED
  BY <1>7, <1>8, <1>9, <1>10, Zenon DEF watchdog_task

\* The interrupts: a sleeper that is woken was registered.
LEMMA HandlesStaffed ==
    ASSUME Staffed(SCHEDULERS), NEW h \in Hart, Handles(h)
    PROVE  Staffed(SCHEDULERS')
<1>1. CASE SoftwareInterrupt(h)
  BY <1>1, SwitchStaffed, Zenon DEF SoftwareInterrupt
<1>2. CASE TimerInterrupt(h)
  <2> DEFINE W == Woken(SCHEDULERS[h].task_table, timer[h])
             S == [SCHEDULERS EXCEPT ![h].task_table = W]
  <2>1. switch_task(h, S, TRUE)
    BY <1>2 DEF TimerInterrupt
  <2>2. SCHEDULERS \in [Hart -> BitMapScheduler] /\ SCHEDULERS[h] \in BitMapScheduler
    BY Zenon DEF Staffed
  <2>3. SCHEDULERS[h].task_table \in [Slot -> TaskState]
    BY <2>2, Zenon DEF BitMapScheduler
  <2>4. /\ W \in [Slot -> TaskState]
        /\ \A i \in Slot : W[i].kind = "None" <=> SCHEDULERS[h].task_table[i].kind = "None"
    <3>1. Ready \in TaskState /\ Ready.kind = "Ready"
      BY SlotFacts, Zenon DEF Ready, State
    <3>2. QED
      BY <2>3, <3>1, SMT DEF Woken
  <2> HIDE DEF W
  <2>5. /\ S \in [Hart -> BitMapScheduler]
        /\ \A g \in Hart : S[g].current = SCHEDULERS[g].current
        /\ S[h].task_table = W
        /\ \A g \in Hart : g # h => S[g] = SCHEDULERS[g]
    BY <2>2, <2>4, SMT DEF BitMapScheduler
  <2> HIDE DEF S
  <2>6. \A g \in Hart : InUser(g) => S[g].current \in Tasks[g]
    BY <2>5, Zenon DEF Staffed
  <2>7. ASSUME NEW g \in Hart, NEW i \in Slot PROVE St(S, g, i).kind = "None" <=> i \notin Tasks[g]
    <3>1. SCHEDULERS[g].task_table[i].kind = "None" <=> i \notin Tasks[g]
      BY Zenon DEF Staffed, St
    <3>2. S[g].task_table[i].kind = "None" <=> SCHEDULERS[g].task_table[i].kind = "None"
      BY <2>4, <2>5, Zenon
    <3>3. QED
      BY <3>1, <3>2, Zenon DEF St
  <2>8. Staffed(S)
    BY <2>5, <2>6, <2>7, Zenon DEF Staffed
  <2>9. QED
    BY <2>1, <2>8, SwitchStaffed, Zenon
<1>3. QED
  BY <1>1, <1>2, Zenon DEF Handles

\* Whatever the harts do, the tables stay complete.
LEMMA MannedStep ==
    ASSUME BootInv, Manned, [Next_Boot]_bootVars
    PROVE  Manned'
<1>1. CASE Partitions
  <2>1. PICK h \in Hart : InUser(h)
    BY <1>1, Zenon DEF Partitions, Hart
  <2>2. Staffed(SCHEDULERS) /\ Apart /\ TICK_COUNT \in Nat
    BY <2>1, StartedStaffed, Zenon DEF BootInv, Manned
  <2>3. armed \subseteq Hart
    BY Zenon DEF BootInv, Sequence
  <2>4. ASSUME NEW g, Ticks(g) PROVE SCHEDULERS' = SCHEDULERS /\ TICK_COUNT' \in Nat
    <3>1. SCHEDULERS' = SCHEDULERS /\ TICK_COUNT' = (TICK_COUNT + 1) % TICK_MOD
      BY <2>4, Zenon DEF Ticks, TimerEntry
    <3>2. QED
      BY <2>2, <3>1, KernelAssumption, SMT
  <2>5. Staffed(SCHEDULERS')
    <3>1. InUser(0) /\ HsmFaults => Staffed(SCHEDULERS')
      BY <2>2, FaultStaffed, HartsOfPartitions, Zenon DEF HsmFaults
    <3>2. QED
      BY <1>1, <2>2, <2>3, <2>4, <3>1, CallsStaffed, WatchdogStaffed, HandlesStaffed, Zenon
         DEF Partitions
  <2>6. TICK_COUNT' \in Nat
    <3>1. ASSUME NEW g, Calls(g) \/ Handles(g) \/ HsmFaults \/ watchdog_task
          PROVE  TICK_COUNT' = TICK_COUNT
      BY <3>1, Zenon DEF HsmFaults, Calls, Sys5Checkin, Sys3Lock, Sys4Unlock, Sys4UnlockPanics, Sys6Send,
         Sys7Recv,
         Rendezvous, Sys1Yield, Fault, vars, Handles, TimerInterrupt, SoftwareInterrupt,
         watchdog_task, WatchdogSleeps, WatchdogLoads, WatchdogStartsScan, WatchdogChecks,
         WatchdogRestartsC, WatchdogRestartsHsm, WatchdogEndsScan, Sys2Sleep, WatchdogLocks,
         WatchdogUnlocks, WatchdogRestarts, Sys8Terminate
    <3>2. QED
      BY <1>1, <2>2, <2>4, <3>1, Zenon DEF Partitions
  <2>7. pc' = pc
    BY <1>1, Zenon DEF Partitions
  <2>8. QED
    BY <2>5, <2>6, <2>7, Zenon DEF Manned, Staffed, St, InUser, Current, KindOf
<1>2. ASSUME NEW k \in Hart, kmain(k) PROVE Manned'
  <2>1. /\ BootInv' /\ StartedHarts' = StartedHarts /\ TICK_COUNT' = TICK_COUNT
    BY <1>2, KmainStep, Zenon DEF Silent
  <2>2. ASSUME NEW h \in Hart, InUser(h)'
        PROVE  (SCHEDULERS'[h] = SCHEDULERS[h] /\ InUser(h)) \/ SCHEDULERS'[h] = Fresh(h)
    <3>1. StartedHarts = Over(SCHEDULERS)
      BY Mapped, Zenon DEF BootInv
    <3>2. StartedHarts' = [g \in Hart |-> IF g = 0 THEN StartedHart(0)' ELSE StartedHart(1)']
      <4>1. OnHarts(SCHEDULERS')
        BY <2>1, Zenon DEF BootInv, OnHarts
      <4>2. QED
        BY <4>1, BothReplaced, Zenon DEF StartedHarts
    <3>3. StartedHarts'[h] = SCHEDULERS'[h]
      BY <2>2, <3>2, Zenon DEF StartedHart, Hart
    <3>4. Over(SCHEDULERS)[h] = IF InUser(h) THEN SCHEDULERS[h] ELSE Fresh(h)
      BY OverFacts, Zenon
    <3>5. QED
      BY <2>1, <3>1, <3>3, <3>4, Zenon
  <2>3. ASSUME NEW h \in Hart, InUser(h)'
        PROVE  /\ SCHEDULERS'[h] \in BitMapScheduler /\ SCHEDULERS'[h].current \in Tasks[h]
               /\ \A i \in Slot : SCHEDULERS'[h].task_table[i].kind = "None" <=> i \notin Tasks[h]
    <3>1. CASE SCHEDULERS'[h] = SCHEDULERS[h] /\ InUser(h)
      BY <3>1, Zenon DEF Manned, Current, KindOf
    <3>2. CASE SCHEDULERS'[h] = Fresh(h)
      BY <3>2, FreshStaffed
    <3>3. QED
      BY <2>2, <2>3, <3>1, <3>2, Zenon
  <2>4. QED
    BY <2>1, <2>3, Zenon DEF Manned, Current, KindOf
<1>3. CASE UNCHANGED bootVars
  <2>1. SCHEDULERS' = SCHEDULERS /\ TICK_COUNT' = TICK_COUNT /\ pc' = pc
    BY <1>3, Zenon DEF bootVars, systemVars, vars
  <2>2. QED
    BY <2>1, Zenon DEF Manned, InUser, Current, KindOf
<1>4. QED
  BY <1>1, <1>2, <1>3, Zenon DEF Next_Boot

\* A hart runs partitions only of a verified image, after both harts' tables
\* are complete and with its own vector, protection, timer and kernel stack.
LEMMA PreparedNow == BootInv /\ Manned => RunsPrepared
<1> SUFFICES ASSUME BootInv, Manned, NEW h \in Hart, InUser(h)
             PROVE  /\ trusted /\ stacks
                    /\ h \in mtvec \cap pmp \cap armed \cap mscratch
                    /\ \A g \in Hart : {i \in Slot : KindOf(g, i) # "None"} = Tasks[g]
  BY Zenon DEF RunsPrepared
<1>1. pc[h] = "user" /\ trusted /\ stacks
  BY StartsRegistered, Zenon DEF BootInv, InUser
<1>2. Released
  BY <1>1, Zenon DEF BootInv, Sequence, Released, Hart
<1>3. h \in mtvec \cap pmp \cap armed \cap mscratch
  BY <1>1, <1>2, Zenon DEF BootInv, Sequence
<1>4. Staffed(SCHEDULERS)
  BY StartedStaffed, Zenon
<1>5. ASSUME NEW g \in Hart PROVE {i \in Slot : KindOf(g, i) # "None"} = Tasks[g]
  <2>1. Tasks[g] \subseteq Slot
    BY KernelAssumption, Zenon
  <2>2. \A i \in Slot : KindOf(g, i) # "None" <=> i \in Tasks[g]
    BY <1>4, Zenon DEF Staffed, St, KindOf
  <2>3. QED
    BY <2>1, <2>2, Zenon
<1>6. QED
  BY <1>1, <1>3, <1>5, Zenon

\* The boot order of kmain and its barrier: a hart runs partitions only of a
\* verified image, with every task of both harts registered on an initialised
\* stack, and with its own trap vector, memory protection, timer and kernel
\* stack in place.
THEOREM BootPrepared == Spec_Boot => []RunsPrepared
<1>1. Init_Boot => BootInv /\ Manned
  <2> SUFFICES ASSUME Init_Boot PROVE BootInv /\ Manned
    BY Zenon
  <2>1. TICK_COUNT = 0 /\ pc = [h \in Hart |-> IF h = 0 THEN "reset" ELSE "barrier"]
    BY Zenon DEF Init_Boot
  <2>2. \A h \in Hart : ~InUser(h)
    BY <2>1, SMT DEF InUser
  <2>3. TICK_COUNT \in Nat
    BY <2>1, SMT
  <2>4. QED
    BY <2>2, <2>3, BootInit, Zenon DEF Manned
<1>2. BootInv /\ Manned /\ [Next_Boot]_bootVars => BootInv' /\ Manned'
  BY BootStep, MannedStep, Zenon
<1>3. BootInv /\ Manned => RunsPrepared
  BY PreparedNow, Zenon
<1>4. QED
  BY <1>1, <1>2, <1>3, PTL DEF Spec_Boot

=============================================================================
