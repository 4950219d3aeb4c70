---------------------------- MODULE UnlockProofs ----------------------------
(***************************************************************************)
(* While the boot grace period lasts, and after it while task C is past    *)
(* its first test, no unlock meets the assertion that the caller owns the  *)
(* mutex: the system runs without a panic, for every timing.               *)
(***************************************************************************)
EXTENDS SystemProofs

-----------------------------------------------------------------------------
(* The unlock assertion                                                     *)

StA == St(SCHEDULERS, 0, A)
StC == St(SCHEDULERS, 1, C)

\* Neither runs nor will before somebody else acts on the mutexes or restarts it.
Stopped == {"BlockedOnMutex", "Terminated"}

\* Task A, in state st and with its unlock ahead, owns the mutex.
Held(st, M, p) == p = 3 /\ st.kind \notin Stopped => M[0].owner = A

\* So does task C in its first test, which ends by its own fault.
FirstTest(st, M, p) ==
    /\ p \in {2, 3} /\ st.kind # "BlockedOnMutex" => M[0].owner = C
    /\ \A m \in Mutex : C \in M[m].waiters => m = 0 /\ p = 2 /\ st.kind = "BlockedOnMutex"
    /\ st.kind = "Terminated" => p = 1

\* The first test, as long as no scan can have found task C late.
Early == tc = 0 /\ TICK_COUNT <= GRACE

\* A task C that hart 1 executes has a fresh frame only if it was restarted.
Renewed == Current(1) = C /\ context[1][C] = "fresh" => TEST_COUNTER # 0

HInv ==
    /\ Renewed
    /\ Held(StA, MUTEXES, at[A])
    /\ Early => FirstTest(StC, MUTEXES, at[C]) /\ (Current(1) = C => Up(StC))
    /\ tc = 0 => LAST_CHECKIN_TICK[C] = 0
    /\ halted # {} => tc = 0 /\ GRACE < TICK_COUNT /\ SCHED_LOCK = "panic"

\* What a step has to keep of it for the two holders.
Kept ==
    /\ Held(StA', MUTEXES', at'[A])
    /\ Early' => FirstTest(StC', MUTEXES', at'[C])

\* A change of state that leaves a holder a holder.
Neutral(x, y) == x = y \/ (x.kind \notin Stopped /\ y.kind \notin Stopped)

\* It keeps the account of the mutex for both tasks.
LEMMA NeutralChange ==
    ASSUME NEW x, NEW y, Neutral(x, y), NEW M, NEW p
    PROVE  /\ Held(x, M, p) => Held(y, M, p)
           /\ FirstTest(x, M, p) => FirstTest(y, M, p)
BY Zenon DEF Neutral, Held, FirstTest, Stopped

\* switch_task is one for both.
LEMMA NeutralSwitch ==
    ASSUME NEW S \in [Hart -> BitMapScheduler], NEW h \in Hart, NEW t \in BOOLEAN,
           switch_task(h, S, t)
    PROVE  /\ SameMode(St(S, 0, A), StA') /\ Neutral(St(S, 0, A), StA')
           /\ SameMode(St(S, 1, C), StC') /\ Neutral(St(S, 1, C), StC')
           /\ \A x : Neutral(x, St(S, 0, A)) => Neutral(x, StA')
           /\ \A x : Neutral(x, St(S, 1, C)) => Neutral(x, StC')
<1>1. 0 \in Hart /\ 1 \in Hart /\ A \in Slot /\ C \in Slot
  BY PartitionFacts, Zenon
<1>2. SameMode(St(S, 0, A), StA') /\ SameMode(St(S, 1, C), StC')
  BY <1>1, SwitchModes, Zenon DEF StA, StC
<1>3. QED
  BY <1>2, Zenon DEF SameMode, Up, Neutral, Stopped

\* A step that leaves the mutexes alone and moves neither holder in or out of
\* its critical section.
LEMMA QuietKeeps ==
    ASSUME HInv, Early' => Early, MUTEXES' = MUTEXES,
           Neutral(StA, StA'), Neutral(StC, StC'),
           at'[A] = at[A] \/ at'[A] # 3, at'[C] = at[C]
    PROVE  Kept
<1>1. Held(StA', MUTEXES', at'[A])
  <2>1. Held(StA', MUTEXES, at[A])
    BY NeutralChange, Zenon DEF HInv
  <2>2. QED
    BY <2>1, Zenon DEF Held
<1>2. Early => FirstTest(StC', MUTEXES, at[C])
  BY NeutralChange, Zenon DEF HInv
<1>3. QED
  BY <1>1, <1>2, Zenon DEF Kept

\* The timer, the software interrupt, a yield.
LEMMA InterruptNeutral ==
    ASSUME IInv, NEW h \in Hart,
           TimerInterrupt(h) \/ SoftwareInterrupt(h) \/ Sys1Yield(h)
    PROVE  Neutral(StA, StA') /\ Neutral(StC, StC') /\ MUTEXES' = MUTEXES
<1>1. SCHEDULERS \in [Hart -> BitMapScheduler]
  BY InvFacts, Zenon
<1>2. 0 \in Hart /\ 1 \in Hart /\ A \in Slot /\ C \in Slot
  BY PartitionFacts, Zenon
<1>3. CASE SoftwareInterrupt(h) \/ Sys1Yield(h)
  <2>1. switch_task(h, SCHEDULERS, FALSE) /\ MUTEXES' = MUTEXES
    BY <1>3, Zenon DEF SoftwareInterrupt, Sys1Yield
  <2>2. Neutral(StA, St(SCHEDULERS, 0, A)) /\ Neutral(StC, St(SCHEDULERS, 1, C))
    BY Zenon DEF Neutral, StA, StC
  <2>3. QED
    BY <1>1, <2>1, <2>2, NeutralSwitch, Zenon
<1>4. CASE TimerInterrupt(h)
  <2> DEFINE W == Woken(SCHEDULERS[h].task_table, timer[h])
             S == [SCHEDULERS EXCEPT ![h].task_table = Woken(@, timer[h])]
  <2>1. W \in [Slot -> TaskState]
    BY <1>1, SlotFacts, Zenon DEF Woken, BitMapScheduler
  <2>2. \A i \in Slot : \/ W[i] = St(SCHEDULERS, h, i)
                        \/ St(SCHEDULERS, h, i).kind = "Blocked" /\ W[i] = Ready
    BY Zenon DEF Woken, St
  <2>3. S = [SCHEDULERS EXCEPT ![h].task_table = W]
    BY Zenon
  <2>4. switch_task(h, S, TRUE) /\ MUTEXES' = MUTEXES
    BY <1>4, Zenon DEF TimerInterrupt
  <2> HIDE DEF W, S
  <2>5. S \in [Hart -> BitMapScheduler]
    BY <1>1, <2>1, <2>3, Zenon DEF BitMapScheduler
  <2>6. \A g \in Hart, i \in Slot : \/ St(S, g, i) = St(SCHEDULERS, g, i)
                                    \/ St(SCHEDULERS, g, i).kind = "Blocked" /\ St(S, g, i) = Ready
    BY <1>1, <2>1, <2>2, <2>3, Zenon DEF BitMapScheduler, St
  <2>7. Ready.kind = "Ready"
    BY Zenon DEF Ready, State
  <2>8. Neutral(StA, St(S, 0, A)) /\ Neutral(StC, St(S, 1, C))
    BY <1>2, <2>6, <2>7, Zenon DEF Neutral, StA, StC, Stopped
  <2>9. QED
    BY <2>4, <2>5, <2>8, NeutralSwitch, Zenon
<1>5. QED
  BY <1>3, <1>4, Zenon

\* A rendezvous of a task that is not task C and not a stopped task A, and the
\* watchdog's sleep.
LEMMA ExchangeNeutral ==
    ASSUME IInv, NEW h \in Hart, NEW e \in Nat, NEW peer \in {"BlockedOnIpcSend", "BlockedOnIpcRecv"},
           NEW own \in {"BlockedOnIpcSend", "BlockedOnIpcRecv"},
           Rendezvous(h, e, peer, own),
           h = 1 => Current(h) # C,
           h = 0 /\ Current(h) = A => Up(StA)
    PROVE  Neutral(StA, StA') /\ Neutral(StC, StC') /\ MUTEXES' = MUTEXES
<1>1. 0 \in Hart /\ 1 \in Hart /\ A \in Slot /\ C \in Slot /\ Current(h) \in Slot
  BY PartitionFacts, InvFacts, Zenon
<1>2. MUTEXES' = MUTEXES /\ Outcome(h, e, peer, own)
  BY RendezvousOutcomes, Zenon
<1>3. Ready \in TaskState /\ Ready.kind = "Ready"
  BY SlotFacts, Zenon DEF Ready, State
<1>4. ASSUME NEW g \in Hart, NEW j \in Slot, St(SCHEDULERS, g, j).kind = peer,
             SCHEDULERS' = SetState(SCHEDULERS, g, j, Ready)
      PROVE  Neutral(StA, StA') /\ Neutral(StC, StC')
  <2>1. With(SCHEDULERS, SetState(SCHEDULERS, g, j, Ready), g, j, Ready)
    BY <1>3, SetStateWith, Zenon
  <2>2. With(SCHEDULERS, SCHEDULERS', g, j, Ready)
    BY <1>4, <2>1, Zenon
  <2>3. QED
    <3>1. /\ \/ StA' = StA
             \/ StA' = Ready /\ StA.kind = peer
          /\ \/ StC' = StC
             \/ StC' = Ready /\ StC.kind = peer
      BY <1>1, <1>4, <2>2, Zenon DEF With, StA, StC
    <3>2. QED
      BY <1>3, <3>1, Zenon DEF Neutral, Stopped
<1>5. CASE switch_task(h, SetState(SCHEDULERS, h, Current(h), State(own, e)), FALSE)
  <2>1. PICK st \in TaskState : st = State(own, e) /\ st.kind = own
    <3>1. State(own, e) \in TaskState /\ State(own, e).kind = own
      BY Zenon DEF State, TaskState, Kind
    <3>2. QED
      BY <3>1, Zenon
  <2> DEFINE S == SetState(SCHEDULERS, h, Current(h), st)
  <2>2. S \in [Hart -> BitMapScheduler] /\ With(SCHEDULERS, S, h, Current(h), st)
    BY <1>1, SetStateWith, Zenon
  <2>3. switch_task(h, S, FALSE)
    BY <1>5, <2>1, Zenon
  <2> HIDE DEF S
  <2>4. Neutral(StA, St(S, 0, A)) /\ Neutral(StC, St(S, 1, C))
    BY <1>1, <2>1, <2>2 DEF With, Neutral, StA, StC, Stopped, Up
  <2>5. QED
    BY <1>2, <2>2, <2>3, <2>4, NeutralSwitch, Zenon
<1>6. QED
  BY <1>2, <1>4, <1>5, Zenon DEF Outcome

\* A lock: a free mutex has no owner, a locked one keeps it.
LEMMA LockFacts ==
    ASSUME IInv, NEW h \in Hart, Sys3Lock(h, 0), NEW i \in Slot, i = Current(h)
    PROVE  \/ /\ SCHEDULERS' = SCHEDULERS /\ MUTEXES[0].owner = NoOwner
              /\ MUTEXES'[0].owner = i
              /\ \A m \in Mutex : MUTEXES'[m].waiters = MUTEXES[m].waiters
           \/ /\ MUTEXES'[0].owner = MUTEXES[0].owner
              /\ \A m \in Mutex : MUTEXES'[m].waiters =
                    IF m = 0 THEN MUTEXES[m].waiters \cup {i} ELSE MUTEXES[m].waiters
              /\ \E S \in [Hart -> BitMapScheduler], st \in TaskState :
                    /\ st.kind = "BlockedOnMutex" /\ With(SCHEDULERS, S, h, i, st)
                    /\ switch_task(h, S, FALSE)
<1>1. 0 \in Mutex /\ MUTEXES \in [Mutex -> KernelMutex]
  BY RegistrationAssumption, InvFacts, Zenon
<1>2. CASE /\ ~MUTEXES[0].locked /\ SCHEDULERS' = SCHEDULERS
           /\ MUTEXES' = [MUTEXES EXCEPT ![0].locked = TRUE, ![0].owner = Current(h)]
  <2>1. MUTEXES[0].owner = NoOwner
    BY <1>1, <1>2, Zenon DEF IInv, Good, MutexesSane
  <2>2. MUTEXES'[0].owner = i /\ \A m \in Mutex : MUTEXES'[m].waiters = MUTEXES[m].waiters
    BY <1>1, <1>2, Zenon DEF KernelMutex
  <2>3. QED
    BY <1>2, <2>1, <2>2, Zenon
<1>3. CASE /\ MUTEXES' = [MUTEXES EXCEPT ![0].waiters = @ \cup {Current(h)}]
           /\ switch_task(h, SetState(SCHEDULERS, h, Current(h), State("BlockedOnMutex", 0)), FALSE)
  <2>1. /\ MUTEXES'[0].owner = MUTEXES[0].owner
        /\ \A m \in Mutex : MUTEXES'[m].waiters =
              IF m = 0 THEN MUTEXES[m].waiters \cup {i} ELSE MUTEXES[m].waiters
    BY <1>1, <1>3, Zenon DEF KernelMutex
  <2>2. PICK st \in TaskState : st = State("BlockedOnMutex", 0) /\ st.kind = "BlockedOnMutex"
    <3>1. LET st == State("BlockedOnMutex", 0) IN st \in TaskState /\ st.kind = "BlockedOnMutex"
      BY Zenon DEF State, TaskState, Kind
    <3>2. QED
      BY <3>1, Zenon
  <2> DEFINE S == SetState(SCHEDULERS, h, i, st)
  <2>3. S \in [Hart -> BitMapScheduler] /\ With(SCHEDULERS, S, h, i, st)
    BY SetStateWith, Zenon
  <2>4. switch_task(h, S, FALSE)
    BY <1>3, <2>2, Zenon
  <2> HIDE DEF S
  <2>5. QED
    BY <2>1, <2>2, <2>3, <2>4, Zenon
<1>4. QED
  BY <1>2, <1>3, Zenon DEF Sys3Lock

\* A lock by task A.
LEMMA LockOfA ==
    ASSUME IInv, SInv, HInv, Early' => Early, Current(0) = A, Sys3Lock(0, 0),
           at[A] = 2, at'[A] = 3, at'[C] = at[C]
    PROVE  Kept
<1>1. 0 \in Hart /\ 1 \in Hart /\ A \in Slot /\ C \in Slot /\ A # C /\ 0 # 1 /\ 0 \in Mutex
  BY PartitionFacts, RegistrationAssumption, Zenon
<1>2. CASE /\ SCHEDULERS' = SCHEDULERS /\ MUTEXES[0].owner = NoOwner /\ MUTEXES'[0].owner = A
           /\ \A m \in Mutex : MUTEXES'[m].waiters = MUTEXES[m].waiters
  <2>1. NoOwner # C
    BY <1>1, SchedulerAssumption DEF NoOwner, Slot
  <2>2. StC' = StC
    BY <1>2, Zenon DEF StC
  <2>3. QED
    BY <1>2, <2>1, <2>2, Zenon DEF HInv, Kept, Held, FirstTest
<1>3. ASSUME NEW S \in [Hart -> BitMapScheduler], NEW st \in TaskState, st.kind = "BlockedOnMutex",
             With(SCHEDULERS, S, 0, A, st), switch_task(0, S, FALSE),
             MUTEXES'[0].owner = MUTEXES[0].owner,
             \A m \in Mutex : MUTEXES'[m].waiters =
                IF m = 0 THEN MUTEXES[m].waiters \cup {A} ELSE MUTEXES[m].waiters
      PROVE  Kept
  <2>1. St(S, 0, A) = st /\ St(S, 1, C) = StC
    BY <1>1, <1>3, Zenon DEF With, StC
  <2>2. StA'.kind = "BlockedOnMutex" /\ Neutral(StC, StC')
    <3>1. SameMode(st, StA') /\ Neutral(StC, StC')
      BY <1>1, <1>3, <2>1, NeutralSwitch, Zenon
    <3>2. QED
      BY <1>3, <3>1, Zenon DEF SameMode, Up
  <2>3. Held(StA', MUTEXES', at'[A])
    BY <2>2, Zenon DEF Held, Stopped
  <2>4. Early' => FirstTest(StC', MUTEXES, at[C])
    BY <2>2, NeutralChange, Zenon DEF HInv
  <2>5. \A m \in Mutex : C \in MUTEXES'[m].waiters => C \in MUTEXES[m].waiters
    BY <1>1, <1>3, Zenon
  <2>6. QED
    BY <1>3, <2>3, <2>4, <2>5, Zenon DEF Kept, FirstTest
<1>4. QED
  BY <1>1, <1>2, <1>3, LockFacts, Zenon

\* A lock by task C.
LEMMA LockOfC ==
    ASSUME IInv, SInv, HInv, Early' => Early, Current(1) = C, Sys3Lock(1, 0),
           Early' => at[C] = 1 /\ at'[C] = 2, at'[A] = at[A]
    PROVE  Kept
<1>1. 0 \in Hart /\ 1 \in Hart /\ A \in Slot /\ C \in Slot /\ A # C /\ 0 # 1 /\ 0 \in Mutex
  BY PartitionFacts, RegistrationAssumption, Zenon
<1>2. Early' => /\ \A m \in Mutex : C \notin MUTEXES[m].waiters
                /\ StC.kind # "Terminated"
  BY Zenon DEF HInv, FirstTest, Up
<1>3. CASE /\ SCHEDULERS' = SCHEDULERS /\ MUTEXES[0].owner = NoOwner /\ MUTEXES'[0].owner = C
           /\ \A m \in Mutex : MUTEXES'[m].waiters = MUTEXES[m].waiters
  <2>1. NoOwner # A
    BY <1>1, SchedulerAssumption DEF NoOwner, Slot
  <2>2. StA' = StA /\ StC' = StC
    BY <1>3, Zenon DEF StA, StC
  <2>3. QED
    BY <1>2, <1>3, <2>1, <2>2, Zenon DEF HInv, Kept, Held, FirstTest
<1>4. ASSUME NEW S \in [Hart -> BitMapScheduler], NEW st \in TaskState, st.kind = "BlockedOnMutex",
             With(SCHEDULERS, S, 1, C, st), switch_task(1, S, FALSE),
             MUTEXES'[0].owner = MUTEXES[0].owner,
             \A m \in Mutex : MUTEXES'[m].waiters =
                IF m = 0 THEN MUTEXES[m].waiters \cup {C} ELSE MUTEXES[m].waiters
      PROVE  Kept
  <2>1. St(S, 1, C) = st /\ St(S, 0, A) = StA
    BY <1>1, <1>4, Zenon DEF With, StA
  <2>2. StC'.kind = "BlockedOnMutex" /\ Neutral(StA, StA')
    <3>1. SameMode(st, StC') /\ Neutral(StA, StA')
      BY <1>1, <1>4, <2>1, NeutralSwitch, Zenon
    <3>2. QED
      BY <1>4, <3>1, Zenon DEF SameMode, Up
  <2>3. Held(StA', MUTEXES, at[A])
    BY <2>2, NeutralChange, Zenon DEF HInv
  <2>4. Held(StA', MUTEXES', at'[A])
    BY <1>4, <2>3, Zenon DEF Held
  <2>5. Early' => FirstTest(StC', MUTEXES', at'[C])
    BY <1>2, <1>4, <2>2, Zenon DEF FirstTest
  <2>6. QED
    BY <2>4, <2>5, Zenon DEF Kept
<1>5. QED
  BY <1>1, <1>3, <1>4, LockFacts, Zenon

\* Task A after a mutex has changed hands: it is as it was and the mutex was not
\* taken from it, or it has stopped, or it has the mutex.
LEMMA HandToA ==
    ASSUME NEW x, NEW y, NEW M, NEW N, NEW p, Held(x, M, p),
           \/ y = x /\ (N[0].owner = M[0].owner \/ M[0].owner # A)
           \/ y.kind \in Stopped
           \/ N[0].owner = A
    PROVE  Held(y, N, p)
BY Zenon DEF Held

\* Task C in its first test: it is as it was and the mutex was not taken from
\* it, or it has the mutex and its waiters bit is gone.
LEMMA HandToC ==
    ASSUME NEW x, NEW y, NEW M, NEW N, NEW p, FirstTest(x, M, p),
           \A m \in Mutex : C \in N[m].waiters => C \in M[m].waiters,
           \/ y = x /\ (N[0].owner = M[0].owner \/ M[0].owner # C)
           \/ /\ y.kind = "Ready" /\ N[0].owner = C
              /\ \A m \in Mutex : C \notin N[m].waiters
    PROVE  FirstTest(y, N, p)
<1>1. CASE y = x /\ (N[0].owner = M[0].owner \/ M[0].owner # C)
  BY <1>1, Zenon DEF FirstTest
<1>2. CASE y.kind = "Ready" /\ N[0].owner = C /\ \A m \in Mutex : C \notin N[m].waiters
  BY <1>2, Zenon DEF FirstTest
<1>3. QED
  BY <1>1, <1>2, Zenon

\* The holders sit on the harts where the code looks their bits up.
LEMMA HolderFacts ==
    /\ 0 \in Hart /\ 1 \in Hart /\ A \in Slot /\ C \in Slot /\ A # C /\ 0 # 1 /\ 0 \in Mutex
    /\ WaiterHart(A) = 0 /\ WaiterHart(C) = 1 /\ NoOwner \notin Slot
    /\ Ready \in TaskState /\ Ready.kind = "Ready" /\ Terminated.kind = "Terminated"
<1>1. 0 \in Hart /\ 1 \in Hart /\ A \in Slot /\ C \in Slot /\ A # C /\ 0 # 1 /\ 0 \in Mutex
  BY PartitionFacts, RegistrationAssumption, Zenon
<1>2. WaiterHart(A) = 0 /\ WaiterHart(C) = 1
  BY PartitionFacts DEF WaiterHart
<1>3. NoOwner \notin Slot
  BY SchedulerAssumption DEF NoOwner, Slot
<1>4. QED
  BY <1>1, <1>2, <1>3, SlotFacts, Zenon DEF Ready, Terminated, State

\* An unlock hands the mutex to a waiter and makes it Ready, or frees it.
LEMMA UnlockFacts ==
    ASSUME IInv, NEW h \in Hart, Sys4Unlock(h, 0)
    PROVE  /\ MUTEXES[0].owner = Current(h)
           /\ \A m \in Mutex : MUTEXES'[m].waiters \subseteq MUTEXES[m].waiters
           /\ \/ switch_task(h, SCHEDULERS, FALSE)
              \/ \E S \in [Hart -> BitMapScheduler], w \in MUTEXES[0].waiters :
                    /\ MUTEXES'[0].owner = w /\ w \notin MUTEXES'[0].waiters
                    /\ With(SCHEDULERS, S, WaiterHart(w), w, Ready)
                    /\ switch_task(h, S, FALSE)
<1> DEFINE w == HighestWaiter(MUTEXES[0].waiters)
<1>1. 0 \in Mutex /\ MUTEXES \in [Mutex -> KernelMutex]
  BY RegistrationAssumption, InvFacts, Zenon
<1>2. MUTEXES' = [MUTEXES EXCEPT ![0] = HandedOver(@)] /\ MUTEXES[0].owner = Current(h)
  BY Zenon DEF Sys4Unlock
<1>3. CASE MUTEXES[0].waiters = {}
  <2>1. switch_task(h, SCHEDULERS, FALSE)
    BY <1>3, Zenon DEF Sys4Unlock
  <2>2. \A n \in Mutex : MUTEXES'[n].waiters = MUTEXES[n].waiters
    BY <1>1, <1>2, <1>3, Zenon DEF HandedOver, KernelMutex
  <2>3. QED
    BY <1>2, <2>1, <2>2, Zenon
<1>4. CASE MUTEXES[0].waiters # {}
  <2>1. w \in MUTEXES[0].waiters /\ w \in Slot /\ WaiterHart(w) \in Hart
    BY <1>1, <1>4, WaiterFacts, Zenon
  <2>2. switch_task(h, SetState(SCHEDULERS, WaiterHart(w), w, Ready), FALSE)
    BY <1>4, Zenon DEF Sys4Unlock
  <2>3. /\ \A n \in Mutex : MUTEXES'[n].waiters =
              IF n = 0 THEN MUTEXES[n].waiters \ {w} ELSE MUTEXES[n].waiters
        /\ MUTEXES'[0].owner = w
    BY <1>1, <1>2, <1>4, Zenon DEF HandedOver, KernelMutex
  <2> HIDE DEF w
  <2> DEFINE S == SetState(SCHEDULERS, WaiterHart(w), w, Ready)
  <2>4. S \in [Hart -> BitMapScheduler] /\ With(SCHEDULERS, S, WaiterHart(w), w, Ready)
    BY <2>1, HolderFacts, SetStateWith, Zenon
  <2>5. /\ \A n \in Mutex : MUTEXES'[n].waiters \subseteq MUTEXES[n].waiters
        /\ w \notin MUTEXES'[0].waiters
    BY <1>1, <2>3, Zenon
  <2> HIDE DEF S
  <2>6. switch_task(h, S, FALSE)
    BY <2>2, Zenon DEF S
  <2>7. QED
    BY <1>2, <2>1, <2>3, <2>4, <2>5, <2>6, Zenon
<1>5. QED
  BY <1>3, <1>4, Zenon

\* What it means for the two holders, whoever unlocks.
LEMMA UnlockHands ==
    ASSUME IInv, SInv, NEW h \in Hart, Sys4Unlock(h, 0), NEW p
    PROVE  /\ Held(StA, MUTEXES, p) /\ Current(h) # A => Held(StA', MUTEXES', p)
           /\ FirstTest(StC, MUTEXES, p) /\ Current(h) # C => FirstTest(StC', MUTEXES', p)
<1>1. /\ MUTEXES[0].owner = Current(h)
      /\ \A m \in Mutex : MUTEXES'[m].waiters \subseteq MUTEXES[m].waiters
  BY UnlockFacts, Zenon
<1>2. CASE switch_task(h, SCHEDULERS, FALSE)
  <2>1. Neutral(StA, StA') /\ Neutral(StC, StC')
    BY <1>2, InvFacts, NeutralSwitch, Zenon DEF StA, StC
  <2>2. Held(StA, MUTEXES, p) /\ Current(h) # A => Held(StA, MUTEXES', p)
    BY <1>1, HandToA, Zenon
  <2>3. FirstTest(StC, MUTEXES, p) /\ Current(h) # C => FirstTest(StC, MUTEXES', p)
    BY <1>1, HandToC, Zenon
  <2>4. QED
    BY <2>1, <2>2, <2>3, NeutralChange, Zenon
<1>3. ASSUME NEW S \in [Hart -> BitMapScheduler], NEW w \in MUTEXES[0].waiters,
             MUTEXES'[0].owner = w, w \notin MUTEXES'[0].waiters,
             With(SCHEDULERS, S, WaiterHart(w), w, Ready), switch_task(h, S, FALSE)
      PROVE  /\ Held(StA, MUTEXES, p) /\ Current(h) # A => Held(StA', MUTEXES', p)
             /\ FirstTest(StC, MUTEXES, p) /\ Current(h) # C => FirstTest(StC', MUTEXES', p)
  <2>1. /\ St(S, 0, A) = IF w = A THEN Ready ELSE StA
        /\ St(S, 1, C) = IF w = C THEN Ready ELSE StC
    BY <1>3, HolderFacts, Zenon DEF With, StA, StC
  <2>2. Neutral(St(S, 0, A), StA') /\ Neutral(St(S, 1, C), StC')
    BY <1>3, NeutralSwitch, Zenon
  <2>3. Held(StA, MUTEXES, p) /\ Current(h) # A => Held(St(S, 0, A), MUTEXES', p)
    BY <1>1, <1>3, <2>1, HandToA, Zenon
  <2>4. ASSUME FirstTest(StC, MUTEXES, p), Current(h) # C PROVE FirstTest(St(S, 1, C), MUTEXES', p)
    <3>1. \A m \in Mutex : C \in MUTEXES'[m].waiters => C \in MUTEXES[m].waiters
      BY <1>1, Zenon
    <3>2. CASE w = C
      <4>1. \A m \in Mutex : C \notin MUTEXES'[m].waiters
        BY <1>3, <2>4, <3>1, <3>2, Zenon DEF FirstTest
      <4>2. QED
        BY <1>3, <2>1, <2>4, <3>1, <3>2, <4>1, HandToC, HolderFacts, ZenonT(30)
    <3>3. CASE w # C
      BY <1>1, <2>1, <2>4, <3>1, <3>3, HandToC, Zenon
    <3>4. QED
      BY <3>2, <3>3, Zenon
  <2>5. QED
    BY <2>2, <2>3, <2>4, NeutralChange, Zenon
<1>4. QED
  BY <1>2, <1>3, UnlockFacts, Zenon

\* The recovery of a terminated task's mutexes.
LEMMA RecoveryFacts ==
    ASSUME IInv, NEW i
    PROVE  /\ \A m \in Mutex : Recovered(i)[m].waiters \subseteq MUTEXES[m].waiters
           /\ MUTEXES[0].owner # i => Recovered(i)[0].owner = MUTEXES[0].owner
           /\ \A j \in NewOwners(i) : \E m \in Mutex :
                 /\ j \in MUTEXES[m].waiters
                 /\ Recovered(i)[m].owner = j /\ j \notin Recovered(i)[m].waiters
<1>1. 0 \in Mutex /\ \A m \in Mutex : MUTEXES[m] \in KernelMutex
  BY RegistrationAssumption, InvFacts, Zenon
<1>2. \A m \in Mutex : HandedOver(MUTEXES[m]).waiters \subseteq MUTEXES[m].waiters
  BY <1>1, Zenon DEF HandedOver, KernelMutex
<1>3. \A m \in Mutex : Recovered(i)[m] =
         IF MUTEXES[m].owner = i THEN HandedOver(MUTEXES[m]) ELSE MUTEXES[m]
  BY Zenon DEF Recovered
<1>4. ASSUME NEW j \in NewOwners(i)
      PROVE  \E m \in Mutex : /\ j \in MUTEXES[m].waiters
                              /\ Recovered(i)[m].owner = j /\ j \notin Recovered(i)[m].waiters
  <2>1. PICK m \in Mutex : /\ MUTEXES[m].owner = i /\ MUTEXES[m].waiters # {}
                           /\ j = HighestWaiter(MUTEXES[m].waiters)
    BY <1>4, Zenon DEF NewOwners
  <2>2. j \in MUTEXES[m].waiters
    BY <2>1, WaiterFacts, Zenon
  <2>3. HandedOver(MUTEXES[m]).owner = j /\ j \notin HandedOver(MUTEXES[m]).waiters
    BY <2>1, Zenon DEF HandedOver
  <2>4. QED
    BY <1>3, <2>1, <2>2, <2>3, Zenon
<1>5. QED
  BY <1>1, <1>2, <1>3, <1>4, Zenon

\* A termination leaves task A a holder, or stopped; and task C, if it is not
\* the one that is terminated.
LEMMA TerminationHands ==
    ASSUME IInv, SInv, NEW h \in Hart, NEW i \in Slot, i \in Tasks[h] \ {IDLE},
           Held(StA, MUTEXES, at[A])
    PROVE  LET S == TerminatedAndRecovered(h, i) IN
           /\ Held(St(S, 0, A), Recovered(i), at[A])
           /\ \A p : FirstTest(StC, MUTEXES, p) /\ i # C => FirstTest(St(S, 1, C), Recovered(i), p)
           /\ i = C /\ (\A m \in Mutex : C \notin MUTEXES[m].waiters) =>
                 /\ St(S, 1, C) = Terminated
                 /\ \A m \in Mutex : C \notin Recovered(i)[m].waiters
<1> DEFINE S == TerminatedAndRecovered(h, i)
<1>1. \A g \in Hart, j \in Slot :
        St(S, g, j) =
              IF j \in NewOwners(i) /\ g = WaiterHart(j) /\ KindOf(g, j) # "None" THEN Ready
              ELSE IF g = h /\ j = i THEN Terminated
              ELSE St(SCHEDULERS, g, j)
  BY TerminationFacts
<1> HIDE DEF S
<1>2. KindOf(0, A) # "None" /\ KindOf(1, C) # "None"
  BY HolderFacts, PartitionFacts, InvFacts DEF IInv, Good, Sane
<1>3. (h = 0 \/ i # A) /\ (h = 1 \/ i # C)
  BY PartitionFacts, Zenon
<1>4. /\ St(S, 0, A) = IF A \in NewOwners(i) THEN Ready
                       ELSE IF i = A THEN Terminated ELSE StA
      /\ St(S, 1, C) = IF C \in NewOwners(i) THEN Ready
                       ELSE IF i = C THEN Terminated ELSE StC
  BY <1>1, <1>2, <1>3, HolderFacts, Zenon DEF StA, StC
<1>5. Held(St(S, 0, A), Recovered(i), at[A])
  <2>1. CASE A \in NewOwners(i)
    <3>1. PICK m \in Mutex : A \in MUTEXES[m].waiters /\ Recovered(i)[m].owner = A
      BY <2>1, RecoveryFacts
    <3>2. m = 0
      BY <3>1, Zenon DEF SInv, Signing, BitOfA
    <3>3. QED
      BY <3>1, <3>2, HandToA, Zenon
  <2>2. CASE A \notin NewOwners(i) /\ i = A
    BY <1>4, <2>2, HolderFacts, Zenon DEF Held, Stopped
  <2>3. CASE A \notin NewOwners(i) /\ i # A
    <3>1. Recovered(i)[0].owner = MUTEXES[0].owner \/ MUTEXES[0].owner # A
      BY <2>3, RecoveryFacts, Zenon
    <3>2. QED
      BY <1>4, <2>3, <3>1, HandToA, Zenon
  <2>4. QED
    BY <2>1, <2>2, <2>3, Zenon
<1>6. ASSUME NEW p, FirstTest(StC, MUTEXES, p), i # C
      PROVE  FirstTest(St(S, 1, C), Recovered(i), p)
  <2>1. \A m \in Mutex : C \in Recovered(i)[m].waiters => C \in MUTEXES[m].waiters
    BY RecoveryFacts, Zenon
  <2>2. CASE C \in NewOwners(i)
    <3>1. PICK m \in Mutex : /\ C \in MUTEXES[m].waiters
                             /\ Recovered(i)[m].owner = C /\ C \notin Recovered(i)[m].waiters
      BY <2>2, RecoveryFacts, Zenon
    <3>2. m = 0 /\ \A n \in Mutex : C \in MUTEXES[n].waiters => n = 0
      BY <1>6, <3>1, Zenon DEF FirstTest
    <3>3. \A n \in Mutex : C \notin Recovered(i)[n].waiters
      BY <2>1, <3>1, <3>2, Zenon
    <3>4. QED
      BY <1>4, <1>6, <2>1, <2>2, <3>1, <3>2, <3>3, HandToC, HolderFacts, ZenonT(30)
  <2>3. CASE C \notin NewOwners(i)
    <3>1. Recovered(i)[0].owner = MUTEXES[0].owner \/ MUTEXES[0].owner # C
      BY <1>6, RecoveryFacts, Zenon
    <3>2. QED
      BY <1>4, <1>6, <2>1, <2>3, <3>1, HandToC, Zenon
  <2>4. QED
    BY <2>2, <2>3, Zenon
<1>7. ASSUME i = C, \A m \in Mutex : C \notin MUTEXES[m].waiters
      PROVE  /\ St(S, 1, C) = Terminated
             /\ \A m \in Mutex : C \notin Recovered(i)[m].waiters
  BY <1>4, <1>7, RecoveryFacts, Zenon
<1>8. QED
  BY <1>5, <1>6, <1>7, Zenon DEF S

\* The calls of task C's first test, one by one; no later one unlocks.
LEMMA CallsOfFirstTest ==
    ASSUME ProgramInv
    PROVE  /\ tc = 0 =>
                /\ at[C] \in 1 .. 5
                /\ at[C] = 1 => NextCall(C)[1] = "lock" /\ After(C) = 2
                /\ at[C] = 2 => NextCall(C)[1] = "yield" /\ After(C) = 3
                /\ at[C] = 3 => NextCall(C)[1] = "unlock" /\ After(C) = 4
                /\ at[C] = 4 => NextCall(C)[1] = "yield" /\ After(C) = 5
                /\ at[C] = 5 => NextCall(C)[1] = "fault" /\ After(C) = 1
           /\ NextCall(C)[1] = "unlock" => tc = 0
<1>1. Program(C) = task_c
  BY DEF Program, A, B, C, HSM
<1>2. CASE tc = 0
  <2>1. task_c = << <<"lock", 0>>, <<"yield", 0>>, <<"unlock", 0>>,
                    <<"yield", 0>>, <<"fault", 0>> >>
    BY <1>2 DEF task_c
  <2>2. Len(task_c) = 5
    BY <2>1, Zenon
  <2>3. at[C] \in 1 .. 5
    BY <1>2, Zenon DEF ProgramInv
  <2>4. QED
    BY <1>1, <1>2, <2>1, <2>2, <2>3 DEF NextCall, After
<1>3. CASE tc = 1
  <2>1. task_c = << <<"fault", 0>> >> /\ at[C] = 1
    BY <1>3 DEF task_c, ProgramInv
  <2>2. QED
    BY <1>1, <1>3, <2>1 DEF NextCall
<1>4. CASE tc \notin {0, 1}
  <2>1. task_c = << <<"checkin", 0>>, <<"spin", 0>> >>
    BY <1>4, Zenon DEF task_c
  <2>2. at[C] = 1 \/ at[C] = 2
    BY <1>4 DEF ProgramInv
  <2>3. QED
    BY <1>1, <1>4, <2>1, <2>2 DEF NextCall
<1>5. QED
  BY <1>2, <1>3, <1>4, Zenon

\* A contained fault: the HSM's leaves both holders alone, task C's ends its test.
LEMMA FaultKeeps ==
    ASSUME IInv, SInv, HInv, Early' => Early, NEW h \in Hart, Fault(h), at'[A] = at[A],
           \/ Current(h) # C /\ at'[C] = at[C]
           \/ Current(h) = C /\ (Early' => at[C] = 5 /\ at'[C] = 1)
    PROVE  Kept
<1>1. /\ Current(h) # IDLE /\ MUTEXES' = Recovered(Current(h))
      /\ switch_task(h, TerminatedAndRecovered(h, Current(h)), FALSE)
  BY Zenon DEF Fault, Traps
<1>2. PICK i \in Slot : i = Current(h) /\ i \in Tasks[h] \ {IDLE}
  BY <1>1, InvFacts, Zenon
<1>3. PICK S : S = TerminatedAndRecovered(h, i)
  BY Zenon
<1>4. S \in [Hart -> BitMapScheduler]
  BY <1>2, <1>3, TerminationGood, Zenon
<1>5. switch_task(h, S, FALSE) /\ MUTEXES' = Recovered(i)
  BY <1>1, <1>2, <1>3, Zenon
<1>6. Neutral(St(S, 0, A), StA') /\ Neutral(St(S, 1, C), StC')
  BY <1>4, <1>5, NeutralSwitch, Zenon
<1>7. Held(StA, MUTEXES, at[A]) /\ (Early => FirstTest(StC, MUTEXES, at[C]))
  BY Zenon DEF HInv
<1>8. /\ Held(St(S, 0, A), Recovered(i), at[A])
      /\ \A p : FirstTest(StC, MUTEXES, p) /\ i # C => FirstTest(St(S, 1, C), Recovered(i), p)
      /\ i = C /\ (\A m \in Mutex : C \notin MUTEXES[m].waiters) =>
            /\ St(S, 1, C) = Terminated
            /\ \A m \in Mutex : C \notin Recovered(i)[m].waiters
  BY <1>2, <1>3, <1>7, TerminationHands, Zenon
<1>9. Held(StA', MUTEXES', at'[A])
  BY <1>5, <1>6, <1>8, NeutralChange, Zenon
<1>10. ASSUME Early' PROVE FirstTest(St(S, 1, C), MUTEXES', at'[C])
  <2>1. CASE i # C
    BY <1>2, <1>5, <1>7, <1>8, <1>10, <2>1, Zenon
  <2>2. CASE i = C
    <3>1. at[C] = 5 /\ at'[C] = 1 /\ FirstTest(StC, MUTEXES, 5)
      BY <1>2, <1>7, <1>10, <2>2, Zenon
    <3>2. \A m \in Mutex : C \notin MUTEXES[m].waiters
      BY <3>1 DEF FirstTest
    <3>3. FirstTest(St(S, 1, C), Recovered(i), 1)
      BY <1>8, <2>2, <3>2 DEF FirstTest
    <3>4. QED
      BY <1>5, <3>1, <3>3, Zenon
  <2>3. QED
    BY <2>1, <2>2, Zenon
<1>11. QED
  BY <1>6, <1>9, <1>10, NeutralChange, Zenon DEF Kept

\* Task A's unlock never fails the assertion.
LEMMA UnlockOfA ==
    ASSUME SInv, HInv, Current(0) = A, at[A] = 3
    PROVE  ~Sys4UnlockPanics(0, 0)
<1>1. Up(StA)
  BY Zenon DEF SInv, Current, StA
<1>2. QED
  BY <1>1, Zenon DEF HInv, Held, Stopped, Up, Sys4UnlockPanics

\* A call of task A.
LEMMA CallOfAKeeps ==
    ASSUME IInv, ProgramInv, SInv, HInv, Early' => Early, Calls(0), Current(0) = A
    PROVE  Kept
<1>1. at'[A] = After(A) /\ at'[C] = at[C]
  <2>1. 0 \in Hart /\ Current(0) # C
    BY PartitionFacts
  <2>2. at' = [at EXCEPT ![A] = After(A)]
    BY <2>1, ProgramMoves, Zenon
  <2>3. QED
    BY <2>2, PartitionFacts, Zenon DEF ProgramInv
<1>2. Up(StA)
  BY Zenon DEF SInv, Current, StA
<1>3. at[A] = 3 => ~Sys4UnlockPanics(0, 0)
  BY UnlockOfA, Zenon
<1>4. ASSUME NEW call, NEW arg, call = NextCall(A)[1], arg = NextCall(A)[2]
      PROVE  \/ call \in {"checkin", "hang"} /\ UNCHANGED vars
             \/ call = "lock" /\ Sys3Lock(0, arg)
             \/ call = "unlock" /\ (Sys4Unlock(0, arg) \/ Sys4UnlockPanics(0, arg))
             \/ /\ call = "send"
                /\ Rendezvous(0, arg, "BlockedOnIpcRecv", "BlockedOnIpcSend")
             \/ /\ call = "recv"
                /\ Rendezvous(0, arg, "BlockedOnIpcSend", "BlockedOnIpcRecv")
             \/ call \in {"yield", "spin"} /\ Sys1Yield(0)
             \/ call = "fault" /\ Fault(0)
  BY <1>4, HolderFacts, CallMade, ZenonT(30)
<1>5. CASE at[A] = 2
  <2>1. NextCall(A)[1] = "lock" /\ NextCall(A)[2] = 0 /\ After(A) = 3
    BY <1>5, CallsOfA
  <2>2. Sys3Lock(0, 0)
    BY <1>4, <2>1, Zenon
  <2>3. QED
    BY <1>1, <1>5, <2>1, <2>2, LockOfA, Zenon
<1>6. CASE at[A] = 3
  <2>1. NextCall(A)[1] = "unlock" /\ NextCall(A)[2] = 0 /\ After(A) = 4
    BY <1>6, CallsOfA
  <2>2. Sys4Unlock(0, 0)
    BY <1>3, <1>4, <1>6, <2>1
  <2>3. Held(StA', MUTEXES', at'[A])
    BY <1>1, <2>1 DEF Held
  <2>4. Early => FirstTest(StC', MUTEXES', at'[C])
    BY <1>1, <2>2, HolderFacts, UnlockHands, Zenon DEF HInv
  <2>5. QED
    BY <2>3, <2>4, Zenon DEF Kept
<1>7. CASE at[A] \notin {2, 3}
  <2>1. at'[A] # 3
    BY <1>1, <1>7, CallsOfA DEF ProgramInv
  <2>2. \/ NextCall(A)[1] \in {"checkin", "yield"}
        \/ NextCall(A)[1] \in {"send", "recv"} /\ NextCall(A)[2] \in Nat
    BY <1>7, CallsOfA DEF ProgramInv
  <2>3. \/ UNCHANGED vars
        \/ Sys1Yield(0)
        \/ \E e \in Nat : Rendezvous(0, e, "BlockedOnIpcRecv", "BlockedOnIpcSend")
        \/ \E e \in Nat : Rendezvous(0, e, "BlockedOnIpcSend", "BlockedOnIpcRecv")
    BY <1>4, <2>2, Zenon
  <2>4. Neutral(StA, StA') /\ Neutral(StC, StC') /\ MUTEXES' = MUTEXES
    <3>1. CASE UNCHANGED vars
      BY <3>1, Zenon DEF vars, Neutral, StA, StC
    <3>2. CASE Sys1Yield(0)
      BY <3>2, HolderFacts, InterruptNeutral, Zenon
    <3>3. ASSUME NEW e \in Nat, NEW peer \in {"BlockedOnIpcSend", "BlockedOnIpcRecv"},
                 NEW own \in {"BlockedOnIpcSend", "BlockedOnIpcRecv"}, Rendezvous(0, e, peer, own)
          PROVE  Neutral(StA, StA') /\ Neutral(StC, StC') /\ MUTEXES' = MUTEXES
      BY <1>2, <3>3, HolderFacts, ExchangeNeutral, Zenon
    <3>4. QED
      BY <2>3, <3>1, <3>2, <3>3, Zenon
  <2>5. QED
    BY <1>1, <2>1, <2>4, QuietKeeps, Zenon
<1>8. QED
  BY <1>5, <1>6, <1>7, Zenon

\* A call of the HSM or of task B.
LEMMA CallOfPeerKeeps ==
    ASSUME IInv, ProgramInv, SInv, HInv, Early' => Early, NEW h \in Hart, Calls(h),
           (h = 0 /\ Current(h) = HSM) \/ (h = 1 /\ Current(h) = B)
    PROVE  Kept
<1>1. at'[A] = at[A] /\ at'[C] = at[C] /\ Current(h) \notin {A, C}
  <2>1. Current(h) \notin {A, C} /\ Current(h) \in Monitored
    BY PartitionFacts
  <2>2. at' = [at EXCEPT ![Current(h)] = After(Current(h))]
    BY <2>1, ProgramMoves, Zenon
  <2>3. QED
    BY <2>1, <2>2, PartitionFacts DEF ProgramInv
<1>2. \/ NextCall(Current(h))[1] \in {"checkin", "hang", "yield"}
      \/ NextCall(Current(h))[1] \in {"send", "recv"} /\ NextCall(Current(h))[2] \in Nat
  BY CallsOfHsm, CallsOfB DEF ProgramInv
<1>3. \/ UNCHANGED vars
      \/ Sys1Yield(h)
      \/ \E e \in Nat : Rendezvous(h, e, "BlockedOnIpcRecv", "BlockedOnIpcSend")
      \/ \E e \in Nat : Rendezvous(h, e, "BlockedOnIpcSend", "BlockedOnIpcRecv")
  <2>1. PICK call, arg : call = NextCall(Current(h))[1] /\ arg = NextCall(Current(h))[2]
    BY Zenon
  <2>2. QED
    BY <1>2, <2>1, CallMade
<1>4. Neutral(StA, StA') /\ Neutral(StC, StC') /\ MUTEXES' = MUTEXES
  <2>1. CASE UNCHANGED vars
    BY <2>1, Zenon DEF vars, Neutral, StA, StC
  <2>2. CASE Sys1Yield(h)
    BY <2>2, InterruptNeutral, Zenon
  <2>3. ASSUME NEW e \in Nat, NEW peer \in {"BlockedOnIpcSend", "BlockedOnIpcRecv"},
               NEW own \in {"BlockedOnIpcSend", "BlockedOnIpcRecv"}, Rendezvous(h, e, peer, own)
        PROVE  Neutral(StA, StA') /\ Neutral(StC, StC') /\ MUTEXES' = MUTEXES
    BY <1>1, <2>3, ExchangeNeutral, Zenon
  <2>4. QED
    BY <1>3, <2>1, <2>2, <2>3, Zenon
<1>5. QED
  BY <1>1, <1>4, QuietKeeps, Zenon

\* A call of task C, in any of its tests.
LEMMA CallOfCKeeps ==
    ASSUME IInv, ProgramInv, SInv, HInv, Early' => Early, Calls(1), Current(1) = C
    PROVE  Kept
<1>1. (Early' => at'[C] = After(C)) /\ at'[A] = at[A]
  <2>1. 1 \in Hart
    BY PartitionFacts, Zenon
  <2>2. \/ at' = [at EXCEPT ![C] = After(C)]
        \/ StartsAnew /\ at' = [at EXCEPT ![C] = 1] /\ tc' = TEST_COUNTER
    BY <2>1, ProgramMoves, Zenon
  <2>3. StartsAnew /\ tc' = TEST_COUNTER => ~Early'
    BY Zenon DEF HInv, Renewed, StartsAnew, Early
  <2>4. QED
    BY <2>2, <2>3, PartitionFacts, Zenon DEF ProgramInv
<1>2. Early => /\ tc = 0 /\ Up(StC) /\ FirstTest(StC, MUTEXES, at[C])
  BY Zenon DEF HInv, Early
<1>3. /\ NextCall(C)[1] \in {"lock", "unlock", "yield", "fault", "checkin", "spin"}
      /\ NextCall(C)[1] \in {"lock", "unlock"} => NextCall(C)[2] = 0
  BY CallsOfC, Zenon
<1>4. \/ NextCall(C)[1] = "checkin" /\ UNCHANGED vars
      \/ NextCall(C)[1] = "lock" /\ Sys3Lock(1, 0)
      \/ NextCall(C)[1] = "unlock" /\ (Sys4Unlock(1, 0) \/ Sys4UnlockPanics(1, 0))
      \/ NextCall(C)[1] \in {"yield", "spin"} /\ Sys1Yield(1)
      \/ NextCall(C)[1] = "fault" /\ Fault(1)
  <2>1. PICK call, arg : call = NextCall(C)[1] /\ arg = NextCall(C)[2]
    BY Zenon
  <2>2. QED
    BY <1>3, <2>1, HolderFacts, CallMade
<1>5. Early' => /\ at[C] \in 1 .. 5
                /\ NextCall(C)[1] = "lock" => at[C] = 1 /\ at'[C] = 2
                /\ NextCall(C)[1] \in {"yield", "spin"} =>
                      at[C] \in {2, 4} /\ at'[C] = at[C] + 1
                /\ NextCall(C)[1] = "unlock" => at[C] = 3 /\ at'[C] = 4
                /\ NextCall(C)[1] = "fault" => at[C] = 5 /\ at'[C] = 1
                /\ NextCall(C)[1] # "checkin"
  BY <1>1, <1>2, CallsOfFirstTest
<1>6. CASE NextCall(C)[1] = "lock" /\ Sys3Lock(1, 0)
  BY <1>1, <1>5, <1>6, LockOfC, Zenon
<1>7. CASE NextCall(C)[1] = "fault" /\ Fault(1)
  BY <1>1, <1>5, <1>7, HolderFacts, FaultKeeps, Zenon
<1>8. CASE NextCall(C)[1] \in {"yield", "spin", "checkin"} /\ (Sys1Yield(1) \/ UNCHANGED vars)
  <2>1. Neutral(StA, StA') /\ Neutral(StC, StC') /\ MUTEXES' = MUTEXES
    <3>1. CASE UNCHANGED vars
      BY <3>1, Zenon DEF vars, Neutral, StA, StC
    <3>2. CASE Sys1Yield(1)
      BY <3>2, HolderFacts, InterruptNeutral, Zenon
    <3>3. QED
      BY <1>8, <3>1, <3>2, Zenon
  <2>2. Held(StA', MUTEXES', at'[A])
    BY <1>1, <2>1, NeutralChange, Zenon DEF HInv
  <2>3. Early' => FirstTest(StC, MUTEXES, at'[C])
    BY <1>2, <1>5, <1>8 DEF FirstTest, Up
  <2>4. QED
    BY <2>1, <2>2, <2>3, NeutralChange, Zenon DEF Kept
<1>9. CASE NextCall(C)[1] = "unlock" /\ Sys4Unlock(1, 0)
  <2>1. Held(StA', MUTEXES', at'[A])
    BY <1>1, <1>9, HolderFacts, UnlockHands, Zenon DEF HInv
  <2>2. ASSUME Early' PROVE FirstTest(StC', MUTEXES', at'[C])
    <3>1. at'[C] = 4 /\ \A m \in Mutex : C \notin MUTEXES[m].waiters
      BY <1>2, <1>5, <1>9, <2>2 DEF FirstTest
    <3>2. \A m \in Mutex : C \notin MUTEXES'[m].waiters
      BY <1>9, <3>1, HolderFacts, UnlockFacts, Zenon
    <3>3. StC'.kind # "Terminated"
      <4>1. CASE switch_task(1, SCHEDULERS, FALSE)
        <5>1. SameMode(StC, StC')
          BY <4>1, HolderFacts, InvFacts, NeutralSwitch, Zenon DEF StC
        <5>2. QED
          BY <1>2, <2>2, <5>1 DEF SameMode, Up
      <4>2. ASSUME NEW S \in [Hart -> BitMapScheduler], NEW w \in MUTEXES[0].waiters,
                   With(SCHEDULERS, S, WaiterHart(w), w, Ready), switch_task(1, S, FALSE)
            PROVE  StC'.kind # "Terminated"
        <5>1. St(S, 1, C) = StC /\ SameMode(St(S, 1, C), StC')
          BY <3>1, <4>2, HolderFacts, NeutralSwitch, Zenon DEF With, StC
        <5>2. QED
          BY <1>2, <2>2, <5>1 DEF SameMode, Up
      <4>3. QED
        BY <1>9, <4>1, <4>2, HolderFacts, UnlockFacts, Zenon
    <3>4. QED
      BY <3>1, <3>2, <3>3 DEF FirstTest
  <2>3. QED
    BY <2>1, <2>2, Zenon DEF Kept
<1>10. CASE NextCall(C)[1] = "unlock" /\ Sys4UnlockPanics(1, 0)
  <2>1. SCHEDULERS' = SCHEDULERS /\ MUTEXES' = MUTEXES
    BY <1>10, Zenon DEF Sys4UnlockPanics
  <2>2. ~Early'
    BY <1>2, <1>5, <1>10 DEF FirstTest, Up, Sys4UnlockPanics
  <2>3. QED
    BY <1>1, <2>1, <2>2, Zenon DEF Kept, HInv, StA
<1>11. QED
  BY <1>4, <1>6, <1>7, <1>8, <1>9, <1>10, Zenon

\* A scan: in the grace period it gives up somebody else than task C, which has
\* not checked in.
LEMMA ChecksKeep ==
    ASSUME IInv, ProgramInv, SInv, ClockInv, HInv, Early' => Early, WatchdogChecks
    PROVE  /\ Kept
           /\ Early /\ SCHEDULERS'[1].current = C => Up(StC')
<1>1. at' = at
  BY Zenon DEF WatchdogChecks
<1>2. Early => ~Failed(C)
  BY GraceHolds, PartitionFacts, Zenon DEF HInv, Early
<1>3. Early /\ Current(1) = C => Up(StC)
  BY Zenon DEF HInv
<1>4. CASE UNCHANGED vars
  <2>1. Neutral(StA, StA') /\ Neutral(StC, StC') /\ MUTEXES' = MUTEXES
    BY <1>4, Zenon DEF vars, Neutral, StA, StC
  <2>2. Kept
    BY <1>1, <2>1, QuietKeeps, Zenon
  <2>3. SCHEDULERS' = SCHEDULERS
    BY <1>4, Zenon DEF vars
  <2>4. QED
    BY <1>3, <2>2, <2>3, Zenon DEF StC, Current
<1>5. ASSUME \E j \in Monitored : Failed(j), Sys8Terminate(failed_task)
      PROVE  Kept /\ (Early /\ SCHEDULERS'[1].current = C => Up(StC'))
  <2>1. PICK i \in Monitored : i = failed_task /\ Failed(i)
    BY <1>5, FailedTaskFacts, Zenon
  <2>2. PICK h \in Hart : SCHEDULERS' = TerminatedAndRecovered(h, i) /\ KindOf(h, i) # "None"
    <3>1. LET h == IF KindOf(0, i) # "None" THEN 0 ELSE 1 IN
          h \in Hart /\ SCHEDULERS' = TerminatedAndRecovered(h, i) /\ KindOf(h, i) # "None"
      BY <1>5, <2>1, Zenon DEF Sys8Terminate, Hart
    <3>2. QED
      BY <3>1, Zenon
  <2>3. MUTEXES' = Recovered(i)
    BY <1>5, <2>1, Zenon DEF Sys8Terminate
  <2>4. i \in Slot /\ i # IDLE /\ i \in Targets
    BY PartitionFacts, Zenon
  <2>5. i \in Tasks[h] \ {IDLE}
    BY <2>2, <2>4, InvFacts DEF IInv, Good, Sane
  <2>6. Early => i # C
    BY <1>2, <2>1, Zenon
  <2>7. Held(StA, MUTEXES, at[A]) /\ (Early => FirstTest(StC, MUTEXES, at[C]))
    BY Zenon DEF HInv
  <2>8. /\ Held(StA', Recovered(i), at[A])
        /\ \A p : FirstTest(StC, MUTEXES, p) /\ i # C => FirstTest(StC', Recovered(i), p)
    BY <2>2, <2>4, <2>5, <2>7, TerminationHands, Zenon DEF StA, StC
  <2>9. Kept
    BY <1>1, <2>3, <2>6, <2>7, <2>8, Zenon DEF Kept
  <2>10. Steady(1) \/ (Current(1) = i /\ SCHEDULERS'[1].current = i)
    BY <1>5, <2>1, <2>4, HolderFacts, TerminateSteady, Zenon
  <2>11. ASSUME Early, SCHEDULERS'[1].current = C PROVE Up(StC')
    BY <1>3, <2>6, <2>10, <2>11, Zenon DEF Steady, StC
  <2>12. QED
    BY <2>9, <2>11, Zenon
<1>6. QED
  BY <1>4, <1>5, Zenon DEF WatchdogChecks

\* The watchdog goes to sleep.
LEMMA SleepKeeps ==
    ASSUME IInv, HInv, Early' => Early, WatchdogSleeps
    PROVE  Kept
<1>1. /\ Current(0) = WATCHDOG /\ MUTEXES' = MUTEXES /\ at' = at
      /\ switch_task(0, SetState(SCHEDULERS, 0, WATCHDOG,
                                 State("Blocked", (TICK_COUNT + PERIOD) % TICK_MOD)), FALSE)
  BY Zenon DEF WatchdogSleeps, At, Sys2Sleep, Traps, programVars
<1>2. PICK n \in Nat : n = (TICK_COUNT + PERIOD) % TICK_MOD
  BY KernelAssumption, SystemAssumption DEF IInv, RestTypeOK
<1>3. PICK st \in TaskState : st = State("Blocked", n)
  BY Zenon DEF State, TaskState, Kind
<1>4. PICK S \in [Hart -> BitMapScheduler] :
        S = SetState(SCHEDULERS, 0, WATCHDOG, st) /\ With(SCHEDULERS, S, 0, WATCHDOG, st)
  <2>1. 0 \in Hart /\ WATCHDOG \in Slot
    BY PartitionFacts, SlotFacts, Zenon
  <2>2. QED
    BY <2>1, SetStateWith, Zenon
<1>5. switch_task(0, S, FALSE)
  BY <1>1, <1>2, <1>3, <1>4, Zenon
<1>6. Neutral(StA, St(S, 0, A)) /\ Neutral(StC, St(S, 1, C))
  BY <1>4, HolderFacts, PartitionFacts, Zenon DEF With, Neutral, StA, StC
<1>7. QED
  BY <1>1, <1>5, <1>6, HolderFacts, NeutralSwitch, QuietKeeps, Zenon

\* Nobody restarts task C early in its first test: hart 1 has left a task C that
\* has ended, so that the next instance runs the next test.
LEMMA RestartCKeeps ==
    ASSUME IInv, ProgramInv, HInv, Early' => Early, WatchdogRestartsC
    PROVE  Kept
<1>1. at'[A] = at[A] /\ MUTEXES' = MUTEXES
  BY PartitionFacts, Zenon DEF WatchdogRestartsC, WatchdogRestarts, ProgramInv, vars
<1>2. CASE UNCHANGED vars /\ at' = at
  <2>1. Neutral(StA, StA') /\ Neutral(StC, StC')
    BY <1>2, Zenon DEF vars, Neutral, StA, StC
  <2>2. QED
    BY <1>1, <1>2, <2>1, QuietKeeps, Zenon
<1>3. CASE /\ TestLeft /\ WatchdogRestarts(1, C)
           /\ TEST_COUNTER' = TEST_COUNTER + 1
           /\ Current(1) = C \/ tc' = TEST_COUNTER'
  <2>1. With(SCHEDULERS, SCHEDULERS', 1, C, Ready)
    BY <1>3, HolderFacts, SetStateWith, Zenon DEF WatchdogRestarts
  <2>2. StA' = StA
    BY <2>1, HolderFacts, Zenon DEF With, StA
  <2>3. Held(StA', MUTEXES', at'[A])
    BY <1>1, <2>2, Zenon DEF HInv
  <2>4. StC.kind = "Terminated"
    BY <1>3, HolderFacts, InvFacts, Zenon DEF TestLeft, StC
  <2>5. TEST_COUNTER \in Nat
    BY Zenon DEF ProgramInv
  <2>6. ~Early'
    BY <1>3, <2>4, <2>5 DEF HInv, Early, Up
  <2>7. QED
    BY <2>3, <2>6, Zenon DEF Kept
<1>4. QED
  BY <1>2, <1>3, Zenon DEF WatchdogRestartsC

\* The HSM holds no mutex.
LEMMA RestartHsmKeeps ==
    ASSUME IInv, ProgramInv, HInv, Early' => Early, WatchdogRestartsHsm
    PROVE  Kept
<1>1. at'[A] = at[A] /\ at'[C] = at[C] /\ MUTEXES' = MUTEXES
  <2>1. (at' = at \/ at' = [at EXCEPT ![HSM] = 1]) /\ MUTEXES' = MUTEXES
    BY Zenon DEF WatchdogRestartsHsm, WatchdogRestarts, vars
  <2>2. QED
    BY <2>1, PartitionFacts DEF ProgramInv
<1>2. CASE UNCHANGED vars
  <2>1. Neutral(StA, StA') /\ Neutral(StC, StC')
    BY <1>2, Zenon DEF vars, Neutral, StA, StC
  <2>2. QED
    BY <1>1, <2>1, QuietKeeps, Zenon
<1>3. CASE WatchdogRestarts(0, HSM)
  <2>1. HSM \in Slot /\ HSM # A /\ HSM # C
    BY PartitionFacts
  <2>2. With(SCHEDULERS, SCHEDULERS', 0, HSM, Ready)
    BY <1>3, <2>1, HolderFacts, SetStateWith, Zenon DEF WatchdogRestarts
  <2>3. StA' = StA /\ StC' = StC
    BY <2>1, <2>2, HolderFacts, Zenon DEF With, StA, StC
  <2>4. Neutral(StA, StA') /\ Neutral(StC, StC')
    BY <2>3, Zenon DEF Neutral
  <2>5. QED
    BY <1>1, <2>4, QuietKeeps, Zenon
<1>4. QED
  BY <1>2, <1>3, Zenon DEF WatchdogRestartsHsm

\* A step keeps the two holders holders.
LEMMA KeptStep ==
    ASSUME IInv, ProgramInv, SInv, ClockInv, HInv, Early' => Early, [Next_System]_systemVars
    PROVE  Kept
<1>1. ASSUME NEW h \in Hart, Calls(h) PROVE Kept
  <2>1. CASE h = 0
    BY <1>1, <2>1, CallFacts, CallOfAKeeps, CallOfPeerKeeps, Zenon
  <2>2. CASE h = 1
    BY <1>1, <2>2, CallFacts, CallOfCKeeps, CallOfPeerKeeps, Zenon
  <2>3. QED
    BY <2>1, <2>2, Zenon DEF Hart
<1>2. ASSUME NEW h \in Hart, Handles(h) PROVE Kept
  <2>1. Neutral(StA, StA') /\ Neutral(StC, StC') /\ MUTEXES' = MUTEXES
    BY <1>2, InterruptNeutral, Zenon DEF Handles
  <2>2. CASE at' = at
    BY <2>1, <2>2, QuietKeeps, Zenon
  <2>3. CASE StartsAnew /\ at' = [at EXCEPT ![C] = 1] /\ tc' = TEST_COUNTER
    <3>1. ~Early'
      BY <2>3, Zenon DEF HInv, Renewed, StartsAnew, Early
    <3>2. at'[A] = at[A]
      BY <2>3, PartitionFacts DEF ProgramInv
    <3>3. Held(StA', MUTEXES', at'[A])
      BY <2>1, <3>2, NeutralChange, Zenon DEF HInv
    <3>4. QED
      BY <3>1, <3>3, Zenon DEF Kept
  <2>4. QED
    BY <1>2, <2>2, <2>3, ProgramMoves, Zenon
<1>3. ASSUME SCHEDULERS' = SCHEDULERS, MUTEXES' = MUTEXES, at' = at PROVE Kept
  <2>1. Neutral(StA, StA') /\ Neutral(StC, StC')
    BY <1>3, Zenon DEF Neutral, StA, StC
  <2>2. QED
    BY <1>3, <2>1, QuietKeeps, Zenon
<1>4. ASSUME \/ \E h \in Hart : Ticks(h)
             \/ WatchdogLoads \/ WatchdogStartsScan \/ WatchdogEndsScan \/ UNCHANGED systemVars
      PROVE  Kept
  BY <1>3, <1>4, Zenon
     DEF Ticks, TimerEntry, WatchdogLoads, WatchdogStartsScan, WatchdogEndsScan, WatchdogLocks,
         WatchdogUnlocks, systemVars, vars, programVars
<1>5. CASE HsmFaults
  <2>1. 0 \in Hart /\ Fault(0) /\ at' = at /\ Current(0) # C
    BY <1>5, PartitionFacts, Zenon DEF HsmFaults
  <2>2. QED
    BY <2>1, FaultKeeps, Zenon
<1>6. QED
  BY <1>1, <1>2, <1>4, <1>5, ChecksKeep, SleepKeeps, RestartCKeeps, RestartHsmKeeps, Zenon
     DEF Next_System, watchdog_task

\* The kernel stops only in an unlock by a task that does not own the mutex.
LEMMA HaltingStep ==
    ASSUME [Next_System]_systemVars
    PROVE  \/ /\ halted' = halted
              /\ tc' = tc \/ SCHED_LOCK # "panic"
              /\ SCHED_LOCK = "panic" => SCHED_LOCK' = "panic"
           \/ \E h \in Hart : /\ Calls(h) /\ Current(h) \in Monitored
                              /\ NextCall(Current(h))[1] = "unlock"
                              /\ Sys4UnlockPanics(h, NextCall(Current(h))[2])
<1> DEFINE Goes == /\ halted' = halted
                   /\ tc' = tc \/ SCHED_LOCK # "panic"
                   /\ SCHED_LOCK = "panic" => SCHED_LOCK' = "panic"
           Stops(h) == /\ Calls(h) /\ Current(h) \in Monitored
                       /\ NextCall(Current(h))[1] = "unlock"
                       /\ Sys4UnlockPanics(h, NextCall(Current(h))[2])
<1>1. ASSUME UNCHANGED <<halted, SCHED_LOCK, tc>> PROVE Goes
  BY <1>1, Zenon
<1>2. ASSUME NEW h \in Hart, Calls(h) PROVE Goes \/ Stops(h)
  <2>1. Current(h) \in Monitored /\ SCHED_LOCK # "panic"
    BY <1>2, Zenon DEF Calls, Sys5Checkin, Sys3Lock, Sys4Unlock, Sys4UnlockPanics, Sys6Send,
       Sys7Recv, Sys1Yield, Fault, Traps, Enters
  <2>2. \/ UNCHANGED <<halted, SCHED_LOCK>>
        \/ /\ NextCall(Current(h))[1] = "unlock"
           /\ Sys4UnlockPanics(h, NextCall(Current(h))[2])
    BY <1>2, Zenon DEF Calls, Sys5Checkin, Sys3Lock, Sys4Unlock, Sys6Send, Sys7Recv, Rendezvous,
                  Sys1Yield, Fault, vars
  <2>3. QED
    BY <1>1, <1>2, <2>1, <2>2, Zenon
<1>3. ASSUME NEW h \in Hart, Ticks(h) \/ Handles(h) PROVE Goes
  <2>1. CASE Ticks(h)
    BY <1>1, <2>1, Zenon DEF Ticks, TimerEntry, programVars
  <2>2. CASE Handles(h)
    BY <2>2, Zenon DEF Handles, TimerInterrupt, SoftwareInterrupt, Enters
  <2>3. QED
    BY <1>3, <2>1, <2>2, Zenon
<1>4. CASE HsmFaults \/ WatchdogSleeps \/ WatchdogLoads
  BY <1>1, <1>4, Zenon DEF HsmFaults, WatchdogSleeps, WatchdogLoads, Fault, Sys2Sleep, vars,
     programVars
<1>5. CASE WatchdogStartsScan \/ WatchdogEndsScan
  <2>1. halted' = halted /\ tc' = tc /\ SCHED_LOCK # "panic"
    BY <1>5, Zenon DEF WatchdogStartsScan, WatchdogEndsScan, WatchdogLocks, WatchdogUnlocks,
       Scanning, programVars
  <2>2. QED
    BY <2>1, Zenon
<1>6. CASE WatchdogChecks \/ WatchdogRestartsC \/ WatchdogRestartsHsm
  <2>1. UNCHANGED <<halted, SCHED_LOCK>> /\ SCHED_LOCK = "watchdog"
    BY <1>6, Zenon DEF WatchdogChecks, WatchdogRestartsC, WatchdogRestartsHsm, Sys8Terminate,
                  WatchdogRestarts, Scanning, vars
  <2>2. QED
    BY <2>1, Zenon
<1>7. CASE UNCHANGED systemVars
  BY <1>1, <1>7, Zenon DEF systemVars, vars, programVars
<1>8. QED
  BY <1>2, <1>3, <1>4, <1>5, <1>6, <1>7, Zenon DEF Next_System, watchdog_task

\* What happens to the test task C is in and to its last checkin.
LEMMA TestStep ==
    ASSUME ProgramInv, ClockInv, HInv, [Next_System]_systemVars
    PROVE  /\ tc' = 0 => tc = 0
           /\ tc' = 0 /\ LAST_CHECKIN_TICK[C] = 0 => LAST_CHECKIN_TICK'[C] = 0
<1>1. CASE UNCHANGED <<tc, LAST_CHECKIN_TICK>>
  BY <1>1, Zenon
<1>2. ASSUME NEW h \in Hart, Calls(h)
      PROVE  /\ tc' = 0 => tc = 0
             /\ tc' = 0 /\ LAST_CHECKIN_TICK[C] = 0 => LAST_CHECKIN_TICK'[C] = 0
  <2>1. /\ tc' = 0 => tc = 0
        /\ \/ UNCHANGED LAST_CHECKIN_TICK
           \/ /\ LAST_CHECKIN_TICK' = [LAST_CHECKIN_TICK EXCEPT ![Current(h)] = TICK_COUNT]
              /\ NextCall(Current(h))[1] = "checkin"
    BY <1>2, Zenon DEF Calls, Sys5Checkin, HInv, Renewed, StartsAnew
  <2>2. NextCall(C)[1] = "checkin" => tc # 0
    BY CheckinOfC, Zenon
  <2>3. LAST_CHECKIN_TICK'[C] = LAST_CHECKIN_TICK[C] \/ NextCall(C)[1] = "checkin"
    BY <2>1, PartitionFacts, Zenon DEF ClockInv
  <2>4. QED
    BY <2>1, <2>2, <2>3, Zenon
<1>3. CASE WatchdogRestartsC
  <2>1. \/ UNCHANGED <<tc, LAST_CHECKIN_TICK>>
        \/ /\ LAST_CHECKIN_TICK' = [LAST_CHECKIN_TICK EXCEPT ![C] = 0]
           /\ tc' = tc \/ tc' = TEST_COUNTER + 1
    BY <1>3, Zenon DEF WatchdogRestartsC
  <2>2. QED
    BY <1>1, <2>1, PartitionFacts DEF ProgramInv, ClockInv
<1>4. CASE WatchdogRestartsHsm
  <2>1. tc' = tc /\ LAST_CHECKIN_TICK'[C] = LAST_CHECKIN_TICK[C]
    BY <1>4, PartitionFacts, Zenon DEF WatchdogRestartsHsm, ClockInv
  <2>2. QED
    BY <2>1, Zenon
<1>5. ASSUME NEW h \in Hart, Handles(h)
      PROVE  /\ tc' = 0 => tc = 0
             /\ tc' = 0 /\ LAST_CHECKIN_TICK[C] = 0 => LAST_CHECKIN_TICK'[C] = 0
  BY <1>5, Zenon DEF Handles, HInv, Renewed, StartsAnew
<1>6. CASE \/ \E h \in Hart : Ticks(h)
           \/ HsmFaults \/ WatchdogSleeps \/ WatchdogLoads \/ WatchdogChecks
           \/ WatchdogStartsScan \/ WatchdogEndsScan \/ UNCHANGED systemVars
  BY <1>1, <1>6, Zenon DEF Ticks, HsmFaults, WatchdogSleeps, WatchdogLoads, WatchdogChecks,
                      WatchdogStartsScan, WatchdogEndsScan, systemVars, programVars
<1>7. QED
  BY <1>2, <1>3, <1>4, <1>5, <1>6, Zenon DEF Next_System, watchdog_task

\* What a step of a hart does to the frames: it rebuilds none.
LEMMA HartFrames ==
    ASSUME IInv, NEW h \in Hart, HartStep(h), NEW g \in Hart, NEW i \in Slot,
           context'[g][i] = "fresh"
    PROVE  context[g][i] = "fresh"
<1>1. context \in [Hart -> [Slot -> Context]]
  BY Zenon DEF IInv, RestTypeOK
<1>2. context' = context \/ \E S, t : switch_task(h, S, t)
  BY Zenon DEF HartStep, TimerEntry, TimerInterrupt, SoftwareInterrupt, Sys1Yield, Sys2Sleep,
     Sys3Lock, Sys4Unlock, Sys4UnlockPanics, Sys6Send, Sys7Recv, Rendezvous, Fault,
     UnhandledException
<1>3. ASSUME NEW S, NEW t, switch_task(h, S, t) PROVE context[g][i] = "fresh"
  <2>1. CASE context' = context
    BY <2>1, Zenon
  <2>2. CASE Switches(S[h], t)
    <3> DEFINE n == schedule(S[h], t).current
               o == S[h].current
    <3>1. context' = [context EXCEPT ![h] = [j \in Slot |->
                         IF j = n THEN "live" ELSE IF j = o THEN "suspended" ELSE context[h][j]]]
      BY <1>3, <2>2, Zenon DEF switch_task
    <3> HIDE DEF n, o
    <3>2. QED
      BY <1>1, <3>1
  <2>3. QED
    BY <1>3, <2>1, <2>2, Zenon DEF switch_task
<1>4. QED
  BY <1>2, <1>3, Zenon

\* Task C comes to be executed with its frame loaded; a restart counts a test.
LEMMA RenewedStep ==
    ASSUME IInv, IInv', ProgramInv, Renewed, [Next_System]_systemVars
    PROVE  Renewed'
<1>1. 1 \in Hart /\ C \in Slot /\ Current(1) \in Slot
  BY PartitionFacts, InvFacts, Zenon
<1>2. Current(1) = C \/ SCHEDULERS'[1].current # C \/ context'[1][C] # "fresh"
  <2>1. CASE WatchdogChecks
    <3>1. \/ UNCHANGED vars
          \/ (\E j \in Monitored : Failed(j)) /\ Sys8Terminate(failed_task)
      BY <2>1, Zenon DEF WatchdogChecks
    <3>2. CASE UNCHANGED vars
      BY <3>2, Zenon DEF vars, Current
    <3>3. CASE (\E j \in Monitored : Failed(j)) /\ Sys8Terminate(failed_task)
      <4>1. failed_task \in Targets
        BY <3>3, FailedTaskFacts, PartitionFacts, Zenon
      <4>2. Loaded(1) \/ (Current(1) = failed_task /\ SCHEDULERS'[1].current = failed_task)
        BY <1>1, <3>3, <4>1, TerminateSteady, Zenon DEF Steady
      <4>3. St(SCHEDULERS', 1, Current(1)).kind # "None"
        BY <1>1, InvFacts, Zenon DEF IInv, Good, Sane
      <4>4. QED
        BY <4>2, <4>3, Zenon DEF Loaded
    <3>4. QED
      BY <3>1, <3>2, <3>3, Zenon
  <2>2. CASE ~WatchdogChecks
    <3>1. Loaded(1)
      BY <2>2, SystemSteady, Zenon DEF Steady
    <3>2. St(SCHEDULERS', 1, Current(1)).kind # "None"
      BY <1>1, InvFacts, Zenon DEF IInv, Good, Sane
    <3>3. QED
      BY <3>1, <3>2, Zenon DEF Loaded
  <2>3. QED
    BY <2>1, <2>2, Zenon
<1>3. \/ TEST_COUNTER' = TEST_COUNTER /\ (context'[1][C] = "fresh" => context[1][C] = "fresh")
      \/ TEST_COUNTER' # 0
  <2>1. CASE UNCHANGED <<context, TEST_COUNTER>>
    BY <2>1, Zenon
  <2>2. ASSUME NEW h \in Hart, HartStep(h), UNCHANGED TEST_COUNTER
        PROVE  /\ TEST_COUNTER' = TEST_COUNTER
               /\ context'[1][C] = "fresh" => context[1][C] = "fresh"
    BY <1>1, <2>2, HartFrames, Zenon
  <2>3. ASSUME NEW h \in Hart, Calls(h) \/ Ticks(h) \/ Handles(h)
        PROVE  UNCHANGED TEST_COUNTER /\ (HartStep(h) \/ UNCHANGED context)
    <3>1. CASE Calls(h)
      BY <3>1, CallIsKernelStep, ProgramMoves, Zenon DEF vars
    <3>2. CASE Ticks(h) \/ Handles(h)
      BY <3>2, Zenon DEF Ticks, Handles, HartStep, programVars
    <3>3. QED
      BY <2>3, <3>1, <3>2, Zenon
  <2>4. CASE HsmFaults \/ WatchdogSleeps
    <3>1. HartStep(0) /\ 0 \in Hart /\ UNCHANGED TEST_COUNTER
      BY <2>4, RegistrationAssumption, Zenon
         DEF HsmFaults, WatchdogSleeps, HartStep, Hart, programVars
    <3>2. QED
      BY <2>2, <3>1, Zenon
  <2>5. CASE WatchdogRestartsC
    <3>1. UNCHANGED <<context, TEST_COUNTER>> \/ TEST_COUNTER' = TEST_COUNTER + 1
      BY <2>5, Zenon DEF WatchdogRestartsC, vars
    <3>2. TEST_COUNTER \in Nat
      BY Zenon DEF ProgramInv
    <3>3. QED
      BY <2>1, <3>1, <3>2
  <2>6. CASE WatchdogRestartsHsm
    <3>1. /\ UNCHANGED TEST_COUNTER
          /\ UNCHANGED context \/ context' = [context EXCEPT ![0][HSM] = "fresh"]
      BY <2>6, Zenon DEF WatchdogRestartsHsm, WatchdogRestarts, vars
    <3>2. context \in [Hart -> [Slot -> Context]]
      BY Zenon DEF IInv, RestTypeOK
    <3>3. QED
      BY <1>1, <3>1, <3>2
  <2>7. CASE \/ WatchdogLoads \/ WatchdogStartsScan \/ WatchdogEndsScan \/ WatchdogChecks
             \/ UNCHANGED systemVars
    BY <2>1, <2>7, Zenon
       DEF WatchdogLoads, WatchdogStartsScan, WatchdogEndsScan, WatchdogChecks, WatchdogLocks,
           WatchdogUnlocks, Sys8Terminate, systemVars, vars, programVars
  <2>8. QED
    BY <2>1, <2>2, <2>3, <2>4, <2>5, <2>6, <2>7, Zenon DEF Next_System, watchdog_task
<1>4. QED
  BY <1>2, <1>3, Zenon DEF Renewed, Current

\* HInv is inductive.
LEMMA HStep ==
    ASSUME IInv, IInv', ProgramInv, SInv, ClockInv, HInv, [Next_System]_systemVars
    PROVE  HInv'
<1>1. TICK_COUNT <= TICK_COUNT' /\ TICK_COUNT \in Nat /\ TICK_COUNT' \in Nat /\ GRACE \in Nat
  BY ClockStep, SystemAssumption, Zenon DEF ClockInv
<1>2. /\ tc' = 0 => tc = 0
      /\ tc' = 0 /\ LAST_CHECKIN_TICK[C] = 0 => LAST_CHECKIN_TICK'[C] = 0
  BY TestStep, Zenon
<1>3. Early' => Early
  BY <1>1, <1>2 DEF Early
<1>4. Kept
  BY <1>3, KeptStep, Zenon
<1>5. Early' /\ SCHEDULERS'[1].current = C => Up(StC')
  <2>1. CASE WatchdogChecks
    BY <1>3, <2>1, ChecksKeep, Zenon
  <2>2. CASE ~WatchdogChecks
    <3>1. Steady(1)
      BY <2>2, SystemSteady, Zenon
    <3>2. Early /\ Current(1) = C => Up(StC)
      BY Zenon DEF HInv
    <3>3. QED
      BY <1>3, <3>1, <3>2, Zenon DEF Steady, StC
  <2>3. QED
    BY <2>1, <2>2, Zenon
<1>6. tc' = 0 => LAST_CHECKIN_TICK'[C] = 0
  BY <1>2, Zenon DEF HInv
<1>7. halted' # {} => tc' = 0 /\ GRACE < TICK_COUNT' /\ SCHED_LOCK' = "panic"
  <2>1. CASE /\ halted' = halted
             /\ tc' = tc \/ SCHED_LOCK # "panic"
             /\ SCHED_LOCK = "panic" => SCHED_LOCK' = "panic"
    BY <1>1, <2>1 DEF HInv
  <2>2. ASSUME NEW h \in Hart, Calls(h), Current(h) \in Monitored,
               NextCall(Current(h))[1] = "unlock",
               Sys4UnlockPanics(h, NextCall(Current(h))[2])
        PROVE  tc' = 0 /\ GRACE < TICK_COUNT' /\ SCHED_LOCK' = "panic"
    <3>1. SCHED_LOCK' = "panic" /\ tc' = tc /\ TICK_COUNT' = TICK_COUNT
      <4>1. ~StartsAnew
        BY <2>2 DEF Sys4UnlockPanics, StartsAnew
      <4>2. QED
        BY <2>2, <4>1, ProgramMoves, Zenon DEF Sys4UnlockPanics
    <3>2. Current(h) \notin {B, HSM}
      BY <2>2, CallsOfHsm, CallsOfB DEF ProgramInv
    <3>3. ~(h = 0 /\ Current(h) = A)
      <4>1. NextCall(A)[1] = "unlock" => NextCall(A)[2] = 0 /\ at[A] = 3
        BY CallsOfA DEF ProgramInv
      <4>2. QED
        BY <2>2, <4>1, UnlockOfA, Zenon
    <3>4. h = 1 /\ Current(h) = C
      BY <2>2, <3>2, <3>3, CallFacts, Zenon DEF Hart
    <3>5. tc = 0 /\ at[C] = 3 /\ NextCall(C)[2] = 0
      BY <2>2, <3>4, CallsOfFirstTest, CallsOfC
    <3>6. MUTEXES[0].owner # C
      BY <2>2, <3>4, <3>5, Zenon DEF Sys4UnlockPanics
    <3>7. ~Early
      BY <3>4, <3>5, <3>6 DEF HInv, FirstTest, Up
    <3>8. QED
      BY <1>1, <3>1, <3>5, <3>7 DEF Early
  <2>3. QED
    BY <2>1, <2>2, HaltingStep, Zenon
<1>8. Renewed'
  BY RenewedStep, Zenon DEF HInv
<1>9. QED
  BY <1>4, <1>5, <1>6, <1>7, <1>8, Zenon DEF HInv, Kept, Current

\* At boot nobody has started.
LEMMA HInit == Init_System => HInv
<1> SUFFICES ASSUME Init_System PROVE HInv
  BY Zenon
<1>1. /\ at[A] = 1 /\ at[C] = 1 /\ LAST_CHECKIN_TICK[C] = 0 /\ halted = {}
  BY PartitionFacts, Zenon DEF Init_System, Init_Programs, Init
<1>2. MUTEXES = [m \in Mutex |-> [locked |-> FALSE, owner |-> NoOwner, waiters |-> {}]]
  BY Zenon DEF Init_System, Init
<1>3. Tasks[1] \in SUBSET Slot /\ IDLE \in Tasks[1] /\ 1 \in Hart /\ C \in Slot
  BY KernelAssumption, PartitionFacts, Zenon DEF Hart
<1>4. SCHEDULERS[1] = start_first_task(Registered(Tasks[1]))
  BY <1>3, Zenon DEF Init_System, Init
<1>5. /\ SCHEDULERS[1].task_table[SCHEDULERS[1].current] = Running
      /\ \A i \in Slot : SCHEDULERS[1].task_table[i] \in {Running, Ready, NoTask}
  BY <1>3, <1>4, BootScheduler
<1>6. StC.kind \in {"Running", "Ready", "None"} /\ (Current(1) = C => Up(StC))
  BY <1>3, <1>5 DEF StC, St, Current, Up, Running, Ready, NoTask, State
<1>7. Renewed
  <2>1. context[1] = [i \in Slot |-> IF i = SCHEDULERS[1].current THEN "live" ELSE "fresh"]
    BY <1>3, Zenon DEF Init_System, Init
  <2>2. QED
    BY <1>3, <2>1 DEF Renewed, Current
<1>8. QED
  BY <1>1, <1>2, <1>6, <1>7 DEF HInv, Held, FirstTest, Early

\* The assertion of syscall 4 stops a hart only in task C's first test and only
\* after the grace period: a scan may then terminate task C as the owner of the
\* mutex while hart 1 executes it, and its unlock is the one that fails. With
\* task C in a later test, or before the grace period ends, the suite runs
\* without a panic, whatever the timing, the faults and the configuration. (The
\* other assertion, on unhandled exceptions, no program of the suite reaches.)
THEOREM PanicsOnlyLate == Spec_System => [](TICK_COUNT <= GRACE \/ tc # 0 => NoPanic)
<1>1. Spec_System => []IInv
  BY SystemImplementsKernel, InductiveInvariant, PTL
<1>2. Spec_System => []ProgramInv
  BY ProgramInit, ProgramStep, PTL DEF Spec_System
<1>3. Spec_System => []SInv
  BY <1>1, <1>2, SigningInit, SigningStep, PTL DEF Spec_System
<1>4. Init_System => ClockInv
  BY SystemAssumption DEF Init_System, Init, Init_Programs, ClockInv
<1>5. IInv /\ ProgramInv /\ ClockInv /\ [Next_System]_systemVars => ClockInv'
  BY ClockStep, Zenon
<1>6. Spec_System => []ClockInv
  BY <1>1, <1>2, <1>4, <1>5, PTL DEF Spec_System
<1>7. IInv /\ IInv' /\ ProgramInv /\ SInv /\ ClockInv /\ HInv /\ [Next_System]_systemVars => HInv'
  BY HStep, Zenon
<1>8. ClockInv /\ HInv => (TICK_COUNT <= GRACE \/ tc # 0 => NoPanic)
  BY SystemAssumption DEF ClockInv, HInv, NoPanic
<1>9. QED
  BY <1>1, <1>2, <1>3, <1>6, <1>7, <1>8, HInit, PTL DEF Spec_System

=============================================================================
