-------------------------------- MODULE Kernel --------------------------------
(***************************************************************************)
(* The dual-hart kernel: every trap that kernel/src/trap.rs handles, as    *)
(* one action per handler, over the two schedulers, the kernel mutexes and *)
(* the cross-hart interrupts.  A handler holds SCHED_LOCK from before it   *)
(* reads the scheduler until it returns, so it is one atomic step; the     *)
(* exceptions are modelled: the timer handler's tick is taken before the   *)
(* lock, the watchdog task holds the lock in U-mode over many traps of its *)
(* own hart, and a panicking handler never gives it back.                  *)
(*                                                                         *)
(* The tasks' programs are left open: the current task of a hart may issue *)
(* any system call its capabilities allow, whatever state the kernel has   *)
(* recorded for it in the meantime.                                        *)
(***************************************************************************)
EXTENDS Scheduler

CONSTANTS
    Tasks,        \* Tasks[h]: the slots registered on hart h
    Mutex,        \* the mutexes that exist (MUTEXES[m] is Some)
    Endpoint,     \* IPC endpoint numbers
    LockCaps,     \* LockCaps[h][i]: mutexes the task in slot i of h may lock
    UnlockCaps,   \* ... may unlock
    SendCaps,     \* endpoints it may send on
    RecvCaps,     \* ... receive on
    Sleeps,       \* arguments of sleep
    Targets,      \* slots the watchdog may terminate
    Restartable,  \* <<hart, slot>> pairs the watchdog restarts
    TICK_MOD,     \* the tick counter wraps here (2^32 in the code)
    MSIE          \* machine software interrupts are enabled in mie

Hart == {0, 1}

\* The watchdog task's slot, on hart 0.
WATCHDOG == 0

\* Where the kernel looks for the task of a mutex's waiters bit.
WaiterHart(w) == IF w < 2 THEN 0 ELSE 1

ASSUME KernelAssumption ==
    /\ Mutex \subseteq Nat /\ Endpoint \subseteq Nat /\ Sleeps \subseteq Nat
    /\ Tasks \in [Hart -> SUBSET Slot]
    /\ \A h \in Hart : IDLE \in Tasks[h]
    /\ Tasks[0] \cap Tasks[1] = {IDLE}
    /\ Targets \subseteq Slot \ {WATCHDOG, IDLE}
    /\ Restartable \subseteq {p \in Hart \X Slot : p[2] \in Tasks[p[1]] \ {IDLE}}
    /\ TICK_MOD \in Nat /\ TICK_MOD > 0
    /\ MSIE \in BOOLEAN

\* Capabilities belong to registered tasks, and the tasks that may lock a
\* mutex sit on the hart WaiterHart looks at (as main.rs registers them).
ASSUME CapabilityAssumption ==
    /\ LockCaps \in [Hart -> [Slot -> SUBSET Mutex]]
    /\ UnlockCaps \in [Hart -> [Slot -> SUBSET Mutex]]
    /\ SendCaps \in [Hart -> [Slot -> SUBSET Endpoint]]
    /\ RecvCaps \in [Hart -> [Slot -> SUBSET Endpoint]]
    /\ \A h \in Hart, i \in Slot :
          LockCaps[h][i] # {} => h = WaiterHart(i) /\ i \in Tasks[h] \ {IDLE}

VARIABLES
    SCHEDULERS,  \* one BitMapScheduler per hart
    MUTEXES,     \* the kernel mutexes
    TICK_COUNT,  \* the tick counter both harts increment
    timer,       \* timer[h]: tick a timer handler on h has fetched, or NoTick
    msip,        \* msip[h]: a software interrupt is pending on h
    context,     \* context[h][i]: what the saved_sp of the task points to
    SCHED_LOCK,  \* who holds the scheduler lock between traps
    halted       \* harts whose kernel has panicked

vars == <<SCHEDULERS, MUTEXES, TICK_COUNT, timer, msip, context, SCHED_LOCK, halted>>

NoOwner == MAX_PARTITIONS   \* owner_task_idx is None
NoTick  == TICK_MOD

\* "fresh": the frame initialize_stack built; "suspended": the frame of the
\* task's last trap; "live": a frame already resumed from.
Context == {"fresh", "suspended", "live"}

\* "panic": the handler that panicked held the lock and never returns.
LockHolder == {"free", "watchdog", "panic"}

KernelMutex == [locked : BOOLEAN, owner : Slot \cup {NoOwner}, waiters : SUBSET Slot]

Current(h) == SCHEDULERS[h].current

KindOf(h, i) == SCHEDULERS[h].task_table[i].kind

StateOf(h, i) == SCHEDULERS[h].task_table[i]

\* The schedulers S with the state of one task replaced.
SetState(S, h, i, state) == [S EXCEPT ![h].task_table[i] = state]

-----------------------------------------------------------------------------
(* Boot: registration of the tasks and start_first_task on each hart.       *)

Init ==
    /\ SCHEDULERS = [h \in Hart |-> start_first_task(Registered(Tasks[h]))]
    /\ MUTEXES = [m \in Mutex |-> [locked |-> FALSE, owner |-> NoOwner, waiters |-> {}]]
    /\ TICK_COUNT = 0
    /\ timer = [h \in Hart |-> NoTick]
    /\ msip = [h \in Hart |-> FALSE]
    /\ context = [h \in Hart |-> [i \in Slot |->
          IF i = SCHEDULERS[h].current THEN "live" ELSE "fresh"]]
    /\ SCHED_LOCK = "free"
    /\ halted = {}

-----------------------------------------------------------------------------
(* Parts of the handlers                                                    *)

\* Hart h executes U-mode code and a handler it enters can take SCHED_LOCK:
\* the lock is reentrant for the hart the watchdog runs on.
Enters(h) ==
    /\ h \notin halted
    /\ timer[h] = NoTick
    /\ SCHED_LOCK = "free" \/ (SCHED_LOCK = "watchdog" /\ h = 0)

\* The watchdog task runs inside its scan, holding SCHED_LOCK.
Scanning ==
    /\ SCHED_LOCK = "watchdog" /\ Current(0) = WATCHDOG
    /\ 0 \notin halted /\ timer[0] = NoTick

\* The current task of h traps. The idle task is an endless loop of nops, and
\* the watchdog's scan contains no trap other than Sys8Terminate.
Traps(h) == Enters(h) /\ Current(h) # IDLE /\ ~(h = 0 /\ Scanning)

\* Slip: the saved_sp of the old task is not written.
switch_task_NoSave(h, S, is_tick) ==
    /\ SCHEDULERS' = [S EXCEPT ![h] = schedule(S[h], is_tick)]
    /\ context' = IF Switches(S[h], is_tick)
                  THEN [context EXCEPT ![h][schedule(S[h], is_tick).current] = "live"]
                  ELSE context

\* switch_task on hart h, from the schedulers S the handler has prepared: the
\* saved_sp of the next task is read before that of the old one is written.
switch_task(h, S, is_tick) ==
    /\ SCHEDULERS' = [S EXCEPT ![h] = schedule(S[h], is_tick)]
    /\ context' =
          IF Switches(S[h], is_tick)
          THEN [context EXCEPT ![h] = [i \in Slot |->
                  IF i = schedule(S[h], is_tick).current THEN "live"
                  ELSE IF i = S[h].current THEN "suspended"
                  ELSE context[h][i]]]
          ELSE context

\* The waiter with the numerically lowest priority, which is its slot number.
HighestWaiter(waiters) == CHOOSE w \in waiters : \A v \in waiters : w <= v

\* Slip: the waiters bit of the new owner stays set.
HandedOver_KeepsBit(m) ==
    IF m.waiters = {}
    THEN [m EXCEPT !.locked = FALSE, !.owner = NoOwner]
    ELSE [m EXCEPT !.owner = HighestWaiter(m.waiters)]

\* Mutex m handed to its highest waiter, or released when it has none.
HandedOver(m) ==
    IF m.waiters = {}
    THEN [m EXCEPT !.locked = FALSE, !.owner = NoOwner]
    ELSE [locked |-> TRUE, owner |-> HighestWaiter(m.waiters),
          waiters |-> m.waiters \ {HighestWaiter(m.waiters)}]

\* The task in slot i of hart h is marked Terminated, then every mutex owned
\* by slot number i is handed over and the new owner made Ready.
Recovered(i) ==
    [m \in Mutex |-> IF MUTEXES[m].owner = i THEN HandedOver(MUTEXES[m]) ELSE MUTEXES[m]]

NewOwners(i) ==
    {HighestWaiter(MUTEXES[m].waiters) :
        m \in {n \in Mutex : MUTEXES[n].owner = i /\ MUTEXES[n].waiters # {}}}

TerminatedAndRecovered(h, i) ==
    [g \in Hart |-> [SCHEDULERS[g] EXCEPT !.task_table =
        [j \in Slot |->
            IF j \in NewOwners(i) /\ g = WaiterHart(j) /\ KindOf(g, j) # "None" THEN Ready
            ELSE IF g = h /\ j = i THEN Terminated
            ELSE StateOf(g, j)]]]

-----------------------------------------------------------------------------
(* Interrupts                                                               *)

\* Slip: a counter that does not wrap.
TimerEntry_NoWrap(h) ==
    /\ h \notin halted /\ timer[h] = NoTick
    /\ TICK_COUNT' = TICK_COUNT + 1
    /\ timer' = [timer EXCEPT ![h] = TICK_COUNT']
    /\ UNCHANGED <<SCHEDULERS, MUTEXES, msip, context, SCHED_LOCK, halted>>

\* The timer interrupt, up to the acquisition of SCHED_LOCK.
TimerEntry(h) ==
    /\ h \notin halted /\ timer[h] = NoTick
    /\ TICK_COUNT' = (TICK_COUNT + 1) % TICK_MOD
    /\ timer' = [timer EXCEPT ![h] = TICK_COUNT']
    /\ UNCHANGED <<SCHEDULERS, MUTEXES, msip, context, SCHED_LOCK, halted>>

\* Slip: every task whose wake_tick has come is woken, asleep or not.
Woken_Any(table, tick) ==
    [i \in Slot |-> IF table[i].kind \notin {"None", "Running"} /\ tick >= table[i].arg
                    THEN Ready ELSE table[i]]

\* The sleepers of a hart whose wake_tick has come.
Woken(table, tick) ==
    [i \in Slot |-> IF table[i].kind = "Blocked" /\ tick >= table[i].arg
                    THEN Ready ELSE table[i]]

\* The rest of the timer handler, once it has the lock.
TimerInterrupt(h) ==
    /\ timer[h] # NoTick
    /\ SCHED_LOCK = "free" \/ (SCHED_LOCK = "watchdog" /\ h = 0)
    /\ switch_task(h, [SCHEDULERS EXCEPT ![h].task_table = Woken(@, timer[h])], TRUE)
    /\ timer' = [timer EXCEPT ![h] = NoTick]
    /\ UNCHANGED <<MUTEXES, TICK_COUNT, msip, SCHED_LOCK, halted>>

\* The software interrupt another hart has raised.
SoftwareInterrupt(h) ==
    /\ Enters(h) /\ msip[h] /\ MSIE
    /\ msip' = [msip EXCEPT ![h] = FALSE]
    /\ switch_task(h, SCHEDULERS, FALSE)
    /\ UNCHANGED <<MUTEXES, TICK_COUNT, timer, SCHED_LOCK, halted>>

-----------------------------------------------------------------------------
(* System calls. A call the capability table refuses changes only the       *)
(* caller's a0, and is not an action; the check-in, syscall 5, changes only *)
(* LAST_CHECKIN_TICK and is modelled in module Watchdog.                    *)

\* Syscall 1: yield.
Sys1Yield(h) ==
    /\ Traps(h)
    /\ switch_task(h, SCHEDULERS, FALSE)
    /\ UNCHANGED <<MUTEXES, TICK_COUNT, timer, msip, SCHED_LOCK, halted>>

\* Syscall 2: sleep; the sum wraps in the release build.
Sys2Sleep(h, ticks) ==
    /\ Traps(h)
    /\ switch_task(h, SetState(SCHEDULERS, h, Current(h),
                               State("Blocked", (TICK_COUNT + ticks) % TICK_MOD)), FALSE)
    /\ UNCHANGED <<MUTEXES, TICK_COUNT, timer, msip, SCHED_LOCK, halted>>

\* Slip: the capability is not looked at.
Sys3Lock_NoCapability(h, m) ==
    /\ Traps(h)
    /\ ~MUTEXES[m].locked
    /\ MUTEXES' = [MUTEXES EXCEPT ![m].locked = TRUE, ![m].owner = Current(h)]
    /\ UNCHANGED <<SCHEDULERS, context, TICK_COUNT, timer, msip, SCHED_LOCK, halted>>

\* Slip: the caller blocks without setting its waiters bit.
Sys3Lock_NoBit(h, m) ==
    /\ Traps(h) /\ m \in LockCaps[h][Current(h)]
    /\ \/ /\ ~MUTEXES[m].locked
          /\ MUTEXES' = [MUTEXES EXCEPT ![m].locked = TRUE, ![m].owner = Current(h)]
          /\ UNCHANGED <<SCHEDULERS, context>>
       \/ /\ MUTEXES[m].locked
          /\ switch_task(h, SetState(SCHEDULERS, h, Current(h), State("BlockedOnMutex", m)), FALSE)
          /\ UNCHANGED MUTEXES
    /\ UNCHANGED <<TICK_COUNT, timer, msip, SCHED_LOCK, halted>>

\* Slip: a locked mutex is taken as well.
Sys3Lock_Steals(h, m) ==
    /\ Traps(h) /\ m \in LockCaps[h][Current(h)]
    /\ MUTEXES' = [MUTEXES EXCEPT ![m].locked = TRUE, ![m].owner = Current(h)]
    /\ UNCHANGED <<SCHEDULERS, context, TICK_COUNT, timer, msip, SCHED_LOCK, halted>>

\* Syscall 3: lock. A free mutex is taken without rescheduling; otherwise the
\* caller, the owner itself included, blocks behind it.
Sys3Lock(h, m) ==
    /\ Traps(h) /\ m \in LockCaps[h][Current(h)]
    /\ \/ /\ ~MUTEXES[m].locked
          /\ MUTEXES' = [MUTEXES EXCEPT ![m].locked = TRUE, ![m].owner = Current(h)]
          /\ UNCHANGED <<SCHEDULERS, context>>
       \/ /\ MUTEXES[m].locked
          /\ MUTEXES' = [MUTEXES EXCEPT ![m].waiters = @ \cup {Current(h)}]
          /\ switch_task(h, SetState(SCHEDULERS, h, Current(h), State("BlockedOnMutex", m)), FALSE)
    /\ UNCHANGED <<TICK_COUNT, timer, msip, SCHED_LOCK, halted>>

\* Slip: the waiter is looked up on the caller's hart.
Sys4Unlock_OwnHart(h, m) ==
    /\ Traps(h) /\ m \in UnlockCaps[h][Current(h)]
    /\ MUTEXES[m].owner = Current(h)
    /\ MUTEXES' = [MUTEXES EXCEPT ![m] = HandedOver(@)]
    /\ switch_task(h, IF MUTEXES[m].waiters # {}
                      THEN SetState(SCHEDULERS, h, HighestWaiter(MUTEXES[m].waiters), Ready)
                      ELSE SCHEDULERS, FALSE)
    /\ UNCHANGED <<TICK_COUNT, timer, msip, SCHED_LOCK, halted>>

\* Syscall 4: unlock by the owner. The waiter's a0 is written through its
\* saved_sp, and a waiter of the other hart is announced by an interrupt.
Sys4Unlock(h, m) ==
    LET w == HighestWaiter(MUTEXES[m].waiters)
        waiting == MUTEXES[m].waiters # {}
    IN  /\ Traps(h) /\ m \in UnlockCaps[h][Current(h)]
        /\ MUTEXES[m].owner = Current(h)
        /\ MUTEXES' = [MUTEXES EXCEPT ![m] = HandedOver(@)]
        /\ msip' = IF waiting /\ WaiterHart(w) # h
                   THEN [msip EXCEPT ![WaiterHart(w)] = TRUE] ELSE msip
        /\ switch_task(h, IF waiting THEN SetState(SCHEDULERS, WaiterHart(w), w, Ready)
                                     ELSE SCHEDULERS, FALSE)
        /\ UNCHANGED <<TICK_COUNT, timer, SCHED_LOCK, halted>>

\* Syscall 4 by a task that is not the owner: the assert_eq! panics with
\* SCHED_LOCK and MUTEX_LOCK held.
Sys4UnlockPanics(h, m) ==
    /\ Traps(h) /\ m \in UnlockCaps[h][Current(h)]
    /\ MUTEXES[m].owner # Current(h)
    /\ SCHED_LOCK' = "panic"
    /\ halted' = halted \cup {h}
    /\ UNCHANGED <<SCHEDULERS, MUTEXES, TICK_COUNT, timer, msip, context>>

\* The tasks blocked on endpoint e in the given direction, and the one the
\* nested loop over harts and slots meets first.
Parked(kind, e) ==
    {p \in Hart \X Slot : KindOf(p[1], p[2]) = kind /\ StateOf(p[1], p[2]).arg = e}

FirstParked(kind, e) ==
    CHOOSE p \in Parked(kind, e) : \A q \in Parked(kind, e) :
        p[1] < q[1] \/ (p[1] = q[1] /\ p[2] <= q[2])

\* Slip: the peer is made Running instead of Ready.
Rendezvous_PeerRuns(h, e, peerKind, ownKind) ==
    LET peer == FirstParked(peerKind, e) IN
    /\ \/ /\ Parked(peerKind, e) # {}
          /\ SCHEDULERS' = SetState(SCHEDULERS, peer[1], peer[2], Running)
          /\ UNCHANGED context
       \/ /\ Parked(peerKind, e) = {}
          /\ switch_task(h, SetState(SCHEDULERS, h, Current(h), State(ownKind, e)), FALSE)
    /\ UNCHANGED <<MUTEXES, TICK_COUNT, timer, msip, SCHED_LOCK, halted>>

\* The synchronous rendezvous of send and receive: complete it with a parked
\* peer and carry on, or park the caller.
Rendezvous(h, e, peerKind, ownKind) ==
    LET peer == FirstParked(peerKind, e) IN
    /\ \/ /\ Parked(peerKind, e) # {}
          /\ SCHEDULERS' = SetState(SCHEDULERS, peer[1], peer[2], Ready)
          /\ msip' = IF peer[1] # h THEN [msip EXCEPT ![peer[1]] = TRUE] ELSE msip
          /\ UNCHANGED context
       \/ /\ Parked(peerKind, e) = {}
          /\ switch_task(h, SetState(SCHEDULERS, h, Current(h), State(ownKind, e)), FALSE)
          /\ UNCHANGED msip
    /\ UNCHANGED <<MUTEXES, TICK_COUNT, timer, SCHED_LOCK, halted>>

\* Syscall 6: send.
Sys6Send(h, e) ==
    /\ Traps(h) /\ e \in SendCaps[h][Current(h)]
    /\ Rendezvous(h, e, "BlockedOnIpcRecv", "BlockedOnIpcSend")

\* Slip: the receiver parks without looking for a sender.
Sys7Recv_NoLook(h, e) ==
    /\ Traps(h) /\ e \in RecvCaps[h][Current(h)]
    /\ switch_task(h, SetState(SCHEDULERS, h, Current(h), State("BlockedOnIpcRecv", e)), FALSE)
    /\ UNCHANGED <<MUTEXES, TICK_COUNT, timer, msip, SCHED_LOCK, halted>>

\* Syscall 7: receive.
Sys7Recv(h, e) ==
    /\ Traps(h) /\ e \in RecvCaps[h][Current(h)]
    /\ Rendezvous(h, e, "BlockedOnIpcSend", "BlockedOnIpcRecv")

\* Syscall 8: the watchdog terminates the task in slot i, looked up on hart 0
\* first. Its hart is interrupted if it is the other one; the waiters bits of
\* the target and a waiter woken on the other hart get no such treatment. The
\* one program that makes the call is the watchdog's scan, with the slots of
\* its check-in table: the target is registered and never the caller, so that
\* neither the -1 of an unknown slot nor the handler's own reschedule occurs.
Sys8Terminate(i) ==
    LET h == IF KindOf(0, i) # "None" THEN 0 ELSE 1 IN
    /\ Scanning
    /\ KindOf(h, i) # "None"
    /\ SCHEDULERS' = TerminatedAndRecovered(h, i)
    /\ MUTEXES' = Recovered(i)
    /\ msip' = IF h # 0 THEN [msip EXCEPT ![h] = TRUE] ELSE msip
    /\ UNCHANGED <<TICK_COUNT, timer, context, SCHED_LOCK, halted>>

-----------------------------------------------------------------------------
(* Exceptions                                                               *)

\* A contained fault of the current task (causes 1, 2, 4, 5, 6, 7).
Fault(h) ==
    /\ Traps(h)
    /\ MUTEXES' = Recovered(Current(h))
    /\ switch_task(h, TerminatedAndRecovered(h, Current(h)), FALSE)
    /\ UNCHANGED <<TICK_COUNT, timer, msip, SCHED_LOCK, halted>>

\* Any other exception: the handler panics before it takes SCHED_LOCK.
UnhandledException(h) ==
    /\ h \notin halted /\ timer[h] = NoTick /\ Current(h) # IDLE
    /\ ~(h = 0 /\ Scanning)
    /\ halted' = halted \cup {h}
    /\ UNCHANGED <<SCHEDULERS, MUTEXES, TICK_COUNT, timer, msip, context, SCHED_LOCK>>

-----------------------------------------------------------------------------
(* The watchdog task's own use of the scheduler (U-mode, hart 0)            *)

\* It takes SCHED_LOCK for one scan.
WatchdogLocks ==
    /\ Current(0) = WATCHDOG /\ 0 \notin halted /\ timer[0] = NoTick
    /\ SCHED_LOCK = "free"
    /\ SCHED_LOCK' = "watchdog"
    /\ UNCHANGED <<SCHEDULERS, MUTEXES, TICK_COUNT, timer, msip, context, halted>>

\* Slip: the stack frame is not rebuilt.
WatchdogRestarts_NoStack(h, i) ==
    /\ Scanning
    /\ KindOf(h, i) = "Terminated"
    /\ SCHEDULERS' = SetState(SCHEDULERS, h, i, Ready)
    /\ UNCHANGED <<MUTEXES, TICK_COUNT, timer, msip, context, SCHED_LOCK, halted>>

\* It gives a terminated task a fresh stack frame and makes it Ready.
WatchdogRestarts(h, i) ==
    /\ Scanning
    /\ KindOf(h, i) = "Terminated"
    /\ SCHEDULERS' = SetState(SCHEDULERS, h, i, Ready)
    /\ context' = [context EXCEPT ![h][i] = "fresh"]
    /\ UNCHANGED <<MUTEXES, TICK_COUNT, timer, msip, SCHED_LOCK, halted>>

\* It ends the scan.
WatchdogUnlocks ==
    /\ Scanning
    /\ SCHED_LOCK' = "free"
    /\ UNCHANGED <<SCHEDULERS, MUTEXES, TICK_COUNT, timer, msip, context, halted>>

-----------------------------------------------------------------------------

HartStep(h) ==
    \/ TimerEntry(h) \/ TimerInterrupt(h) \/ SoftwareInterrupt(h)
    \/ Sys1Yield(h)
    \/ \E ticks \in Sleeps : Sys2Sleep(h, ticks)
    \/ \E m \in Mutex : Sys3Lock(h, m) \/ Sys4Unlock(h, m) \/ Sys4UnlockPanics(h, m)
    \/ \E e \in Endpoint : Sys6Send(h, e) \/ Sys7Recv(h, e)
    \/ Fault(h) \/ UnhandledException(h)

WatchdogStep ==
    \/ WatchdogLocks \/ WatchdogUnlocks
    \/ \E i \in Targets : Sys8Terminate(i)
    \/ \E p \in Restartable : WatchdogRestarts(p[1], p[2])

Next == (\E h \in Hart : HartStep(h)) \/ WatchdogStep

Spec == Init /\ [][Next]_vars

-----------------------------------------------------------------------------
(* Invariants                                                               *)

\* Every state component has its type.
TypeOK ==
    /\ SCHEDULERS \in [Hart -> BitMapScheduler]
    /\ MUTEXES \in [Mutex -> KernelMutex]
    /\ TICK_COUNT \in 0 .. TICK_MOD - 1
    /\ timer \in [Hart -> 0 .. TICK_MOD]
    /\ msip \in [Hart -> BOOLEAN]
    /\ context \in [Hart -> [Slot -> Context]]
    /\ SCHED_LOCK \in LockHolder
    /\ halted \subseteq Hart

\* The task_table invariant trap.rs states for its unwrap() calls: a slot is
\* empty exactly when no task was registered in it at boot, the current index
\* of a hart names a registered slot, and so does every waiters bit on the
\* hart where unlock and the recovery code look it up. No unwrap() panics.
UnwrapSound ==
    /\ \A h \in Hart, i \in Slot : KindOf(h, i) = "None" <=> i \notin Tasks[h]
    /\ \A h \in Hart : Current(h) \in Tasks[h]
    /\ \A m \in Mutex : \A w \in MUTEXES[m].waiters : w \in Tasks[WaiterHart(w)]

\* The task state and the current index agree on each hart, across wake-ups,
\* terminations and restarts by the other: only the current task is Running,
\* and the current task is never in a blocked state.
RunningIsCurrent ==
    \A h \in Hart, i \in Slot :
        /\ KindOf(h, i) = "Running" => i = Current(h)
        /\ i = Current(h) => KindOf(h, i) \in {"Running", "Ready", "Terminated"}

\* Each hart always has its idle task to fall back on, so that switch_task
\* never returns into a task that has just blocked or been terminated.
IdleAvailable ==
    \A h \in Hart :
        KindOf(h, IDLE) = IF Current(h) = IDLE THEN "Running" ELSE "Ready"

\* A mutex is locked exactly while it has an owner, nobody waits for an
\* unlocked one, and a task blocked on a mutex has its waiters bit set, so
\* the next release finds it: no wake-up is lost to a fault, a termination or
\* a race of the harts.
NoLostWaiter ==
    /\ \A m \in Mutex :
          /\ MUTEXES[m].locked <=> MUTEXES[m].owner # NoOwner
          /\ MUTEXES[m].waiters # {} => MUTEXES[m].locked
    /\ \A h \in Hart, i \in Slot :
          KindOf(h, i) = "BlockedOnMutex" =>
              /\ StateOf(h, i).arg \in Mutex
              /\ i \in MUTEXES[StateOf(h, i).arg].waiters
              /\ h = WaiterHart(i)

\* A sender and a receiver never sleep on the same endpoint at once: whoever
\* comes second completes the rendezvous, on whichever hart the other sleeps.
NoMissedRendezvous ==
    \A e \in Endpoint :
        Parked("BlockedOnIpcSend", e) = {} \/ Parked("BlockedOnIpcRecv", e) = {}

\* Only a task whose capability table allows it ever owns a mutex, waits for
\* one, or sleeps on an endpoint; ownership passed on by unlock or recovery
\* does not leave the holders of the capability.
CapabilityConfined ==
    /\ \A m \in Mutex :
          /\ MUTEXES[m].locked =>
                m \in LockCaps[WaiterHart(MUTEXES[m].owner)][MUTEXES[m].owner]
          /\ \A w \in MUTEXES[m].waiters : m \in LockCaps[WaiterHart(w)][w]
    /\ \A h \in Hart, i \in Slot :
          /\ KindOf(h, i) = "BlockedOnIpcSend" => StateOf(h, i).arg \in SendCaps[h][i]
          /\ KindOf(h, i) = "BlockedOnIpcRecv" => StateOf(h, i).arg \in RecvCaps[h][i]

\* The saved_sp of a task that is not current points to a frame it has not
\* been resumed from. The words the handlers write into the saved frame of a
\* blocked peer (its a0) land in a suspended frame, not in a live stack.
SuspendedFrame ==
    \A h \in Hart, i \in Slot : i # Current(h) => context[h][i] # "live"

-----------------------------------------------------------------------------
(* Waiters bits and blocked tasks, when the watchdog terminates a waiter     *)

BlockedOn(w, m) == StateOf(WaiterHart(w), w) = State("BlockedOnMutex", m)

\* README.md: "each `KernelMutex` tracks blocked tasks in a `waiters_bitmap`".
\* Not so once syscall 8 has terminated a waiter: its bit stays (a stale bit).
WaitersAreBlocked ==
    \A m \in Mutex : \A w \in MUTEXES[m].waiters : BlockedOn(w, m)

\* A release hands a mutex to slot w by a bit that is stale.
StaleHandover(w) ==
    \E m \in Mutex : w \in MUTEXES[m].waiters \ MUTEXES'[m].waiters /\ ~BlockedOn(w, m)

\* A waiters bit and the task blocked behind it part in two ways only: syscall 8
\* terminates the waiter, or another mutex is handed to it by a stale bit. No
\* lock sets a bit without blocking its caller, and no release, timer, IPC
\* wake-up, fault or restart leaves the bit of the task it moves.
WaitersTrackBlocked ==
    [][\A m \in Mutex, w \in Slot : w \in MUTEXES'[m].waiters /\ ~BlockedOn(w, m)' =>
         /\ w \in MUTEXES[m].waiters
         /\ BlockedOn(w, m) => (Scanning /\ w \in Targets) \/ StaleHandover(w)]_vars

\* The task may be dispatched, but its saved_sp points to a frame it has been
\* resumed from already: it would repeat code it has run.
LiveReady(h, i) == KindOf(h, i) = "Ready" /\ context[h][i] = "live"

\* A task becomes Ready without a frame to resume it from by the handover of a
\* stale bit only. Preemption, a wake-up by the timer, by a rendezvous or by a
\* release, the recovery after a fault and the watchdog's restart of a task
\* that its hart still executes all leave it a frame.
LiveReadyIsStale ==
    [][\A h \in Hart, i \in Slot : LiveReady(h, i)' /\ ~LiveReady(h, i) =>
         h = WaiterHart(i) /\ StaleHandover(i)]_vars

-----------------------------------------------------------------------------
(* Terminated tasks                                                         *)

\* Slot i of hart h is within reach of a handler that writes its state without
\* looking at it: hart h still executes the task, or a mutex holds its bit.
Reachable(h, i) ==
    \/ i = Current(h)
    \/ h = WaiterHart(i) /\ \E m \in Mutex : i \in MUTEXES[m].waiters

\* A terminated task is gone until the watchdog restarts it in a scan, with two
\* exceptions: the hart that still executes it lets it make one more system
\* call, and the release of a mutex makes the slot of a stale waiters bit Ready.
TerminatedLeaves ==
    [][\A h \in Hart, i \in Slot :
         KindOf(h, i) = "Terminated" /\ KindOf(h, i)' # "Terminated" =>
             \/ Scanning /\ <<h, i>> \in Restartable
             \/ Reachable(h, i)]_vars

-----------------------------------------------------------------------------
(* Liveness                                                                 *)

(* The timer of a hart keeps firing; a handler that keeps finding SCHED_LOCK *)
(* released gets it; an enabled software interrupt is taken; and the scan    *)
(* of the watchdog, which is finite straight-line code, ends when it is      *)
(* given the hart again and again. Nothing is assumed of the other tasks.    *)
Fairness ==
    /\ \A h \in Hart : /\ WF_vars(TimerEntry(h))
                       /\ SF_vars(TimerInterrupt(h))
                       /\ SF_vars(SoftwareInterrupt(h))
    /\ SF_vars(WatchdogUnlocks)

FairSpec == Spec /\ Fairness

\* A Ready partition is eventually dispatched (or terminated) on its hart
\* unless a hart panics, whatever the other tasks do and however the watchdog
\* is preempted while it holds SCHED_LOCK.
ReadyRuns ==
    \A h \in Hart : \A i \in Tasks[h] \ {IDLE} :
        KindOf(h, i) = "Ready" ~> (KindOf(h, i) # "Ready" \/ halted # {})

\* ARCHITECTURE.md: the other core's software interrupt is one "which the
\* target hart handles as a normal reschedule point". Not so with mie as
\* init_timer sets it (MSIE = FALSE): the target reschedules at its next tick,
\* which is all that ReadyRuns needs.
WakeupHandled == \A h \in Hart : msip[h] ~> (~msip[h] \/ halted # {})

=============================================================================
