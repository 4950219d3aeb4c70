# Cerberus-OS in TLA+

TLA+ models of the Cerberus-OS kernel, the properties TLC checks on small
instances of them, and the theorems TLAPS proves for every value of their
constants. Paths below are relative to the root of the repository.

## 1. The system

Cerberus-OS runs on two RISC-V harts. Each hart has its own `BitMapScheduler`
with 32 slots (partitions); a hart executes U-mode code of its current task
until a trap, and every trap ends in `trap_handler` (`kernel/src/trap.rs`).

| Part | State | Operations | Interacts with |
|---|---|---|---|
| Partition scheduler (`scheduler/src`) | `task_table`, `current_partition_idx`, `remaining_mif_ticks` per hart | `register_task`, `start_first_task`, `schedule` | every trap handler |
| Trap dispatcher (`kernel/src/trap.rs`) | `TICK_COUNT`, `saved_sp` of the tasks, `msip`, `mtimecmp` | timer, software interrupt, system calls 1 to 8, contained faults, panic, `switch_task` | both schedulers, mutexes, PMP |
| Kernel mutexes | `locked`, `owner_task_idx`, `waiters_bitmap` | lock, unlock with handover, recovery | task states of both harts |
| IPC | task states `BlockedOnIpcSend`, `BlockedOnIpcRecv` | send, receive | task states of both harts |
| Capabilities | eight slots per task, fixed at boot | looked up by calls 3, 4, 6, 7 | mutexes, IPC |
| Spinlocks `SCHED_LOCK`, `MUTEX_LOCK` (`kernel/src/kernel/spinlock.rs`) | `owner`, `depth` | `lock`, `unlock` | handlers of both harts and the watchdog task |
| Watchdog (`watchdog_task` in `kernel/src/main.rs`) | `LAST_CHECKIN_TICK`, `TEST_COUNTER` | sleep, scan, terminate one task, restart C and HSM | check-ins, tick counter, task tables |
| Memory protection (`kernel/src/memory/pmp.rs`) | `pmpaddr0..6`, `pmpcfg0..1` of each hart | `init_memory_protection`, `reprogram_pmp_stack` | `switch_task` |
| CAN receive path (`network/src/can.rs`) | ring slots, `head`, `tail` | `parse`, `push`, `pop` | meant for an interrupt (producer) and a task (consumer); no such pair yet |
| Boot (`kmain`) | `BOOT_BARRIER`, `CORE_1_READY` | verification, registration, `init_timer`, barrier, `start_first_task` | schedulers, timer |
| Tasks A, B, C, idle (`main.rs`), HSM (`security/src/hsm.rs`) | program counters | system calls | everything above |
| Secure boot, HMAC | none | hash comparisons | boot, HSM |
| Telemetry (`telemetry/src`), host broker (`host/telemetry_broker.py`) | byte stream, file position, reassembly buffer, clients | encode, reassemble, broadcast | traps |
| Dashboard, metrics | counters | display | - |

What is hard here: handlers of two harts act on each other's task tables; the
watchdog is a preemptible U-mode task that takes the kernel's lock; a task that
has been terminated may still be executing on the other hart; faults interrupt
tasks that own mutexes, and handlers that own spinlocks; a restart gives a
task a new stack while the old one may be live; ticks wrap around and are read
before they are used. `PROJECT.json` lists these hazards at their lines.

## 2. Modules

| Module | Models | Notes |
|---|---|---|
| `Scheduler` | data and decision of `schedule()` | operators only; used by the next two |
| `HartScheduler` | one hart's scheduler driven by all the kernel's events | histories `waited` and `passes` measure service; `Scan` is the loop of `schedule()` step by step |
| `Kernel` | all trap handlers of both harts, mutexes, IPC, capabilities, watchdog's access to the tables | one action per handler |
| `Spinlock` | `lock()`/`unlock()`, one memory access per step | activations of handlers and of user tasks |
| `Watchdog` | `watchdog_task` step by step, check-ins, hangs, faults | task tables reduced to "terminated" |
| `System` | `Kernel` with the programs of A, B, C, the HSM task and the watchdog | composition: the system as it is registered |
| `Boot` | `kmain` on both harts up to the first `mret` | extends `System`, and implements it by a refinement mapping |
| `Broker` | telemetry records from `log_telemetry` to the broker's clients | byte level: varints and cut records |
| `CanQueue` | what the CAN path promises: a bounded FIFO queue | abstract specification |
| `CanRing` | filter and ring buffer, one memory access per step | implements `CanQueue` by a refinement mapping |
| `Pmp` | register writes of one hart, and the hardware's decoding (external) | real addresses and sizes |
| `MC*` | instances for TLC | constants only |
| `*Proofs` | theorems and their lemmas | `SystemProofs` and `UnlockProofs` are about `System`, `SharedMemoryProofs` about `CanRing` and `Spinlock`, the others about the module they are named after |

**Kernel.** A handler holds `SCHED_LOCK` from before it reads the scheduler
until it returns, so it is one step. Three places are finer: the tick is
fetched before the lock is taken (`TimerEntry`, then `TimerInterrupt`); the
watchdog task holds the lock in U-mode over several traps of its hart
(`WatchdogLocks` ... `WatchdogUnlocks`, the lock being reentrant for hart 0
only); a handler that panics never gives it back. The register frame of a task
is reduced to what its `saved_sp` points to: a fresh frame, the frame of its
last trap, or a frame it has already been resumed from. The mutual exclusion
the first sentence relies on is what `Spinlock` examines; where the watchdog's
use of the lock breaks it, `Kernel` shows what holds with a lock that works.
Tasks are unconstrained: the current task of a hart may issue any system call
its capabilities allow, including a task that has been terminated and whose
hart has not rescheduled yet. Syscall 8 is issued by the watchdog only, as in
`main.rs`. `MSIE` says whether `mie` enables the software interrupt; `main.rs`
never does (`MSIE = FALSE`). `MCKernel` uses `TRUE`, the more permissive
setting: with `FALSE` an action disappears, so its safety results cover both,
and the theorems hold for either value. The liveness run uses `FALSE`.

**Watchdog.** Its sleep is modelled by its promise: the next iteration starts
at least `PERIOD` ticks later and ends within `LAG` more. `WaitBounded` of
`HartScheduler` is why there is such a bound. The HSM task checks in when it
starts and then once per request, and its requests come from task A.

**System.** Every step is a step of `Kernel` or leaves its variables alone; what
`System` adds is which call a task makes next. A program is the sequence of its
system calls; results are only logged, except that a failed call would skip the
verification, and no call the registration grants fails. Task C's injected faults are the
last calls of its tests; task B stops checking in after `LOOPS` loops and goes
on otherwise; the HSM task may fault in its computation (`HSM_FAULTS`). The
watchdog is its loop: sleep, read the tick, take the lock, check, restart C,
restart the HSM task, release. If hart 1 switches from a task C that was restarted
under it to task C, `schedule()` reads the new `saved_sp` before the old one is
stored over it, and the new instance starts (`StartsAnew`). Time is bounded by three hypotheses: the timers
of the harts run at the same rate and alternate; code between two system calls
is short against a tick; and the long computations (task A's under the mutex,
task B's loop, the tag) may be hit by up to `BUSY` ticks of a run. Where a hart
idles, or task C spins, ticks come freely. `Watchdog` and `Kernel` make none of these
hypotheses.

**Boot.** One action per stage of `kmain`, `start_first_task` in three
(choose, point, start) because it takes no lock and the other hart may be running
already. A hart that runs partitions takes the steps of `System`, faults of the HSM
task included. The refinement mapping shows a hart that has not finished as if it
had: `BootImplementsSystem` is the claim that nobody can tell. A timer does not
fire on a hart before its first `mret`: the first tick is 40,000 cycles after
`init_timer`. If it did, `_trap_entry` would swap `sp` with an unset
`mscratch`, and hart 1 would schedule from its empty slot 0 (`main.rs:540`).

**Broker.** An event is a tuple, a record the bytes Postcard makes of it (tag, u8
fields, varints with continuation bit `CONT`). The file grows by whole records
(the emulator's hook appends them) and is read in chunks of `CHUNK` bytes; the
buffer and its position are those of the `BytesIO`.

**CanRing.** `docs/adr/006` intends an interrupt as producer and a task as
consumer; the repository contains the ring and no such pair yet, so the
interleaving is that of the intended use. Memory accesses take effect in
program order.

**Pmp.** Switching is a sequence of calls of `configure_pmp`, each of two
register writes. U-mode runs only when all are done.

## 3. Runs

Passing:

| Run | Instance | Shows |
|---|---|---|
| `MCHartScheduler` | 6 slots, tasks in 0, 1, 3, 4 and idle, slices of 3 ticks; 118 378 states | no slot is dispatched twice while a partition stays Ready (`BoundedBypass`); a Ready partition waits less than one slice per other slot (`WaitBounded`); the search operator is the code's loop (`SearchIsTheLoop`); idle only when nothing is Ready (`ProgressStep`) |
| `MCKernel` | watchdog, A / B, C, idle tasks; one mutex shared by A and C, an endpoint from A to B; any task may fault; the watchdog terminates A, B and C and restarts C, as in `main.rs`; 1 355 922 states | the kernel's safety invariants; a terminated task comes back in three ways only (`TerminatedLeaves`); a waiters bit is separated from its waiter by a termination only (`WaitersTrackBlocked`), and a Ready task without a frame comes from such a bit only (`LiveReadyIsStale`). All are proved |
| `MCKernelLive` | watchdog, A / B; 31 432 states | Ready partitions run, although the watchdog may be preempted while it holds `SCHED_LOCK` |
| `MCSpinlock` | 3 harts, handlers only, which may fault inside the lock up to depth 3; 2 808 states | exclusion and ownership of `depth`; until a handler has faulted, release and progress |
| `MCWatchdog` | tasks A and C; 1 731 102 states | which tasks a scan can kill; a hung task is terminated |
| `MCCanRing` | 4 slots, two frames that pass, one blocked, one malformed; 1 071 states | the ring is a queue |
| `MCPmp` | the five stacks of `main.rs` next to each other; 260 states | exact regions, own stack usable, entries 1 and 2 protect |
| `MCSystem` | the registration of `kmain`; slices of 2, watchdog period 2, timeout 4, grace 20; one tick may hit a computation and the HSM task may fault once; 5 738 717 states | no panic (`NoPanic`); undisturbed, the three tests of task C run and end (`SuiteCompletes`); task A and the HSM task agree on the open request (`SigningInStep`); no stack is given to a new instance while the old one executes, within the grace period (`RestartIsClean`) |
| `MCBoot` | the same, from reset, the first 16 ticks; the HSM task may fault once; 87 273 states | partitions run only on a verified, registered and protected system (`RunsPrepared`); the two spin loops do not deadlock (`BootCompletes`); boot implements `System` (`BootImplementsSystem`) |

Runs in which TLC finds a documented statement violated; each has an entry
under `findings` in `PROJECT.json` that quotes the statement:

| Run | Property | What happens |
|---|---|---|
| `MCSpinlockUser` | `MutualExclusion` | the U-mode watchdog is interrupted inside `lock()` or `unlock()`, and its handler releases the lock under it |
| `MCSystemHealthy` | `OnlyHungTerminated` | with the code's own constants: hart 0 idles while task A and the watchdog wake; the idle slice lasts 100 ticks of the hart, 200 of the shared counter; the watchdog is searched first and finds task A, which has not had the hart since, at 201 ticks |
| `MCBroker` | `RebroadcastsEachEvent` | the bytes kept of a cut record are overwritten by the next chunk, and what is left decodes as another event. With `CHUNK` larger than the file (30) the property holds (40 075 states) |

Four definitions state documented facts that the code does not have and that
no run checks; each can be put in a configuration as it stands:

- `Kernel!WakeupHandled` (ARCHITECTURE.md:72) fails under `FairSpec` with the
  constants of `MCKernelLive`: `init_timer` enables only the timer in `mie`
  (`main.rs:1231`), so a raised software interrupt is never taken. `ReadyRuns`
  shows that the woken task runs all the same.
- `Kernel!WaitersAreBlocked` (README.md:92, "each `KernelMutex` tracks blocked tasks
  in a `waiters_bitmap`") fails with the constants of `MCKernel`: terminating a task
  that waits for a mutex leaves its waiters bit set (`trap.rs:668`).
  `WaitersTrackBlocked` shows that nothing else does.
- `Watchdog!HealthyStays` (README.md:100) fails with `MonitoredAH` and
  `HART0 = {1, 4}`: a check-in
  between the watchdog's read of the tick and its scan lies in the future of
  that tick and the elapsed time wraps around (`main.rs:918`). `JustifiedKill`
  names this case.
- `Pmp!InactiveStacksBlocked` (README.md:108) fails with the constants of
  `MCPmp`: the SRAM entry 3 takes precedence over entries 4, 5 and 6
  (`pmp.rs:113`). `EarlyStacksBlocked` is what holds.

Where a passing property carries a hypothesis, this is what happens beyond it:

- `LiveReadyIsStale` (`StaleHandover`): a waiter that is terminated, restarted and
  dispatched again still has its old bit, and the next release makes it Ready while
  it executes. Its `saved_sp`, through which the release writes a0
  (`trap.rs:321`), is then that of a frame it has been resumed from. TLC reaches
  this with the constants of `MCKernel` in twelve steps, of tasks that make
  arbitrary calls.
- `TerminatedLeaves` spells out the three ways back: the watchdog's restart, a
  trap of the hart that still executes the task, a release that finds its stale
  waiters bit. The last two contradict "Execution completed." (`tcb.rs:49`).
- `RestartIsClean` (grace period): later, a restarted task C with no check-in yet
  has a deadline counted from boot; a scan may terminate and restart it while
  hart 1 executes it.
- `SuiteCompletes` (no disturbance): once task A is gone no request reaches the HSM
  task, which then fails every other scan; as the last task checked it is the one
  acted on, and a hung task C waits (`main.rs:980`).
- `SigningInStep` (`unanswered`): when the HSM task dies with a request, task A
  waits on endpoint 3 until the watchdog terminates it. The restart of the HSM
  task does not help the request that was open.
- `NoPanic` is about the programs of `main.rs`; for arbitrary tasks see `Sys4UnlockPanics` below.
- Restart: the fresh frame is overwritten if the other hart, still executing the
  old instance, then switches away from it (`main.rs:1021`).
- `Sys4UnlockPanics`: a task whose mutex was recovered from it and that then
  unlocks it fails an assertion with `SCHED_LOCK` held (`trap.rs:275`).
- `NotLeaked` and `SpinEnds` (`faulted`): a fault inside the lock raises `depth`
  once more and the outer hold is never given back (`spinlock.rs:64`).
- `JustifiedKill` names the three cases in which a scan kills; one is a restarted
  task, whose grace period is counted from boot (`main.rs:1028`).
- `HungIsTerminated` is checked for tasks A and C. A restart of C is limited to
  two, so C hides A only for a while. The HSM task is restarted without limit and
  scanned last; with `MonitoredAH`, `LAG = 2` and `TICK_MOD = 19` it fails every
  scan and a hung task A is never terminated (`main.rs:980`).
- `ProgressStep` is about the dispatch: a partition that becomes Ready while the
  idle task runs waits for the end of the idle slice (`bitmap.rs:68`).

### Bounds

- Slots: enough for each registered task and, in `MCHartScheduler`, an empty
  slot in the middle of the table so that the search wraps over one.
- `MIF` (ticks per slice): 1 where preemption matters and slices do not, 2 or 3
  where they do. 1 makes every tick a preemption, the richest interleaving.
- `TICK_MOD`: small, so that the counter wraps. In `Watchdog` it exceeds `GRACE`
  by more than three scan intervals, as 2^32 does by far; a smaller value would
  make tasks appear healthy only because the counter is short.
- `PERIOD`, `TIMEOUT`, `GRACE` = 1, 2, 3 stand for 100, 200, 1000 and `LAG` for
  multiples of a slice: what matters is on which side of `TIMEOUT` the interval
  `PERIOD + LAG` falls.
- `System`: `PERIOD`, `TIMEOUT`, `GRACE`, `MIF` = 2, 4, 20, 2 keep the code's ratios
  (100, 200, 1000, 100). `HORIZON` = 48 is where every undisturbed run has ended
  the suite (44 is too early); disturbed runs are explored to `DISTURBED` = 28, past
  the grace period. `LOOPS` = 1 instead of 5 hangs task B earlier. The counter
  does not wrap before the horizon; wrap-around is `Watchdog`'s subject.
  `MCSystemHealthy` uses the code's values for all of them.
- `Boot`: `HORIZON` = 16 ticks after both harts have started; the claims are about
  what happens before and around the start.
- `Broker`: `CHUNK` = 7 against records of 3 to 5 bytes, so that the second record
  of a backlog is cut, as the record at every 4096th byte is.
- Histories (`waited`, `passes`, `age`) stop one above what the properties
  distinguish. `DepthBound` stops nested faults at depth 3.
- No symmetry is used: slots are numbered and the numbers matter.

`Kernel` and its runs switch deadlock checking off because two panicking harts
stop the system, `System` and `Boot` because time ends at the horizon. All other
runs check for deadlock.

### Fairness

- `Kernel!Fairness`: timers keep firing (`WF` of `TimerEntry`); a handler that
  spins for `SCHED_LOCK` gets it if it is released again and again (`SF`), a
  pending enabled interrupt is taken (`SF`), and the watchdog's scan, which is
  straight-line code, ends if it keeps being given the hart (`SF`). The `SF` of
  the lock assumes that the compare-and-exchange of a spinning hart is not
  overtaken forever; the hardware gives no such guarantee in writing, and the
  handlers are rare enough for it. Tasks have no fairness.
- `Spinlock!FairSpec`: handlers run to their end; the same assumption on `Cas`.
- `Watchdog!FairSpec`: time passes, the watchdog is dispatched and its loop body
  ends, and a restarted HSM task, which shares its hart, is dispatched.
- `Boot!Spec_Boot`: a hart in `kmain` keeps executing. Nothing is assumed of the
  partitions.

## 4. Theorems

All are checked by TLAPS without assumptions beyond the named `ASSUME`s, which
TLC evaluates on every run. `BootProofs`, `SystemProofs` and `UnlockProofs` take
about twelve minutes each, `KernelProofs` four, the others about a minute or less.
The leaves of the large ones name Zenon wherever no arithmetic is needed: in
contexts of this size its obligations are prepared several times faster than those
of the SMT solver. For the same reason `BootProofs` and `HartSchedulerProofs`
state and prove the dozen facts about `schedule()` and the table searches they need
instead of extending `KernelProofs`.

- `KernelProofs`, for any tables, capabilities, mutexes, endpoints, slices and
  tick widths: `TypeOK`, `UnwrapSound`, `RunningIsCurrent`, `IdleAvailable`,
  `NoLostWaiter`, `NoMissedRendezvous`, `CapabilityConfined`, `SuspendedFrame`.
  `KernelAssumption` states how tasks are registered: disjoint slots, an idle
  task on each hart, and neither it nor the watchdog terminated by syscall 8;
  `CapabilityAssumption`, that the tasks that may lock a mutex sit where
  `waiter_idx < 2` looks for them. The invariant `IInv` is proved by parts: the
  schedulers (`Good`, stated of any prepared pair of schedulers, not
  only on the current one, because a handler changes task states before
  `schedule()` runs), the mutexes together with the states of blocked tasks,
  and the frames. The parts are not inductive alone: that a hart can switch away
  from a task that has just blocked needs the idle slot to be Ready, that the
  idle slot stays so needs waiters and parked tasks never to be idle ones, and
  that needs the confinement of capabilities. One lemma per handler reduces it to
  `switch_task`, and two lemmas describe `schedule()`: either it keeps the table
  and the current slot (`ScheduleKeeps`), or it swaps (`ScheduleSwaps`).
- `KernelProofs`, under the same assumptions: `TerminatedLeaves`. For each
  handler, a task that is terminated, is not current on its hart and has no waiters
  bit is in none of the places from which the handler makes a task Ready: the
  sleepers due, the highest waiter, the parked peer, the new owners of recovered
  mutexes. `IInv` supplies that a parked or blocked task is not terminated.
- `KernelProofs`, `BitsPartByTermination` and `FramelessByStaleBit`:
  `WaitersTrackBlocked` and `LiveReadyIsStale`, whatever the watchdog may terminate
  and whoever may lock. They are about the step in which something goes wrong,
  so the argument is about one step from a state that may be wrong already. `InOrder(A, B)` says
  that every waiters bit belongs to a blocked task except for the pairs of mutex and
  slot in `A`, and that every Ready task has a frame except for the slots in `B`. A
  step keeps `InOrder` for every `A` and `B` that excuse what it does
  (`Excuses`): a termination the bits of its target, a handover by an excused
  bit the slot it revives. The theorems take for `A` and `B` what is wrong
  before the step and what the step itself may add; `StaleConfined`, an invariant,
  takes the targets of the watchdog and those of them that may lock a mutex. One
  predicate carries both because the second needs the first: a release makes the
  task of a waiters bit Ready, which has a frame if it is blocked.
- `KernelProofs`, `ExecutesLive`: a hart is never left in a terminated task, except
  hart 1 in one that the watchdog terminates from hart 0. `Steady` states it of a
  step: afterwards a hart executes a task that is Ready or Running, or it already
  executed one that was not. A handler that stops the current task of its
  hart calls `schedule()`, which falls back on the idle task (`IdleAvailable`).
- `SystemProofs`, for every period, timeout, grace period, horizon, number of
  ticks that hit a computation and number of HSM faults: `SystemImplementsKernel`,
  every behaviour of `System` is one of `Kernel`, so the theorems of
  `KernelProofs` hold of the booted partitions. `RegistrationAssumption` says that
  the four partitions are in their tables, that syscall 8 reaches them, that the
  watchdog can restart C and the HSM, and that the endpoints and the mutex named by
  the programs exist. `ProgramInv` keeps the program counters inside the
  programs, so that every call made is one of the kernel's.
- `SystemProofs`, `RestartsClean`: `RestartIsClean`, if task C has at most the three
  tests of `main.rs` (`TESTS <= 2`: the last is the one that checks in). For the
  HSM it is `ExecutesLive`. For task C the invariant `CleanInv` says that within
  the grace period the test it runs is the one counted, that it has checked in only
  in its last test, and that hart 1 executes it terminated only if it has. So a
  task C that is restarted had not checked in, the scan was not what ended it
  (`GraceHolds`, from the clock's `ClockInv`), and the fault that did took hart 1
  away from it.
- `SystemProofs`, `SigningStaysInStep`, under the same assumptions:
  `SigningInStep`. Its invariant `SInv` ties a task's state to its program
  counter: task A is parked or blocked only at the call that parks it, likewise
  the HSM, and nobody else is parked on endpoints 2 and 3, so a send or receive of
  one can pair only with the other. Two conjuncts are there for the watchdog.
  A stale waiters bit of task A exists only at its lock call: it is the one way
  back from Terminated that is not a restart, and it must not revive A inside the
  exchange. And the task that hart 0 executes is Ready or Running, so a terminated
  task A makes no further call. `Signing` is stated of a pair of schedulers, because
  a handler changes states before `schedule()` chooses; the choice itself moves
  tasks only between Ready and Running, which `Signing` does not tell apart.
- `UnlockProofs`, `PanicsOnlyLate`: `NoPanic` as long as the grace period lasts or
  task C is past its first test. A hart panics when a task unlocks a mutex it does
  not own, so the invariant `HInv` follows the mutex through the two tasks that use
  it: task A with its unlock ahead owns it unless it is blocked or terminated, and
  so does task C in its first test (`FirstTest`). Handover, recovery and
  termination are the steps that move ownership. Task A is safe at any time because
  hart 0, which runs it, runs the watchdog too: no task A executes after it was
  terminated. Task C runs on the other hart; that it is not terminated under hart 1
  is what the grace period gives (`GraceHolds`), and the reason why the theorem ends
  where it does: with a grace period shorter than the first test, a scan can
  terminate task C as the owner, and its unlock is the one that panics. In the later
  tests it uses no mutex. That a new instance started by hart 1's switch from C to
  C is in a later test is the conjunct `Renewed`. The theorem covers every period, slice, number of ticks
  that hit a computation and of HSM faults; that the code's grace period
  is longer than the first test is a matter of the numbers, which `MCSystem` checks.
- `BootProofs`, `BootRefines`: `Boot` implements `System` (`BootImplementsSystem`),
  for every table, capability table and timing. `BootAssumption` says that what
  `kmain` registers is what the tables of `System` contain. The invariant `BootInv`
  has three parts: the order of the stages on each hart and across the barrier and
  `CORE_1_READY` (`Sequence`); what an unstarted hart's scheduler, `first_idx` and
  contexts look like in each stage (`Unstarted`); and that the partitions of a hart
  that runs alone leave the other one alone (`Apart`: nobody waits for a mutex
  on an unstarted hart, and no tick has come). The mapping puts `Fresh(h)`, the
  scheduler after `start_first_task`, in the place of an unstarted hart's.
  Every handler is then shown to commute with it: it reads of the other hart only
  what the mapping does not change, because a slot there is Ready
  before and Ready or Running after, and neither is blocked, asleep or parked. The
  stages of `kmain` are stuttering steps, and so is the last one, `Starts`.
- `BootProofs`, `BootPrepared`: `RunsPrepared`. Its clause on registration needs an
  invariant of its own, `Manned`, since partitions change the tables
  as soon as one hart runs: on a started hart exactly the registered slots are
  occupied and the current one is among them. `Staffed` states it of a pair of
  schedulers, for the changes a handler makes before `schedule()`.
- `PmpProofs`, for every placement of the five stacks in SRAM (`PmpAssumption`: five
  stacks at different bases, aligned to their size (`repr(align(1024))`,
  `main.rs:152`), inside the SRAM) and every sequence of switches: `TypeOK`, `OwnStackOpen`,
  `RegionsExact`, `EarlyStacksBlocked`, `WriteXorExecute`. TLC looks at the ends of
  each region; the theorems on stacks and on writable code speak of every
  address. The invariant `PInv` names the sequence of calls being made and how many
  of its register writes are done. That `Region` decodes what `Napot` encodes is
  proved for the three sizes in use, by cases on the number of trailing ones,
  and two stacks do not overlap because both are aligned.
- `SharedMemoryProofs`, for any number of harts and with nested faults:
  `MutualExclusion` and `DepthOwned`, if no user task takes the lock
  (`UserHarts = {}`). The invariant adds that an activation between acquisition
  and release owns the lock. The hypothesis is needed: `MCSpinlockUser`.
  `NotLeaked` under the same hypothesis: until a handler has faulted nothing is
  nested (`HInv`), so `depth` is 1 inside the lock and its decrement gives it back.
- `HartSchedulerProofs`, for any number of slots, any registered tasks that include
  the idle one, any slice and any mix of events: `BoundedBypass`, `WaitBounded`,
  `ProgressStep` and `SearchIsTheLoop`. The invariant `Passed` says that a slot
  dispatched while y waits lies no nearer to y, in the order of the search, than the
  current slot does; a dispatch moves the current slot strictly nearer, so it cannot
  be a second one of the same slot. Progress needs that the idle slot is Running when
  current and Ready otherwise (`IdleInv`). For the wait, `WaitInv` adds up slices: the
  ticks waited and what remains of the current slice are no more than a slice for each
  slot that has passed y and one for the current slot; y itself is never among them,
  so the bound for all other slots is not reached. For the search, the loop is the
  recursive function `Scan`. Its value is found by taking the least number of steps
  left at which it would differ from the slot nearest by cyclic distance: one step
  earlier the two agree, and one step of the loop keeps them so (`EndsStep`).
- `WatchdogProofs`, for any tasks, period, timeout, delay and any tick counter
  wide enough for a scan (`WatchdogAssumption`): `JustifiedKill`. The invariant
  says that the counter gives the age of a task up to the cap of that history,
  over wrap-around (`Ages`); that the watchdog's copy of the counter is no older
  than its last sleep (`Fresh`); and that a verdict of the scan stays justified
  while ticks and check-ins come before the termination.
- `SharedMemoryProofs`, for every capacity above 1: `NoSlotConflict`, and that the ring
  implements `CanQueue` (`IsQueue`). The invariant says that exactly the slots
  from `head` to `tail` are filled, up to the slot each side is working on, and
  that a producer past its test of `is_full` still has room, since the consumer
  only makes more. The mapping reads the frames from `head` on; the two accesses
  to a slot then leave the mapped queue as it is, and the two `advance` steps are
  its `Enqueue` and `Dequeue`.

The `TypeOK`s of `Spinlock` (`TypeOK_Spinlock`, proved as `LockTypeCorrect`),
`HartScheduler`, `Watchdog` and `CanRing` (`TypeCorrect`) are theorems of the same
modules. They say more than types: the histories never reach their caps, indexes
stay in the buffer, copies of the tick counter inside its width.

Only model-checked:

- liveness (`ReadyRuns`, `SpinEnds`, `HungIsTerminated`, `BootCompletes`), which is
  out of the prover's reach;
- `SuiteCompletes`, which is about how long the suite takes and so about the
  numbers of the timing, and `NoPanic` after the grace period with task C in its
  first test, for the same reason;
- `Broker`: what its decoder returns is a recursive operator's value, and the
  property of its run does not hold.

## 5. Not modelled

- The hashes of secure boot and of the HMAC: pure library computations. Their
  place in the control flow is in `Boot` and `System`.
- Metrics, logging, the dashboard and the network self-test: nothing reads them
  back.
- Register contents, message bytes and lengths, the emulated `cycle` CSR (it
  changes only the caller's frame), and `trap_entry.s` beyond saving and restoring
  a frame.
- A timer interrupt before the first `mret` of a hart (see `Boot`), and telemetry
  records of two harts written into each other (`trap.rs:847`): the channel
  function comes from a library.
- The duration of a sleep across the wrap-around of the counter (`trap.rs:95`);
  `Kernel` lets sleeps wrap and states nothing of their length.
- Hardware memory reordering.
- Benchmarks and build scripts.
