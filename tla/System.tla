-------------------------------- MODULE System --------------------------------
(***************************************************************************)
(* The system that boots: Kernel with the programs of its partitions in    *)
(* place of arbitrary ones. Tasks A, B, C and the HSM are the sequences of *)
(* system calls of kernel/src/main.rs and security/src/hsm.rs; the         *)
(* watchdog is the loop of watchdog_task.                                  *)
(*                                                                         *)
(* Time. The harts' timers run at the same rate and hart 0 arms its own    *)
(* first, so the ticks of the harts alternate. Time passes where a hart    *)
(* idles or spins; code between system calls is too short for a tick to    *)
(* come, except for the long computations, which BUSY ticks of a run hit.  *)
(***************************************************************************)
EXTENDS Kernel, Integers, Sequences

CONSTANTS
    PERIOD,      \* sleep of the watchdog (100 ticks)
    TIMEOUT,     \* allowed silence of a task that has checked in (200)
    GRACE,       \* ... that has not checked in yet (1000)
    LOOPS,       \* check-ins of task B before it hangs (5)
    TESTS,       \* restarts of task C (2)
    BUSY,        \* ticks that hit a computation, a bound
    HSM_FAULTS,  \* contained faults of the HSM, a bound
    HORIZON,     \* ticks explored, a bound; the counter does not wrap before
    DISTURBED    \* ... if a tick has hit a computation or the HSM has faulted

ASSUME SystemAssumption ==
    /\ {PERIOD, TIMEOUT, GRACE, LOOPS, TESTS, BUSY, HSM_FAULTS, HORIZON, DISTURBED} \subseteq Nat
    /\ HORIZON < TICK_MOD /\ DISTURBED <= HORIZON

A == 1
B == 2
C == 3
HSM == 4

Monitored == {A, B, C, HSM}

HartOf(i) == IF i \in {B, C} THEN 1 ELSE 0

\* The partitions are registered on their harts, the watchdog may terminate all
\* of them and restarts two, and the programs' calls name what exists.
ASSUME RegistrationAssumption ==
    /\ \A i \in Monitored : i \in Targets /\ i \in Tasks[HartOf(i)]
    /\ {<<1, C>>, <<0, HSM>>} \subseteq Restartable
    /\ PERIOD \in Sleeps /\ 0 \in Mutex /\ {0, 2, 3} \subseteq Endpoint

VARIABLES
    at,                 \* at[i]: next call of partition i's program
    TEST_COUNTER,       \* which test task C runs next
    tc,                 \* the copy its running instance has taken
    loops,              \* loops of task B, up to LOOPS
    LAST_CHECKIN_TICK,  \* tick of the last check-in, 0: none
    step,               \* where the watchdog is in its loop
    current_tick,       \* its copy of the tick counter
    due,                \* the hart whose timer fires next
    hits,               \* ticks that have hit a computation
    faults,             \* faults of the HSM so far
    unanswered          \* the HSM died with a request it had not answered

programVars == <<at, TEST_COUNTER, tc, loops, LAST_CHECKIN_TICK, faults, unanswered>>
watchdogVars == <<step, current_tick>>
clockVars == <<due, hits>>
systemVars == <<vars, programVars, watchdogVars, clockVars>>

-----------------------------------------------------------------------------
(* The programs: <<call, argument>> in the order of the source, endpoints   *)
(* by number. Results are not tested: the registration grants every call    *)
(* made here, and a granted call returns a length or 0.                     *)

\* Slip: the second request before the first reply.
task_a_Pipelined == << <<"checkin", 0>>, <<"lock", 0>>, <<"unlock", 0>>,
                 <<"send", 2>>, <<"send", 2>>, <<"recv", 3>>, <<"recv", 3>>,
                 <<"send", 0>>, <<"yield", 0>> >>

task_a == << <<"checkin", 0>>, <<"lock", 0>>, <<"unlock", 0>>,
             <<"send", 2>>, <<"recv", 3>>,     \* sign
             <<"send", 2>>, <<"recv", 3>>,     \* verify_frame_secure
             <<"send", 0>>, <<"yield", 0>> >>

task_b == << <<"recv", 0>>, <<IF loops < LOOPS THEN "checkin" ELSE "hang", 0>>,
             <<"yield", 0>> >>

task_c ==
    CASE tc = 0 -> << <<"lock", 0>>, <<"yield", 0>>, <<"unlock", 0>>,
                                <<"yield", 0>>, <<"fault", 0>> >>
      [] tc = 1 -> << <<"fault", 0>> >>
      [] OTHER            -> << <<"checkin", 0>>, <<"spin", 0>> >>

hsm_task == << <<"checkin", 0>>, <<"recv", 2>>, <<"send", 3>> >>

Program(i) == CASE i = A -> task_a [] i = B -> task_b [] i = C -> task_c
                [] i = HSM -> hsm_task

NextCall(i) == Program(i)[at[i]]

\* Where the program goes on after its call: the loop of task C's last test
\* repeats its only call.
After(i) == IF NextCall(i)[1] = "spin" THEN at[i] ELSE (at[i] % Len(Program(i))) + 1

Init_Programs ==
    /\ at = [i \in Monitored |-> 1]
    /\ TEST_COUNTER = 0 /\ tc = 0 /\ loops = 0 /\ faults = 0 /\ unanswered = FALSE
    /\ LAST_CHECKIN_TICK = [i \in Monitored |-> 0]
    /\ step = "sleep" /\ current_tick = 0
    /\ due = 0 /\ hits = 0

Init_System == Init /\ Init_Programs

\* The HSM has taken a request and its reply has not been taken.
Owes ==
    \/ at[HSM] = 3 /\ KindOf(0, HSM) \notin {"BlockedOnIpcRecv", "Terminated"}
    \/ at[HSM] = 1 /\ KindOf(0, HSM) = "BlockedOnIpcSend"

\* Task A's request has been taken and it has no reply yet.
Awaits ==
    \/ at[A] \in {5, 7} /\ KindOf(0, A) \notin {"BlockedOnIpcSend", "Terminated"}
    \/ at[A] \in {6, 8} /\ KindOf(0, A) = "BlockedOnIpcRecv"

-----------------------------------------------------------------------------
(* Partitions                                                               *)

\* Syscall 5.
Sys5Checkin(h) ==
    /\ Traps(h)
    /\ LAST_CHECKIN_TICK' = [LAST_CHECKIN_TICK EXCEPT ![Current(h)] = TICK_COUNT]
    /\ UNCHANGED vars

\* Hart 1 switches from task C to task C, which has been restarted in the
\* meantime: the new saved_sp is read before the trap's is written over it, so
\* the new instance starts and reads TEST_COUNTER.
StartsAnew == Current(1) = C /\ context[1][C] = "fresh" /\ context'[1][C] = "live"

\* The current partition of hart h makes the next call of its program.
Calls(h) ==
    LET i == Current(h) IN
    /\ i \in Monitored
    /\ LET call == NextCall(i)[1]
           arg  == NextCall(i)[2]
       IN  \/ call = "checkin" /\ Sys5Checkin(h)
           \/ /\ \/ call = "lock" /\ Sys3Lock(h, arg)
                 \/ call = "unlock" /\ (Sys4Unlock(h, arg) \/ Sys4UnlockPanics(h, arg))
                 \/ call = "send" /\ Sys6Send(h, arg)
                 \/ call = "recv" /\ Sys7Recv(h, arg)
                 \/ call \in {"yield", "spin"} /\ Sys1Yield(h)
                 \/ call = "hang" /\ Traps(h) /\ UNCHANGED vars
                 \/ call = "fault" /\ Fault(h)
              /\ UNCHANGED LAST_CHECKIN_TICK
    /\ at' = [at EXCEPT ![i] = IF i = C /\ StartsAnew THEN 1 ELSE After(i)]
    /\ tc' = IF i = C /\ StartsAnew THEN TEST_COUNTER ELSE tc
    /\ loops' = IF i = B /\ NextCall(i)[1] = "yield" /\ loops < LOOPS THEN loops + 1 ELSE loops
    /\ UNCHANGED <<TEST_COUNTER, faults, unanswered, watchdogVars, clockVars>>

\* A contained fault of the HSM in the tag computation, with a request taken.
HsmFaults ==
    /\ Current(0) = HSM /\ at[HSM] = 3 /\ faults < HSM_FAULTS
    /\ Fault(0)
    /\ faults' = faults + 1
    /\ unanswered' = (unanswered \/ Owes)
    /\ UNCHANGED <<at, TEST_COUNTER, tc, loops, LAST_CHECKIN_TICK, watchdogVars, clockVars>>

-----------------------------------------------------------------------------
(* Timer                                                                    *)

\* Hart h executes an endless loop: the idle task's, or task C's last one while
\* its yields find no other partition to run.
Spins(h) ==
    \/ Current(h) = IDLE
    \/ /\ Current(h) = C /\ NextCall(C)[1] = "spin"
       /\ ReadyPartitions(SCHEDULERS[h]) \subseteq {C}

\* The long computations: task A's busy work under the mutex, task B's loop, the
\* tag of the HSM. Each comes before the third call of its program.
Computes(i) == i \in {A, B, HSM} /\ at[i] = 3

Interruptible(h) == Computes(Current(h)) /\ hits < BUSY

\* The timer of h fires: the harts take turns, and both have got as far as
\* they can since the last tick, save for a computation it hits.
MayTick(h) ==
    /\ TICK_COUNT < IF faults + hits = 0 THEN HORIZON ELSE DISTURBED
    /\ due = h
    /\ \A g \in Hart : Spins(g) \/ Interruptible(g)

Ticks(h) ==
    /\ MayTick(h) /\ TimerEntry(h)
    /\ due' = 1 - h
    /\ hits' = IF \A g \in Hart : Spins(g) THEN hits ELSE hits + 1
    /\ UNCHANGED <<programVars, watchdogVars>>

Handles(h) ==
    /\ TimerInterrupt(h) \/ SoftwareInterrupt(h)
    /\ at' = IF StartsAnew THEN [at EXCEPT ![C] = 1] ELSE at
    /\ tc' = IF StartsAnew THEN TEST_COUNTER ELSE tc
    /\ UNCHANGED <<TEST_COUNTER, loops, LAST_CHECKIN_TICK, faults, unanswered, watchdogVars, clockVars>>

-----------------------------------------------------------------------------
(* watchdog_task                                                            *)

At(s) == Current(0) = WATCHDOG /\ step = s

WatchdogSleeps ==
    /\ At("sleep") /\ Sys2Sleep(0, PERIOD)
    /\ step' = "load"
    /\ UNCHANGED <<current_tick, programVars, clockVars>>

\* The tick is read before the lock is taken.
WatchdogLoads ==
    /\ At("load") /\ timer[0] = NoTick
    /\ current_tick' = TICK_COUNT
    /\ step' = "lock"
    /\ UNCHANGED <<vars, programVars, clockVars>>

WatchdogStartsScan ==
    /\ At("lock") /\ WatchdogLocks
    /\ step' = "check"
    /\ UNCHANGED <<current_tick, programVars, clockVars>>

\* Elapsed ticks and the limit, as the scan computes them for task i.
Elapsed(i) == (current_tick - LAST_CHECKIN_TICK[i]) % TICK_MOD

\* Slip: no grace for a task that has not checked in.
Failed_NoGrace(i) ==
    KindOf(HartOf(i), i) # "Terminated" /\ Elapsed(i) > TIMEOUT

Failed(i) ==
    /\ KindOf(HartOf(i), i) # "Terminated"
    /\ Elapsed(i) > (IF LAST_CHECKIN_TICK[i] = 0 THEN GRACE ELSE TIMEOUT)

\* The last failure found is the one acted on; tasks are checked in the
\* order of their slots.
failed_task == CHOOSE i \in {j \in Monitored : Failed(j)} :
                  \A j \in Monitored : Failed(j) => j <= i

\* current_tick is dead after the checks.
WatchdogChecks ==
    /\ At("check") /\ Scanning
    /\ \/ (\A i \in Monitored : ~Failed(i)) /\ UNCHANGED vars
       \/ (\E i \in Monitored : Failed(i)) /\ Sys8Terminate(failed_task)
    /\ unanswered' = (unanswered \/ (Failed(HSM) /\ Owes))
    /\ current_tick' = 0
    /\ step' = "restart C"
    /\ UNCHANGED <<at, TEST_COUNTER, tc, loops, LAST_CHECKIN_TICK, faults, clockVars>>

\* Slip: the last test is not counted.
TestLeft_OffByOne == KindOf(1, C) = "Terminated" /\ TEST_COUNTER + 1 < TESTS

\* Task C has ended and a test is left.
TestLeft == KindOf(1, C) = "Terminated" /\ TEST_COUNTER < TESTS

\* Task C is restarted for the next test. An instance hart 1 still executes
\* goes on from where it is, until a switch of hart 1 to task C itself
\* (StartsAnew); a switch to another task overwrites the new saved_sp.
WatchdogRestartsC ==
    /\ At("restart C") /\ Scanning
    /\ \/ /\ TestLeft
          /\ WatchdogRestarts(1, C)
          /\ TEST_COUNTER' = TEST_COUNTER + 1
          /\ LAST_CHECKIN_TICK' = [LAST_CHECKIN_TICK EXCEPT ![C] = 0]
          /\ IF Current(1) = C
             THEN UNCHANGED <<at, tc>>
             ELSE /\ at' = [at EXCEPT ![C] = 1]
                  /\ tc' = TEST_COUNTER'
       \/ /\ ~TestLeft
          /\ UNCHANGED <<vars, TEST_COUNTER, LAST_CHECKIN_TICK, at, tc>>
    /\ step' = "restart HSM"
    /\ UNCHANGED <<current_tick, loops, faults, unanswered, clockVars>>

\* The HSM is restarted whenever it is found terminated.
WatchdogRestartsHsm ==
    /\ At("restart HSM") /\ Scanning
    /\ \/ /\ KindOf(0, HSM) = "Terminated"
          /\ WatchdogRestarts(0, HSM)
          /\ LAST_CHECKIN_TICK' = [LAST_CHECKIN_TICK EXCEPT ![HSM] = 0]
          /\ at' = [at EXCEPT ![HSM] = 1]
       \/ /\ KindOf(0, HSM) # "Terminated"
          /\ UNCHANGED <<vars, LAST_CHECKIN_TICK, at>>
    /\ step' = "unlock"
    /\ UNCHANGED <<current_tick, TEST_COUNTER, tc, loops, faults, unanswered, clockVars>>

WatchdogEndsScan ==
    /\ At("unlock") /\ WatchdogUnlocks
    /\ step' = "sleep"
    /\ UNCHANGED <<current_tick, programVars, clockVars>>

watchdog_task ==
    \/ WatchdogSleeps \/ WatchdogLoads \/ WatchdogStartsScan \/ WatchdogChecks
    \/ WatchdogRestartsC \/ WatchdogRestartsHsm \/ WatchdogEndsScan

-----------------------------------------------------------------------------

Next_System ==
    \/ \E h \in Hart : Calls(h) \/ Ticks(h) \/ Handles(h)
    \/ HsmFaults
    \/ watchdog_task

Spec_System == Init_System /\ [][Next_System]_systemVars

-----------------------------------------------------------------------------

\* README.md: "the suite runs to completion without a panic or a halted core":
\* neither the unlock assertion nor an unhandled exception stops a hart.
NoPanic == halted = {}

\* README.md: "the watchdog restarts the test runner for the next scenario":
\* when the horizon is reached, task C has been restarted for every test and the
\* watchdog has ended the last one. (A disturbed run may take longer: while the
\* HSM fails at every scan, the scan does not act on task C.)
SuiteCompletes ==
    TICK_COUNT = HORIZON /\ faults + hits = 0 =>
        TEST_COUNTER = TESTS /\ KindOf(1, C) = "Terminated"

\* Task A and the HSM agree on which request is open, across restarts of the
\* HSM: it owes a reply only to a task that waits for it, and task A waits in
\* vain only if the HSM has died with the request.
SigningInStep ==
    /\ Owes => Awaits \/ KindOf(0, A) = "Terminated"
    /\ Awaits => Owes \/ unanswered

\* While the boot grace period lasts, a partition is not restarted while a
\* hart still executes its old instance on the same stack. (Afterwards a scan
\* may find a restarted task C late before it had time to check in.)
RestartIsClean ==
    TICK_COUNT <= GRACE =>
        /\ step = "restart C" /\ TestLeft => Current(1) # C
        /\ step = "restart HSM" /\ KindOf(0, HSM) = "Terminated" => Current(0) # HSM

-----------------------------------------------------------------------------

\* Tasks that stop checking in: task B after LOOPS loops, task C in its tests.
Misbehaves(i) == i = C \/ (i = B /\ loops = LOOPS) \/ (i = HSM /\ unanswered)

\* README.md: a task that "fails to check in (simulating a hang or deadlock)"
\* is terminated, "the rest of the system ... keeps running": the deadline is
\* missed only by a task that has stopped.
OnlyHungTerminated ==
    [][\A i \in Monitored :
         /\ At("check") /\ step' # step
         /\ Failed(i) /\ LAST_CHECKIN_TICK[i] <= current_tick
         => Misbehaves(i)]_systemVars

=============================================================================
