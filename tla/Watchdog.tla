------------------------------- MODULE Watchdog -------------------------------
(***************************************************************************)
(* The logical watchdog: watchdog_task of kernel/src/main.rs step by step, *)
(* against the check-ins (syscall 5), faults and hangs of the tasks it     *)
(* supervises and the tick counter that runs meanwhile.                    *)
(*                                                                         *)
(* The task tables are abstracted to what the scan tells apart: terminated *)
(* or not.  The watchdog's sleep is modelled by its promise, a wake-up     *)
(* PERIOD ticks later at the earliest; the iteration then ends within LAG  *)
(* more ticks (module HartScheduler bounds how long a Ready task waits).   *)
(***************************************************************************)
EXTENDS Naturals, Sequences

CONSTANTS
    Monitored,  \* the slots the scan looks at, in its order (<<1, 2, 3, 4>>)
    HART0,      \* those of the watchdog's own hart ({1, 4})
    PERIOD,     \* argument of sleep_ticks (100)
    TIMEOUT,    \* ticks allowed between check-ins (200)
    GRACE,      \* ticks allowed before the first check-in (1000)
    LAG,        \* ticks by which an iteration may end after PERIOD
    TICK_MOD    \* the tick counter is a u32

TASK_A == 1
TASK_C == 3
HSM    == 4

Task == {Monitored[k] : k \in DOMAIN Monitored}

ASSUME WatchdogAssumption ==
    /\ Monitored \in Seq(Nat \ {0}) /\ Monitored # <<>>
    /\ HART0 \subseteq Task
    /\ PERIOD \in Nat /\ TIMEOUT \in Nat /\ GRACE \in Nat /\ LAG \in Nat
    /\ PERIOD > 0 /\ TIMEOUT <= GRACE
    /\ TICK_MOD \in Nat /\ TICK_MOD > GRACE + 3 * (PERIOD + 2 * LAG)

VARIABLES
    TICK_COUNT,         \* the tick counter
    LAST_CHECKIN_TICK,  \* per task; 0 stands for "not checked in yet"
    terminated,         \* tasks whose state is Terminated
    zombie,             \* terminated tasks the other hart still executes
    TEST_COUNTER,       \* restarts of task C so far
    pc,                 \* where the watchdog is
    at,                 \* position of the scan in Monitored
    current_tick,       \* the watchdog's local copy of TICK_COUNT
    failed_task,        \* the failing task the scan found, or 0
    slept,              \* history: ticks since the last call of sleep_ticks
    age,                \* history: ticks since check-in or (re)start, capped
    started,            \* history: tasks that have checked in since (re)start
    hung                \* tasks that will not check in again

vars == <<TICK_COUNT, LAST_CHECKIN_TICK, terminated, zombie, TEST_COUNTER, pc, at,
          current_tick, failed_task, slept, age, started, hung>>

PC == {"sleep", "tick", "lock", "scan", "terminate", "restart_c", "restart_hsm", "unlock"}

AgeCap == TIMEOUT + PERIOD + LAG + 1

Init ==
    /\ TICK_COUNT = 0
    /\ LAST_CHECKIN_TICK = [i \in Task |-> 0]
    /\ terminated = {} /\ zombie = {} /\ started = {} /\ hung = {}
    /\ TEST_COUNTER = 0
    /\ pc = "sleep" /\ at = 1 /\ current_tick = 0 /\ failed_task = 0
    /\ slept = 0
    /\ age = [i \in Task |-> 0]

-----------------------------------------------------------------------------
(* The environment                                                          *)

\* The watchdog holds SCHED_LOCK.
Locked == pc \in {"scan", "terminate", "restart_c", "restart_hsm", "unlock"}

\* A trap handler entered by task i gets SCHED_LOCK: always on the watchdog's
\* own hart, where the lock is reentrant.
Enters(i) == Locked => i \in HART0

\* A timer interrupt on either hart, as far as the watchdog can see.
Tick ==
    /\ slept < PERIOD + LAG
    /\ TICK_COUNT' = (TICK_COUNT + 1) % TICK_MOD
    /\ slept' = slept + 1
    /\ age' = [i \in Task |-> IF age[i] < AgeCap THEN age[i] + 1 ELSE AgeCap]
    /\ UNCHANGED <<LAST_CHECKIN_TICK, terminated, zombie, TEST_COUNTER, pc, at,
                   current_tick, failed_task, started, hung>>

\* Syscall 5. It does not look at the task's state, so a terminated task that
\* its hart still executes checks in as well. The HSM task checks in when it
\* starts and then once per request, and its requests come from task A.
CheckIn(i) ==
    /\ Enters(i) /\ i \notin hung
    /\ i \in terminated => i \in zombie
    /\ i = HSM /\ HSM \in started => TASK_A \notin terminated \cup hung
    /\ LAST_CHECKIN_TICK' = [LAST_CHECKIN_TICK EXCEPT ![i] = TICK_COUNT]
    /\ age' = [age EXCEPT ![i] = 0]
    /\ started' = started \cup {i}
    /\ UNCHANGED <<TICK_COUNT, terminated, zombie, TEST_COUNTER, pc, at,
                   current_tick, failed_task, slept, hung>>

\* Task i enters a loop without a check-in.
Hang(i) ==
    /\ i \notin terminated
    /\ i = HSM => HSM \in started
    /\ hung' = hung \cup {i}
    /\ UNCHANGED <<TICK_COUNT, LAST_CHECKIN_TICK, terminated, zombie, TEST_COUNTER, pc,
                   at, current_tick, failed_task, slept, age, started>>

\* A contained fault terminates the task.
Fault(i) ==
    /\ Enters(i) /\ i \notin terminated
    /\ terminated' = terminated \cup {i}
    /\ hung' = hung \ {i}
    /\ UNCHANGED <<TICK_COUNT, LAST_CHECKIN_TICK, zombie, TEST_COUNTER, pc, at,
                   current_tick, failed_task, slept, age, started>>

\* The other hart leaves the terminated task.
Descheduled(i) ==
    /\ ~Locked /\ i \in zombie
    /\ zombie' = zombie \ {i}
    /\ UNCHANGED <<TICK_COUNT, LAST_CHECKIN_TICK, terminated, TEST_COUNTER, pc, at,
                   current_tick, failed_task, slept, age, started, hung>>

-----------------------------------------------------------------------------
(* The watchdog's loop                                                      *)

\* It is dispatched again after its sleep. The HSM task shares its hart, so a
\* restarted one has had its turn in between, and checked in.
Wakes ==
    /\ pc = "sleep" /\ slept >= PERIOD
    /\ HSM \in Task => HSM \in started \cup terminated
    /\ pc' = "tick"
    /\ UNCHANGED <<TICK_COUNT, LAST_CHECKIN_TICK, terminated, zombie, TEST_COUNTER, at,
                   current_tick, failed_task, slept, age, started, hung>>

LoadTick ==
    /\ pc = "tick" /\ pc' = "lock"
    /\ current_tick' = TICK_COUNT
    /\ UNCHANGED <<TICK_COUNT, LAST_CHECKIN_TICK, terminated, zombie, TEST_COUNTER, at,
                   failed_task, slept, age, started, hung>>

Lock ==
    /\ pc = "lock" /\ pc' = "scan"
    /\ at' = 1 /\ failed_task' = 0
    /\ UNCHANGED <<TICK_COUNT, LAST_CHECKIN_TICK, terminated, zombie, TEST_COUNTER,
                   current_tick, slept, age, started, hung>>

\* Slip: the limit itself is already too late.
Overdue_AtLimit(i) ==
    LET last == LAST_CHECKIN_TICK[i] IN
    IF last = 0 THEN current_tick > GRACE
                ELSE (current_tick + TICK_MOD - last) % TICK_MOD >= TIMEOUT

\* Slip: a task that has not checked in yet is never overdue.
Overdue_ZeroSkipped(i) ==
    LET last == LAST_CHECKIN_TICK[i] IN
    last # 0 /\ (current_tick + TICK_MOD - last) % TICK_MOD > TIMEOUT

\* The deadline test, in u32 arithmetic.
Overdue(i) ==
    LET last == LAST_CHECKIN_TICK[i] IN
    IF last = 0 THEN current_tick > GRACE
                ELSE (current_tick + TICK_MOD - last) % TICK_MOD > TIMEOUT

\* One block of the scan. A later failing task replaces an earlier one.
Scan ==
    LET i == Monitored[at] IN
    /\ pc = "scan"
    /\ failed_task' = IF i \notin terminated /\ Overdue(i) THEN i ELSE failed_task
    /\ IF at < Len(Monitored) THEN at' = at + 1 /\ pc' = pc
                              ELSE at' = 1 /\ pc' = "terminate"
    /\ UNCHANGED <<TICK_COUNT, LAST_CHECKIN_TICK, terminated, zombie, TEST_COUNTER,
                   current_tick, slept, age, started, hung>>

\* sys_terminate_task(failed_prio), if check_failed.
Terminate ==
    /\ pc = "terminate" /\ pc' = "restart_c"
    /\ failed_task' = 0
    /\ IF failed_task = 0
       THEN UNCHANGED <<terminated, zombie, hung>>
       ELSE /\ terminated' = terminated \cup {failed_task}
            /\ zombie' = zombie \cup ({failed_task} \ HART0)
            /\ hung' = hung \ {failed_task}
    /\ UNCHANGED <<TICK_COUNT, LAST_CHECKIN_TICK, TEST_COUNTER, at, current_tick,
                   slept, age, started>>

\* The terminated task i gets a fresh stack and is Ready again.
Restarted(i) ==
    /\ terminated' = terminated \ {i}
    /\ LAST_CHECKIN_TICK' = [LAST_CHECKIN_TICK EXCEPT ![i] = 0]
    /\ age' = [age EXCEPT ![i] = 0]
    /\ started' = started \ {i}

\* Slip: no limit on the restarts.
RestartC_NoLimit ==
    /\ pc = "restart_c" /\ pc' = "restart_hsm"
    /\ IF TASK_C \in terminated
       THEN Restarted(TASK_C) /\ TEST_COUNTER' = TEST_COUNTER + 1
       ELSE UNCHANGED <<terminated, LAST_CHECKIN_TICK, age, started, TEST_COUNTER>>
    /\ UNCHANGED <<TICK_COUNT, zombie, at, current_tick, failed_task, slept, hung>>

RestartC ==
    /\ pc = "restart_c" /\ pc' = "restart_hsm"
    /\ IF TASK_C \in terminated /\ TEST_COUNTER < 2
       THEN Restarted(TASK_C) /\ TEST_COUNTER' = TEST_COUNTER + 1
       ELSE UNCHANGED <<terminated, LAST_CHECKIN_TICK, age, started, TEST_COUNTER>>
    /\ UNCHANGED <<TICK_COUNT, zombie, at, current_tick, failed_task, slept, hung>>

RestartHSM ==
    /\ pc = "restart_hsm" /\ pc' = "unlock"
    /\ IF HSM \in terminated
       THEN Restarted(HSM)
       ELSE UNCHANGED <<terminated, LAST_CHECKIN_TICK, age, started>>
    /\ UNCHANGED <<TICK_COUNT, zombie, TEST_COUNTER, at, current_tick, failed_task,
                   slept, hung>>

\* The guard is dropped, and the loop begins again with sleep_ticks.
UnlockAndSleep ==
    /\ pc = "unlock" /\ pc' = "sleep"
    /\ slept' = 0
    /\ UNCHANGED <<TICK_COUNT, LAST_CHECKIN_TICK, terminated, zombie, TEST_COUNTER, at,
                   current_tick, failed_task, age, started, hung>>

-----------------------------------------------------------------------------

WatchdogStep ==
    \/ Wakes \/ LoadTick \/ Lock \/ Scan \/ Terminate \/ RestartC \/ RestartHSM
    \/ UnlockAndSleep

Next ==
    \/ WatchdogStep \/ Tick
    \/ \E i \in Task : CheckIn(i) \/ Hang(i) \/ Fault(i) \/ Descheduled(i)

Spec == Init /\ [][Next]_vars

\* Time passes, the watchdog is dispatched when it is Ready and its loop body
\* is straight-line code, and a restarted HSM task is dispatched.
FairSpec ==
    /\ Spec
    /\ WF_vars(Tick) /\ WF_vars(WatchdogStep)
    /\ HSM \in Task => WF_vars(HSM \notin started /\ CheckIn(HSM))

-----------------------------------------------------------------------------
(* Properties *)

\* Every state component has its type.
TypeOK ==
    /\ TICK_COUNT \in 0 .. TICK_MOD - 1 /\ current_tick \in 0 .. TICK_MOD - 1
    /\ LAST_CHECKIN_TICK \in [Task -> 0 .. TICK_MOD - 1]
    /\ terminated \subseteq Task /\ started \subseteq Task
    /\ zombie \subseteq Task \ HART0 /\ hung \subseteq Task \ (terminated \ zombie)
    /\ TEST_COUNTER \in 0 .. 2
    /\ pc \in PC /\ at \in DOMAIN Monitored
    /\ failed_task \in Task \cup {0}
    /\ slept \in 0 .. PERIOD + LAG
    /\ age \in [Task -> 0 .. AgeCap]

\* This step is a termination by the watchdog.
Kills == pc = "terminate" /\ pc' = "restart_c" /\ failed_task # 0

\* Ticks since the watchdog loaded its current_tick.
Stale == (TICK_COUNT + TICK_MOD - current_tick) % TICK_MOD

\* What the deadline test does ensure across counter wrap-around, restarts
\* and check-ins racing the scan: a task the watchdog terminates had missed
\* its deadline when the tick was loaded, or checked in only after that (its
\* elapsed time then wraps around), or has never checked in since its start.
JustifiedKill ==
    [][Kills => \/ age[failed_task] > TIMEOUT + Stale
                \/ age[failed_task] <= Stale
                \/ failed_task \notin started]_vars

\* README.md: a task is given up when "the elapsed ticks since a task's last
\* check-in exceed the allowed threshold (200 ticks)": a task that has checked
\* in within the timeout is never terminated by the watchdog. Not so for a
\* check-in after LoadTick: JustifiedKill is what holds.
HealthyStays ==
    [][Kills /\ failed_task \in started => age[failed_task] > TIMEOUT]_vars

\* README.md: "If a task fails to check in (simulating a hang or deadlock),
\* the watchdog terminates *only that task*": a hung task is terminated in
\* the end, although one scan terminates only the last task it finds failing.
HungIsTerminated == \A i \in Task : i \in hung ~> i \notin hung

=============================================================================
