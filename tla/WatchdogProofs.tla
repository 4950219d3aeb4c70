---------------------------- MODULE WatchdogProofs ----------------------------
(* Whom the watchdog may terminate, for any tasks, periods, timeouts, delays  *)
(* and widths of the tick counter.                                            *)
EXTENDS Watchdog, TLAPS

Clock == 0 .. TICK_MOD - 1

\* wrapping_sub on the tick counter.
Elapsed(x, y) == (x + TICK_MOD - y) % TICK_MOD

\* What JustifiedKill asks of a task the scan has found failing.
Justified(i) ==
    \/ age[i] > TIMEOUT + Elapsed(TICK_COUNT, current_tick)
    \/ age[i] <= Elapsed(TICK_COUNT, current_tick)
    \/ i \notin started

Clocks ==
    /\ TICK_COUNT \in Clock /\ current_tick \in Clock
    /\ LAST_CHECKIN_TICK \in [Task -> Clock] /\ age \in [Task -> 0 .. AgeCap]
    /\ slept \in 0 .. PERIOD + LAG
    /\ failed_task \in Task \cup {0} /\ terminated \subseteq Task
    /\ at \in DOMAIN Monitored

\* A task's age is what the counter says, until it reaches its cap.
Ages ==
    \A i \in started \cap Task :
        age[i] = AgeCap \/ age[i] = Elapsed(TICK_COUNT, LAST_CHECKIN_TICK[i])

\* The watchdog's copy of the counter is not older than its last sleep: a scan
\* ends long before the counter can come round to it.
Fresh ==
    pc \notin {"sleep", "tick"} => Elapsed(TICK_COUNT, current_tick) <= slept

\* JustifiedKill speaks of the step that terminates; between the scan's verdict
\* and that step the counter runs and the task may check in.
WInv ==
    /\ Clocks /\ Ages /\ Fresh
    /\ pc \in {"scan", "terminate"} /\ failed_task # 0 => Justified(failed_task)

-----------------------------------------------------------------------------
(* The counter                                                              *)

\* % on values below twice the modulus.
LEMMA ModFacts ==
    ASSUME NEW m \in Nat, m > 0
    PROVE  /\ \A x \in 0 .. m - 1 : x % m = x
           /\ \A x \in m .. 2 * m - 1 : x % m = x - m
OBVIOUS

\* The constants leave room: no age and no delay reaches the modulus.
LEMMA Room ==
    /\ TICK_MOD \in Nat /\ TICK_MOD > 0
    /\ AgeCap \in Nat /\ AgeCap < TICK_MOD - 1 /\ PERIOD + LAG \in Nat
    /\ AgeCap = TIMEOUT + PERIOD + LAG + 1
    /\ TIMEOUT \in Nat /\ GRACE \in Nat /\ TIMEOUT <= GRACE
    /\ PERIOD \in Nat /\ LAG \in Nat
    /\ 0 \notin Task /\ 0 \in Clock
BY WatchdogAssumption DEF AgeCap, Clock, Task

\* Elapsed time without %.
LEMMA ElapsedFacts ==
    ASSUME NEW x \in Clock, NEW y \in Clock
    PROVE  Elapsed(x, y) = IF x >= y THEN x - y ELSE x + TICK_MOD - y
<1>1. CASE x >= y
  <2>1. x + TICK_MOD - y \in TICK_MOD .. 2 * TICK_MOD - 1
    BY <1>1, Room DEF Clock
  <2>2. QED
    BY <1>1, <2>1, Room, ModFacts DEF Elapsed, Clock
<1>2. CASE ~(x >= y)
  <2>1. x + TICK_MOD - y \in 0 .. TICK_MOD - 1
    BY <1>2, Room DEF Clock
  <2>2. QED
    BY <1>2, <2>1, Room, ModFacts DEF Elapsed
<1>3. QED
  BY <1>1, <1>2

\* A tick adds one to the elapsed time, but for the one that completes a round.
LEMMA TickFacts ==
    ASSUME NEW x \in Clock, NEW y \in Clock
    PROVE  /\ (x + 1) % TICK_MOD \in Clock
           /\ Elapsed(x, y) \in Clock /\ Elapsed(x, x) = 0
           /\ Elapsed(x, y) < TICK_MOD - 1 =>
                 Elapsed((x + 1) % TICK_MOD, y) = Elapsed(x, y) + 1
<1>1. (x + 1) % TICK_MOD = IF x = TICK_MOD - 1 THEN 0 ELSE x + 1
  <2>1. CASE x = TICK_MOD - 1
    <3>1. x + 1 \in TICK_MOD .. 2 * TICK_MOD - 1 /\ x + 1 - TICK_MOD = 0
      BY <2>1, Room
    <3>2. QED
      BY <2>1, <3>1, Room, ModFacts
  <2>2. CASE x # TICK_MOD - 1
    <3>1. x + 1 \in 0 .. TICK_MOD - 1
      BY <2>2, Room DEF Clock
    <3>2. QED
      BY <2>2, <3>1, Room, ModFacts
  <2>3. QED
    BY <2>1, <2>2
<1>2. PICK z \in Clock : z = (x + 1) % TICK_MOD /\ z = IF x = TICK_MOD - 1 THEN 0 ELSE x + 1
  BY <1>1, Room DEF Clock
<1>3. /\ Elapsed(x, y) = IF x >= y THEN x - y ELSE x + TICK_MOD - y
      /\ Elapsed(z, y) = IF z >= y THEN z - y ELSE z + TICK_MOD - y
      /\ Elapsed(x, x) = 0
  BY ElapsedFacts DEF Clock
<1>4. Elapsed(x, y) \in Clock /\ (Elapsed(x, y) < TICK_MOD - 1 => Elapsed(z, y) = Elapsed(x, y) + 1)
  BY <1>2, <1>3, Room DEF Clock
<1>5. QED
  BY <1>2, <1>3, <1>4

\* The scan's verdict, in terms of the task's age.
LEMMA OverdueFacts ==
    ASSUME Clocks, Ages, pc = "scan", Fresh, NEW i \in Task, Overdue(i)
    PROVE  Justified(i)
<1> SUFFICES ASSUME i \in started PROVE Justified(i)
  BY DEF Justified
<1> DEFINE T == TICK_COUNT
           c == current_tick
           last == LAST_CHECKIN_TICK[i]
<1>1. T \in Clock /\ c \in Clock /\ last \in Clock /\ Elapsed(T, c) <= PERIOD + LAG
  BY TickFacts, Room DEF Clocks, Fresh, Clock
<1>2. CASE age[i] = AgeCap
  BY <1>1, <1>2, TickFacts, Room DEF Justified, Clock
<1>3. CASE age[i] = Elapsed(T, last)
  <2>1. /\ Elapsed(T, c) = IF T >= c THEN T - c ELSE T + TICK_MOD - c
        /\ Elapsed(T, last) = IF T >= last THEN T - last ELSE T + TICK_MOD - last
        /\ Elapsed(c, last) = IF c >= last THEN c - last ELSE c + TICK_MOD - last
    BY <1>1, ElapsedFacts
  <2>2. Elapsed(c, last) > TIMEOUT
    <3>1. CASE last = 0
      BY <1>1, <2>1, <3>1, Room DEF Overdue, Clock
    <3>2. CASE last # 0
      BY <3>2 DEF Overdue, Elapsed
    <3>3. QED
      BY <3>1, <3>2
  <2>3. \/ Elapsed(T, last) > TIMEOUT + Elapsed(T, c)
        \/ Elapsed(T, last) <= Elapsed(T, c)
    BY <1>1, <2>1, <2>2, Room DEF Clock
  <2>4. QED
    BY <1>3, <2>3 DEF Justified
<1>4. QED
  BY <1>2, <1>3 DEF Ages

-----------------------------------------------------------------------------
(* The steps                                                                *)

\* A tick, between any two steps of the watchdog.
LEMMA TickStep ==
    ASSUME WInv, Tick
    PROVE  WInv'
<1> DEFINE e == Elapsed(TICK_COUNT, current_tick)
<1>1. /\ TICK_COUNT \in Clock /\ current_tick \in Clock
      /\ LAST_CHECKIN_TICK \in [Task -> Clock] /\ age \in [Task -> 0 .. AgeCap]
      /\ slept \in 0 .. PERIOD + LAG /\ slept < PERIOD + LAG /\ slept' = slept + 1
      /\ TICK_COUNT' = (TICK_COUNT + 1) % TICK_MOD
      /\ \A i \in Task : age'[i] = IF age[i] < AgeCap THEN age[i] + 1 ELSE AgeCap
  BY DEF WInv, Clocks, Tick
<1>2. Clocks'
  <2>1. TICK_COUNT' \in Clock
    BY <1>1, TickFacts, Zenon
  <2>2. age' \in [Task -> 0 .. AgeCap]
    BY <1>1, Room DEF Tick
  <2>3. QED
    BY <1>1, <2>1, <2>2, Room DEF WInv, Clocks, Tick
<1>3. ASSUME NEW i \in started \cap Task
      PROVE  age'[i] = AgeCap \/ age'[i] = Elapsed(TICK_COUNT', LAST_CHECKIN_TICK[i])
  <2>1. CASE age[i] = AgeCap
    BY <1>1, <2>1, Room
  <2>2. CASE age[i] # AgeCap
    <3>1. LAST_CHECKIN_TICK[i] \in Clock /\ age[i] = Elapsed(TICK_COUNT, LAST_CHECKIN_TICK[i])
      BY <1>1, <2>2 DEF WInv, Ages
    <3>2. age[i] \in 0 .. AgeCap /\ age[i] < AgeCap /\ age'[i] = age[i] + 1
      BY <1>1, <2>2, Room
    <3>3. Elapsed(TICK_COUNT', LAST_CHECKIN_TICK[i]) = Elapsed(TICK_COUNT, LAST_CHECKIN_TICK[i]) + 1
      BY <1>1, <3>1, <3>2, TickFacts, Room DEF Clock
    <3>4. QED
      BY <3>1, <3>2, <3>3
  <2>3. QED
    BY <2>1, <2>2
<1>4. Ages'
  BY <1>3 DEF Ages, Tick
<1>5. ASSUME pc \notin {"sleep", "tick"}
      PROVE  /\ e \in Nat /\ e <= slept
             /\ Elapsed(TICK_COUNT', current_tick) = e + 1
  BY <1>1, <1>5, TickFacts, Room DEF WInv, Fresh, Clock
<1>6. Fresh'
  BY <1>1, <1>5 DEF Fresh, Tick
<1>7. ASSUME pc \in {"scan", "terminate"}, failed_task # 0
      PROVE  Justified(failed_task)'
  <2>1. failed_task \in Task /\ Justified(failed_task)
    BY <1>7 DEF WInv, Clocks
  <2>2. age[failed_task] \in 0 .. AgeCap
    BY <1>1, <2>1
  <2>3. /\ failed_task' = failed_task /\ current_tick' = current_tick /\ started' = started
        /\ age'[failed_task] = IF age[failed_task] < AgeCap THEN age[failed_task] + 1 ELSE AgeCap
        /\ e \in Nat /\ e <= slept /\ Elapsed(TICK_COUNT', current_tick) = e + 1
    BY <1>1, <1>5, <1>7, <2>1 DEF Tick
  <2>4. QED
    BY <1>1, <2>1, <2>2, <2>3, Room DEF Justified
<1>8. QED
  BY <1>2, <1>4, <1>6, <1>7 DEF WInv, Tick

\* A check-in, also one between the scan and the termination.
LEMMA CheckInStep ==
    ASSUME WInv, NEW i \in Task, CheckIn(i)
    PROVE  WInv'
<1>1. /\ TICK_COUNT \in Clock /\ current_tick \in Clock /\ TICK_COUNT' = TICK_COUNT
      /\ LAST_CHECKIN_TICK \in [Task -> Clock] /\ age \in [Task -> 0 .. AgeCap]
      /\ LAST_CHECKIN_TICK' = [LAST_CHECKIN_TICK EXCEPT ![i] = TICK_COUNT]
      /\ age' = [age EXCEPT ![i] = 0] /\ started' = started \cup {i}
      /\ UNCHANGED <<current_tick, pc, failed_task, slept, terminated, at>>
  BY DEF WInv, Clocks, CheckIn
<1>2. Clocks'
  BY <1>1, Room DEF WInv, Clocks
<1>3. Elapsed(TICK_COUNT, TICK_COUNT) = 0 /\ Elapsed(TICK_COUNT, current_tick) \in Nat
  <2>1. Elapsed(TICK_COUNT, TICK_COUNT) = 0 /\ Elapsed(TICK_COUNT, current_tick) \in Clock
    BY <1>1, TickFacts
  <2>2. QED
    BY <2>1, Room DEF Clock
<1>4. Ages'
  BY <1>1, <1>3 DEF WInv, Ages
<1>5. Fresh'
  BY <1>1 DEF WInv, Fresh
<1>6. ASSUME pc \in {"scan", "terminate"}, failed_task # 0
      PROVE  Justified(failed_task)'
  <2>1. failed_task \in Task /\ Justified(failed_task)
    BY <1>6 DEF WInv, Clocks
  <2>2. CASE failed_task = i
    BY <1>1, <1>3, <2>2 DEF Justified
  <2>3. CASE failed_task # i
    BY <1>1, <2>1, <2>3 DEF Justified
  <2>4. QED
    BY <2>2, <2>3
<1>7. QED
  BY <1>1, <1>2, <1>4, <1>5, <1>6 DEF WInv

\* A step of the scan.
LEMMA ScanStep ==
    ASSUME WInv, Scan
    PROVE  WInv'
<1> DEFINE i == Monitored[at]
<1>1. i \in Task /\ at \in DOMAIN Monitored
  BY DEF WInv, Clocks, Task
<1>2. /\ failed_task' = IF i \notin terminated /\ Overdue(i) THEN i ELSE failed_task
      /\ pc = "scan" /\ pc' \in {"scan", "terminate"}
      /\ UNCHANGED <<TICK_COUNT, LAST_CHECKIN_TICK, current_tick, slept, age, started, terminated>>
  BY DEF Scan
<1>3. at' \in DOMAIN Monitored
  BY <1>1, WatchdogAssumption DEF Scan
<1>4. Clocks' /\ Ages' /\ Fresh'
  BY <1>1, <1>2, <1>3 DEF WInv, Clocks, Ages, Fresh
<1>5. failed_task' # 0 => Justified(failed_task')
  BY <1>1, <1>2, OverdueFacts DEF WInv
<1>6. failed_task' # 0 => Justified(failed_task)'
  BY <1>2, <1>5 DEF Justified
<1>7. QED
  BY <1>4, <1>6 DEF WInv

\* A restart of task i, or nothing, outside the scan.
LEMMA RestartStep ==
    ASSUME WInv, NEW i, pc \in {"restart_c", "restart_hsm"}, pc' \in {"restart_hsm", "unlock"},
           UNCHANGED <<TICK_COUNT, at, current_tick, failed_task, slept>>,
           \/ i \in terminated /\ Restarted(i)
           \/ UNCHANGED <<terminated, LAST_CHECKIN_TICK, age, started>>
    PROVE  WInv'
<1>1. CASE i \in terminated /\ Restarted(i)
  <2>1. Clocks'
    BY <1>1, Room DEF WInv, Clocks, Restarted
  <2>2. Ages'
    BY <1>1 DEF WInv, Clocks, Ages, Restarted
  <2>3. QED
    BY <2>1, <2>2 DEF WInv, Fresh
<1>2. CASE UNCHANGED <<terminated, LAST_CHECKIN_TICK, age, started>>
  BY <1>2 DEF WInv, Clocks, Ages, Fresh
<1>3. QED
  BY <1>1, <1>2

\* Every step keeps the account of ages and verdicts.
LEMMA WatchdogInductive ==
    ASSUME WInv, [Next]_vars
    PROVE  WInv'
<1>1. CASE UNCHANGED vars
  BY <1>1 DEF vars, WInv, Clocks, Ages, Fresh, Justified
<1>2. CASE Tick
  BY <1>2, TickStep
<1>3. ASSUME NEW i \in Task, CheckIn(i) PROVE WInv'
  BY <1>3, CheckInStep
<1>4. ASSUME NEW i \in Task, Hang(i) \/ Fault(i) \/ Descheduled(i) PROVE WInv'
  BY <1>4 DEF Hang, Fault, Descheduled, WInv, Clocks, Ages, Fresh, Justified
<1>5. CASE Wakes
  BY <1>5 DEF Wakes, WInv, Clocks, Ages, Fresh
<1>6. CASE LoadTick
  <2>1. Elapsed(TICK_COUNT, TICK_COUNT) = 0 /\ 0 <= slept
    BY TickFacts, Room DEF WInv, Clocks
  <2>2. QED
    BY <1>6, <2>1 DEF LoadTick, WInv, Clocks, Ages, Fresh
<1>7. CASE Lock
  BY <1>7, WatchdogAssumption DEF Lock, WInv, Clocks, Ages, Fresh
<1>8. CASE Scan
  BY <1>8, ScanStep
<1>9. CASE Terminate
  BY <1>9, Room DEF Terminate, WInv, Clocks, Ages, Fresh
<1>10. CASE RestartC
  BY <1>10, RestartStep DEF RestartC
<1>11. CASE RestartHSM
  BY <1>11, RestartStep DEF RestartHSM
<1>12. CASE UnlockAndSleep
  BY <1>12, Room DEF UnlockAndSleep, WInv, Clocks, Ages, Fresh
<1>13. QED
  BY <1>1, <1>2, <1>3, <1>4, <1>5, <1>6, <1>7, <1>8, <1>9, <1>10, <1>11, <1>12
     DEF Next, WatchdogStep

\* It holds at the start.
LEMMA WatchdogInit == Init => WInv
BY Room, WatchdogAssumption DEF Init, WInv, Clocks, Ages, Fresh

\* Who is terminated, hung or executed by the other hart nevertheless. A hung
\* task is never a terminated one, so Descheduled cannot strand it.
Roles ==
    /\ started \subseteq Task /\ zombie \subseteq Task \ HART0
    /\ hung \subseteq Task /\ hung \cap terminated = {}
    /\ TEST_COUNTER \in 0 .. 2 /\ pc \in PC

\* Every step keeps the roles apart: sys_terminate_task and a contained fault
\* take a hung task out of its loop, and task C is restarted at most twice.
LEMMA RolesStep ==
    ASSUME WInv, Roles, [Next]_vars
    PROVE  Roles'
<1>1. CASE UNCHANGED vars
  BY <1>1 DEF vars, Roles
<1>2. CASE Tick \/ Wakes \/ LoadTick \/ Lock \/ Scan \/ UnlockAndSleep
  BY <1>2 DEF Tick, Wakes, LoadTick, Lock, Scan, UnlockAndSleep, Roles, PC
<1>3. ASSUME NEW i \in Task, CheckIn(i) \/ Hang(i) \/ Fault(i) \/ Descheduled(i)
      PROVE  Roles'
  BY <1>3 DEF CheckIn, Hang, Fault, Descheduled, Roles
<1>4. CASE Terminate
  BY <1>4 DEF Terminate, Roles, PC, WInv, Clocks
<1>5. CASE RestartC \/ RestartHSM
  BY <1>5 DEF RestartC, RestartHSM, Restarted, Roles, PC
<1>6. QED
  BY <1>1, <1>2, <1>3, <1>4, <1>5 DEF Next, WatchdogStep

\* Every state component keeps its type, for any tasks and timing: the counters
\* stay in u32, the scan inside its list, and no task is both terminated for
\* good and still counted as hung.
THEOREM TypeCorrect == Spec => []TypeOK
<1>1. Init => Roles
  BY DEF Init, Roles, PC
<1>2. WInv /\ Roles => TypeOK
  BY DEF WInv, Clocks, Clock, Roles, TypeOK
<1>3. WInv /\ [Next]_vars => WInv'
  BY WatchdogInductive
<1>4. WInv /\ Roles /\ [Next]_vars => Roles'
  BY RolesStep
<1>5. QED
  BY <1>1, <1>2, <1>3, <1>4, WatchdogInit, PTL DEF Spec

\* For any tasks, timing and counter width, over wrap-around of the counter,
\* restarts and check-ins that race the scan: watchdog_task terminates a task only
\* if it had missed its deadline when the tick was loaded, checked in after
\* that, or has not checked in since its start.
THEOREM KillsAreJustified == Spec => JustifiedKill
<1>1. WInv /\ [Next]_vars => WInv'
  BY WatchdogInductive
<1>2. WInv /\ [Next]_vars =>
        [Kills => \/ age[failed_task] > TIMEOUT + Stale
                  \/ age[failed_task] <= Stale
                  \/ failed_task \notin started]_vars
  BY DEF WInv, Kills, Justified, Stale, Elapsed
<1>3. QED
  BY <1>1, <1>2, WatchdogInit, PTL DEF Spec, JustifiedKill

=============================================================================
