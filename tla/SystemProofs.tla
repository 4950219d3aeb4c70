---------------------------- MODULE SystemProofs ----------------------------
(***************************************************************************)
(* The booted system implements Kernel, so that what KernelProofs shows    *)
(* holds of it, for every timing of the watchdog, every number of          *)
(* interrupted computations and HSM faults, and every horizon.  Then what  *)
(* its programs add: restarts within the grace period are clean, and task  *)
(* A and the HSM stay in step.                                             *)
(***************************************************************************)
EXTENDS System, KernelProofs

-----------------------------------------------------------------------------
(* The inductive invariant                                                  *)

\* Every program counter is inside its program.
ProgramInv ==
    /\ at \in [Monitored -> Nat]
    /\ at[A] \in 1 .. 9 /\ at[B] \in 1 .. 3 /\ at[HSM] \in 1 .. 3
    /\ tc = 0 => at[C] \in 1 .. 5
    /\ tc = 1 => at[C] = 1
    /\ tc \notin {0, 1} => at[C] \in 1 .. 2
    /\ tc \in Nat /\ TEST_COUNTER \in Nat
    /\ unanswered \in BOOLEAN

-----------------------------------------------------------------------------
(* The programs                                                             *)

\* The four partitions, their harts and their slots.
LEMMA PartitionFacts ==
    /\ Monitored = {1, 2, 3, 4} /\ A = 1 /\ B = 2 /\ C = 3 /\ HSM = 4
    /\ Monitored \subseteq Slot \ {WATCHDOG, IDLE} /\ Monitored \subseteq Targets
    /\ A \in Tasks[0] /\ HSM \in Tasks[0] /\ B \in Tasks[1] /\ C \in Tasks[1]
    /\ A \notin Tasks[1] /\ HSM \notin Tasks[1] /\ B \notin Tasks[0] /\ C \notin Tasks[0]
    /\ Hart = {0, 1} /\ WATCHDOG = 0
<1>1. Monitored = {1, 2, 3, 4} /\ A = 1 /\ B = 2 /\ C = 3 /\ HSM = 4
  BY Zenon DEF Monitored, A, B, C, HSM
<1>2. Monitored \subseteq Targets /\ Monitored \subseteq Slot \ {WATCHDOG, IDLE}
  BY RegistrationAssumption, KernelAssumption, Zenon
<1>3. A \in Tasks[0] /\ HSM \in Tasks[0] /\ B \in Tasks[1] /\ C \in Tasks[1]
  BY <1>1, RegistrationAssumption DEF HartOf
<1>4. QED
  BY <1>1, <1>2, <1>3, KernelAssumption, Zenon DEF Hart, WATCHDOG

\* Task A's calls, one by one.
LEMMA CallsOfA ==
    /\ at[A] = 1 => NextCall(A) = <<"checkin", 0>> /\ After(A) = 2
    /\ at[A] = 2 => NextCall(A) = <<"lock", 0>> /\ After(A) = 3
    /\ at[A] = 3 => NextCall(A) = <<"unlock", 0>> /\ After(A) = 4
    /\ at[A] = 4 => NextCall(A) = <<"send", 2>> /\ After(A) = 5
    /\ at[A] = 5 => NextCall(A) = <<"recv", 3>> /\ After(A) = 6
    /\ at[A] = 6 => NextCall(A) = <<"send", 2>> /\ After(A) = 7
    /\ at[A] = 7 => NextCall(A) = <<"recv", 3>> /\ After(A) = 8
    /\ at[A] = 8 => NextCall(A) = <<"send", 0>> /\ After(A) = 9
    /\ at[A] = 9 => NextCall(A) = <<"yield", 0>> /\ After(A) = 1
<1>1. Program(A) = task_a
  BY DEF Program, A, B, C, HSM
<1>2. Len(Program(A)) = 9
  BY <1>1 DEF task_a
<1>3. QED
  BY <1>1, <1>2 DEF NextCall, After, task_a

\* The HSM's calls.
LEMMA CallsOfHsm ==
    /\ at[HSM] = 1 => NextCall(HSM) = <<"checkin", 0>> /\ After(HSM) = 2
    /\ at[HSM] = 2 => NextCall(HSM) = <<"recv", 2>> /\ After(HSM) = 3
    /\ at[HSM] = 3 => NextCall(HSM) = <<"send", 3>> /\ After(HSM) = 1
<1>1. Program(HSM) = hsm_task
  BY DEF Program, A, B, C, HSM
<1>2. Len(Program(HSM)) = 3
  BY <1>1 DEF hsm_task
<1>3. QED
  BY <1>1, <1>2 DEF NextCall, After, hsm_task

\* Task B's calls.
LEMMA CallsOfB ==
    /\ at[B] = 1 => NextCall(B) = <<"recv", 0>> /\ After(B) = 2
    /\ at[B] = 2 => NextCall(B)[1] \in {"checkin", "hang"} /\ After(B) = 3
    /\ at[B] = 3 => NextCall(B) = <<"yield", 0>> /\ After(B) = 1
<1>1. Program(B) = task_b
  BY DEF Program, A, B, C, HSM
<1>2. Len(Program(B)) = 3
  BY <1>1 DEF task_b
<1>3. QED
  BY <1>1, <1>2 DEF NextCall, After, task_b

\* Task C's calls: none of them is a send or a receive.
LEMMA CallsOfC ==
    ASSUME ProgramInv
    PROVE  /\ NextCall(C)[1] \in {"lock", "unlock", "yield", "fault", "checkin", "spin"}
           /\ NextCall(C)[1] \in {"lock", "unlock"} => NextCall(C)[2] = 0
           /\ tc = 0 => After(C) \in 1 .. 5
           /\ tc = 1 => After(C) = 1
           /\ tc \notin {0, 1} => After(C) \in 1 .. 2
<1>1. Program(C) = task_c
  BY DEF Program, A, B, C, HSM
<1>2. CASE tc = 0
  <2>1. task_c = << <<"lock", 0>>, <<"yield", 0>>, <<"unlock", 0>>,
                    <<"yield", 0>>, <<"fault", 0>> >>
    BY <1>2 DEF task_c
  <2>2. Len(task_c) = 5
    BY <2>1, Zenon
  <2>3. at[C] = 1 \/ at[C] = 2 \/ at[C] = 3 \/ at[C] = 4 \/ at[C] = 5
    BY <1>2 DEF ProgramInv
  <2>4. QED
    BY <1>1, <1>2, <2>1, <2>2, <2>3 DEF NextCall, After
<1>3. CASE tc = 1
  <2>1. task_c = << <<"fault", 0>> >>
    BY <1>3 DEF task_c
  <2>2. Len(task_c) = 1
    BY <2>1, Zenon
  <2>3. at[C] = 1
    BY <1>3, Zenon DEF ProgramInv
  <2>4. QED
    BY <1>1, <1>3, <2>1, <2>2, <2>3 DEF NextCall, After
<1>4. CASE tc \notin {0, 1}
  <2>1. task_c = << <<"checkin", 0>>, <<"spin", 0>> >>
    BY <1>4, Zenon DEF task_c
  <2>2. Len(task_c) = 2
    BY <2>1, Zenon
  <2>3. at[C] = 1 \/ at[C] = 2
    BY <1>4 DEF ProgramInv
  <2>4. QED
    BY <1>1, <1>4, <2>1, <2>2, <2>3 DEF NextCall, After
<1>5. QED
  BY <1>2, <1>3, <1>4, Zenon

\* Only task C's last test checks in.
LEMMA CheckinOfC ==
    ASSUME ProgramInv, NextCall(C)[1] = "checkin"
    PROVE  tc \notin {0, 1}
<1>1. Program(C) = task_c
  BY DEF Program, A, B, C, HSM
<1>2. CASE tc = 0
  <2>1. task_c = << <<"lock", 0>>, <<"yield", 0>>, <<"unlock", 0>>,
                    <<"yield", 0>>, <<"fault", 0>> >>
    BY <1>2 DEF task_c
  <2>2. at[C] = 1 \/ at[C] = 2 \/ at[C] = 3 \/ at[C] = 4 \/ at[C] = 5
    BY <1>2 DEF ProgramInv
  <2>3. QED
    BY <1>1, <2>1, <2>2 DEF NextCall
<1>3. CASE tc = 1
  <2>1. task_c = << <<"fault", 0>> >> /\ at[C] = 1
    BY <1>3 DEF task_c, ProgramInv
  <2>2. QED
    BY <1>1, <2>1 DEF NextCall
<1>4. QED
  BY <1>2, <1>3, Zenon

\* Where a call or an interrupt leaves the programs: task C may start anew.
LEMMA ProgramMoves ==
    ASSUME NEW h \in Hart
    PROVE  /\ Calls(h) =>
                 /\ Current(h) \in Monitored /\ UNCHANGED <<TEST_COUNTER, unanswered>>
                 /\ \/ at' = [at EXCEPT ![Current(h)] = After(Current(h))] /\ tc' = tc
                    \/ /\ Current(h) = C /\ StartsAnew
                       /\ at' = [at EXCEPT ![C] = 1] /\ tc' = TEST_COUNTER
           /\ Handles(h) =>
                 /\ UNCHANGED <<TEST_COUNTER, LAST_CHECKIN_TICK, unanswered>>
                 /\ \/ UNCHANGED <<at, tc>>
                    \/ StartsAnew /\ at' = [at EXCEPT ![C] = 1] /\ tc' = TEST_COUNTER
<1>1. ASSUME Calls(h)
      PROVE  /\ Current(h) \in Monitored /\ UNCHANGED <<TEST_COUNTER, unanswered>>
             /\ at' = [at EXCEPT ![Current(h)] =
                           IF Current(h) = C /\ StartsAnew THEN 1 ELSE After(Current(h))]
             /\ tc' = IF Current(h) = C /\ StartsAnew THEN TEST_COUNTER ELSE tc
  BY <1>1, Zenon DEF Calls
<1>2. QED
  BY <1>1, Zenon DEF Handles

\* Which calls of which partition a step Calls(h) may be.
LEMMA CallFacts ==
    ASSUME IInv, ProgramInv, NEW h \in Hart, Calls(h)
    PROVE  /\ Current(h) \in Monitored
           /\ h = 0 => Current(h) \in {A, HSM}
           /\ h = 1 => Current(h) \in {B, C}
<1>1. Current(h) \in Monitored /\ Current(h) \in Tasks[h]
  BY InvFacts, Zenon DEF Calls
<1>2. QED
  BY <1>1, PartitionFacts, Zenon

\* A program counter is inside its program after every call, fault and restart.
LEMMA ProgramStep == ProgramInv /\ [Next_System]_systemVars => ProgramInv'
<1> SUFFICES ASSUME ProgramInv, [Next_System]_systemVars PROVE ProgramInv'
  BY Zenon
<1>1. CASE UNCHANGED <<at, tc, TEST_COUNTER, unanswered>>
  BY <1>1, Zenon DEF ProgramInv
<1>anew. CASE /\ at' = [at EXCEPT ![C] = 1] /\ tc' = TEST_COUNTER
              /\ UNCHANGED <<TEST_COUNTER, unanswered>>
  BY <1>anew, PartitionFacts DEF ProgramInv
<1>2. ASSUME NEW h \in Hart, Calls(h) PROVE ProgramInv'
  <2> SUFFICES ASSUME at' = [at EXCEPT ![Current(h)] = After(Current(h))], tc' = tc
               PROVE  ProgramInv'
    BY <1>2, <1>anew, ProgramMoves, Zenon
  <2>1. /\ Current(h) \in Monitored /\ at' = [at EXCEPT ![Current(h)] = After(Current(h))]
        /\ UNCHANGED <<tc, TEST_COUNTER, unanswered>>
    BY <1>2, ProgramMoves, Zenon
  <2>2. CASE Current(h) = A
    <3>1. After(A) \in 1 .. 9
      BY CallsOfA DEF ProgramInv
    <3>2. QED
      BY <2>1, <2>2, <3>1, PartitionFacts DEF ProgramInv
  <2>3. CASE Current(h) = HSM
    <3>1. After(HSM) \in 1 .. 3
      BY CallsOfHsm DEF ProgramInv
    <3>2. QED
      BY <2>1, <2>3, <3>1, PartitionFacts DEF ProgramInv
  <2>4. CASE Current(h) = B
    <3>1. After(B) \in 1 .. 3
      BY CallsOfB DEF ProgramInv
    <3>2. QED
      BY <2>1, <2>4, <3>1, PartitionFacts DEF ProgramInv
  <2>5. CASE Current(h) = C
    BY <2>1, <2>5, CallsOfC, PartitionFacts DEF ProgramInv
  <2>6. QED
    BY <2>1, <2>2, <2>3, <2>4, <2>5, PartitionFacts, Zenon
<1>3. ASSUME NEW h \in Hart, Ticks(h) \/ Handles(h) PROVE ProgramInv'
  BY <1>1, <1>3, <1>anew, ProgramMoves, Zenon DEF Ticks, programVars
<1>4. CASE HsmFaults \/ WatchdogChecks
  <2>1. UNCHANGED <<at, tc, TEST_COUNTER>> /\ unanswered' \in BOOLEAN
    BY <1>4, Zenon DEF HsmFaults, WatchdogChecks
  <2>2. QED
    BY <2>1, Zenon DEF ProgramInv
<1>5. CASE WatchdogRestartsC
  <2>1. CASE UNCHANGED <<at, tc, unanswered>> /\ TEST_COUNTER' = TEST_COUNTER + 1
    BY <2>1 DEF ProgramInv
  <2>2. CASE /\ at' = [at EXCEPT ![C] = 1] /\ tc' = TEST_COUNTER'
             /\ TEST_COUNTER' = TEST_COUNTER + 1 /\ unanswered' = unanswered
    BY <2>2, PartitionFacts DEF ProgramInv
  <2>3. QED
    BY <1>1, <1>5, <2>1, <2>2, Zenon DEF WatchdogRestartsC
<1>6. CASE WatchdogRestartsHsm
  <2>1. CASE at' = [at EXCEPT ![HSM] = 1] /\ UNCHANGED <<tc, TEST_COUNTER, unanswered>>
    BY <2>1, PartitionFacts DEF ProgramInv
  <2>2. QED
    BY <1>1, <1>6, <2>1, Zenon DEF WatchdogRestartsHsm
<1>7. CASE WatchdogSleeps \/ WatchdogLoads \/ WatchdogStartsScan \/ WatchdogEndsScan
  BY <1>1, <1>7, Zenon
     DEF WatchdogSleeps, WatchdogLoads, WatchdogStartsScan, WatchdogEndsScan, programVars
<1>8. CASE UNCHANGED systemVars
  BY <1>1, <1>8, Zenon DEF systemVars, programVars
<1>9. QED
  BY <1>2, <1>3, <1>4, <1>5, <1>6, <1>7, <1>8 DEF Next_System, watchdog_task

\* It starts there.
LEMMA ProgramInit == Init_System => ProgramInv
<1> SUFFICES ASSUME Init_System PROVE ProgramInv
  BY Zenon
<1>1. at = [i \in Monitored |-> 1] /\ tc = 0 /\ TEST_COUNTER = 0
  BY Zenon DEF Init_System, Init_Programs
<1>2. unanswered \in BOOLEAN
  BY Zenon DEF Init_System, Init_Programs
<1>3. at \in [Monitored -> Nat] /\ \A i \in Monitored : at[i] = 1
  BY <1>1, Zenon
<1>4. QED
  BY <1>1, <1>2, <1>3, PartitionFacts DEF ProgramInv

-----------------------------------------------------------------------------
(* The system implements Kernel                                             *)

\* The scan terminates a partition, and if the HSM has failed it is the one.
LEMMA FailedTaskFacts ==
    ASSUME \E i \in Monitored : Failed(i)
    PROVE  /\ failed_task \in Monitored /\ Failed(failed_task)
           /\ Failed(HSM) => failed_task = HSM
<1> DEFINE F == {j \in Monitored : Failed(j)}
<1>1. F \subseteq {1, 2, 3, 4} /\ F # {}
  BY PartitionFacts, Zenon
<1>2. \E i \in F : \A j \in F : j <= i
  BY <1>1
<1>3. \E i \in F : \A j \in Monitored : Failed(j) => j <= i
  BY <1>2, Zenon
<1>4. failed_task \in F /\ \A j \in Monitored : Failed(j) => j <= failed_task
  BY <1>3, Zenon DEF failed_task
<1>5. QED
  BY <1>4, PartitionFacts

\* A partition's call is a trap of its hart, or leaves the kernel alone.
LEMMA CallIsKernelStep ==
    ASSUME ProgramInv, NEW h \in Hart, Calls(h)
    PROVE  UNCHANGED vars \/ HartStep(h)
<1> DEFINE i == Current(h)
           call == NextCall(i)[1]
           arg  == NextCall(i)[2]
<1>1. /\ i \in Monitored
      /\ \/ UNCHANGED vars
         \/ call = "lock" /\ Sys3Lock(h, arg)
         \/ call = "unlock" /\ (Sys4Unlock(h, arg) \/ Sys4UnlockPanics(h, arg))
         \/ call = "send" /\ Sys6Send(h, arg)
         \/ call = "recv" /\ Sys7Recv(h, arg)
         \/ Sys1Yield(h)
         \/ Fault(h)
  BY Zenon DEF Calls, Sys5Checkin
<1>2. /\ call \in {"lock", "unlock"} => arg \in Mutex
      /\ call \in {"send", "recv"} => arg \in Endpoint
  <2>1. i = A \/ i = B \/ i = C \/ i = HSM
    BY <1>1, PartitionFacts, Zenon
  <2>2. CASE i = A
    BY <2>2, CallsOfA, RegistrationAssumption DEF ProgramInv
  <2>3. CASE i = B
    BY <2>3, CallsOfB, RegistrationAssumption DEF ProgramInv
  <2>4. CASE i = C
    BY <2>4, CallsOfC, RegistrationAssumption, Zenon
  <2>5. CASE i = HSM
    BY <2>5, CallsOfHsm, RegistrationAssumption DEF ProgramInv
  <2>6. QED
    BY <2>1, <2>2, <2>3, <2>4, <2>5, Zenon
<1> HIDE DEF i, call, arg
<1>3. QED
  BY <1>1, <1>2, Zenon DEF HartStep

\* Every step of the system is a step of the kernel or leaves it alone.
LEMMA KernelStep == ProgramInv /\ [Next_System]_systemVars => [Next]_vars
<1> SUFFICES ASSUME ProgramInv, [Next_System]_systemVars PROVE [Next]_vars
  BY Zenon
<1>1. ASSUME NEW h \in Hart, Calls(h) PROVE [Next]_vars
  BY <1>1, CallIsKernelStep, Zenon DEF Next
<1>2. ASSUME NEW h \in Hart, Ticks(h) \/ Handles(h) PROVE [Next]_vars
  BY <1>2, Zenon DEF Ticks, Handles, Next, HartStep
<1>3. CASE HsmFaults
  BY <1>3, Zenon DEF HsmFaults, Next, HartStep, Hart
<1>4. CASE WatchdogSleeps
  BY <1>4, RegistrationAssumption, Zenon DEF WatchdogSleeps, Next, HartStep, Hart
<1>5. CASE WatchdogLoads \/ WatchdogStartsScan \/ WatchdogEndsScan
  BY <1>5, Zenon DEF WatchdogLoads, WatchdogStartsScan, WatchdogEndsScan, Next, WatchdogStep
<1>6. CASE WatchdogChecks
  <2>1. \/ UNCHANGED vars
        \/ (\E i \in Monitored : Failed(i)) /\ Sys8Terminate(failed_task)
    BY <1>6, Zenon DEF WatchdogChecks
  <2>2. QED
    BY <2>1, FailedTaskFacts, PartitionFacts, Zenon DEF Next, WatchdogStep
<1>7. CASE WatchdogRestartsC \/ WatchdogRestartsHsm
  <2>1. \/ UNCHANGED vars
        \/ WatchdogRestarts(1, C)
        \/ WatchdogRestarts(0, HSM)
    BY <1>7, Zenon DEF WatchdogRestartsC, WatchdogRestartsHsm
  <2>2. CASE WatchdogRestarts(1, C)
    <3> DEFINE q == <<1, C>>
    <3>1. q \in Restartable /\ q[1] = 1 /\ q[2] = C
      BY RegistrationAssumption, Zenon
    <3>2. \E p \in Restartable : WatchdogRestarts(p[1], p[2])
      BY <2>2, <3>1
    <3>3. QED
      BY <3>2, Zenon DEF Next, WatchdogStep
  <2>3. CASE WatchdogRestarts(0, HSM)
    <3> DEFINE q == <<0, HSM>>
    <3>1. q \in Restartable /\ q[1] = 0 /\ q[2] = HSM
      BY RegistrationAssumption, Zenon
    <3>2. \E p \in Restartable : WatchdogRestarts(p[1], p[2])
      BY <2>3, <3>1, Zenon
    <3>3. QED
      BY <3>2, Zenon DEF Next, WatchdogStep
  <2>4. QED
    BY <2>1, <2>2, <2>3, Zenon
<1>8. CASE UNCHANGED systemVars
  BY <1>8, Zenon DEF systemVars
<1>9. QED
  BY <1>1, <1>2, <1>3, <1>4, <1>5, <1>6, <1>7, <1>8, Zenon DEF Next_System, watchdog_task

\* The partitions main.rs boots are partitions of Kernel: with their programs,
\* their watchdog and their clock in place of arbitrary ones, every behaviour is
\* one of the kernel's, so all of its theorems hold of it.
THEOREM SystemImplementsKernel == Spec_System => Spec
<1>1. Init_System => Init
  BY Zenon DEF Init_System
<1>2. QED
  BY <1>1, ProgramInit, ProgramStep, KernelStep, PTL DEF Spec_System, Spec

-----------------------------------------------------------------------------
(* Restarts                                                                 *)

\* The counter does not wrap before the horizon; what was copied from it lies in
\* the past.
ClockInv ==
    /\ TICK_COUNT \in Nat /\ TICK_COUNT <= HORIZON
    /\ current_tick \in Nat /\ current_tick <= TICK_COUNT
    /\ LAST_CHECKIN_TICK \in [Monitored -> Nat]
    /\ \A i \in Monitored : LAST_CHECKIN_TICK[i] <= TICK_COUNT

\* Until the grace period ends task C runs the test that is counted, has checked
\* in only in its last one, and is not a terminated task that hart 1 executes
\* unless it had: a scan gives up nobody else so early.
CleanInv ==
    TICK_COUNT <= GRACE =>
        /\ tc = TEST_COUNTER
        /\ LAST_CHECKIN_TICK[C] # 0 => tc \notin {0, 1}
        /\ LAST_CHECKIN_TICK[C] = 0 /\ Current(1) = C => Up(St(SCHEDULERS, 1, C))

\* What a step does to the clock and to the copies of it.
LEMMA ClockStep ==
    ASSUME IInv, ProgramInv, ClockInv, [Next_System]_systemVars
    PROVE  /\ ClockInv'
           /\ TICK_COUNT <= TICK_COUNT'
<1>1. /\ TICK_COUNT \in Nat /\ HORIZON \in Nat /\ DISTURBED \in Nat /\ HORIZON < TICK_MOD
      /\ DISTURBED <= HORIZON /\ TICK_MOD \in Nat
  BY SystemAssumption, KernelAssumption DEF IInv, RestTypeOK
<1>2. CASE UNCHANGED <<TICK_COUNT, current_tick, LAST_CHECKIN_TICK>>
  BY <1>1, <1>2 DEF ClockInv
<1>3. ASSUME NEW h \in Hart, Calls(h)
      PROVE  /\ UNCHANGED <<TICK_COUNT, current_tick>>
             /\ \/ UNCHANGED LAST_CHECKIN_TICK
                \/ LAST_CHECKIN_TICK' = [LAST_CHECKIN_TICK EXCEPT ![Current(h)] = TICK_COUNT]
  <2>1. /\ UNCHANGED current_tick
        /\ \/ UNCHANGED LAST_CHECKIN_TICK
           \/ LAST_CHECKIN_TICK' = [LAST_CHECKIN_TICK EXCEPT ![Current(h)] = TICK_COUNT]
    BY <1>3, Zenon DEF Calls, Sys5Checkin, watchdogVars
  <2>2. UNCHANGED TICK_COUNT
    BY <1>3, Zenon DEF Calls, Sys5Checkin, Sys3Lock, Sys4Unlock, Sys4UnlockPanics, Sys6Send,
       Sys7Recv,
                Rendezvous, Sys1Yield, Fault, vars
  <2>3. QED
    BY <2>1, <2>2, Zenon
<1>4. ASSUME NEW h \in Hart, Calls(h) PROVE ClockInv' /\ TICK_COUNT <= TICK_COUNT'
  BY <1>1, <1>3, <1>4 DEF ClockInv
<1>5. ASSUME NEW h \in Hart, Ticks(h) PROVE ClockInv' /\ TICK_COUNT <= TICK_COUNT'
  <2>1. /\ TICK_COUNT < HORIZON /\ TICK_COUNT' = (TICK_COUNT + 1) % TICK_MOD
        /\ UNCHANGED <<current_tick, LAST_CHECKIN_TICK>>
    BY <1>1, <1>5 DEF Ticks, MayTick, TimerEntry, programVars, watchdogVars
  <2>2. TICK_COUNT' = TICK_COUNT + 1
    BY <1>1, <2>1
  <2>3. QED
    BY <1>1, <2>1, <2>2 DEF ClockInv
<1>6. ASSUME NEW h \in Hart, Handles(h)
      PROVE  UNCHANGED <<TICK_COUNT, current_tick, LAST_CHECKIN_TICK>>
  BY <1>6, Zenon DEF Handles, TimerInterrupt, SoftwareInterrupt, programVars, watchdogVars
<1>7. CASE HsmFaults
  BY <1>2, <1>7 DEF HsmFaults, Fault, watchdogVars
<1>8. CASE WatchdogSleeps \/ WatchdogStartsScan \/ WatchdogEndsScan
  BY <1>2, <1>8, Zenon DEF WatchdogSleeps, WatchdogStartsScan, WatchdogEndsScan, Sys2Sleep,
                    WatchdogLocks, WatchdogUnlocks, programVars
<1>9. CASE WatchdogLoads
  BY <1>1, <1>9 DEF WatchdogLoads, vars, programVars, ClockInv
<1>10. CASE WatchdogChecks
  <2>1. UNCHANGED <<TICK_COUNT, LAST_CHECKIN_TICK>> /\ current_tick' = 0
    BY <1>10, Zenon DEF WatchdogChecks, Sys8Terminate, vars
  <2>2. QED
    BY <1>1, <2>1 DEF ClockInv
<1>11. CASE WatchdogRestartsC \/ WatchdogRestartsHsm
  <2>1. /\ UNCHANGED <<TICK_COUNT, current_tick>>
        /\ \/ UNCHANGED LAST_CHECKIN_TICK
           \/ \E i \in Monitored : LAST_CHECKIN_TICK' = [LAST_CHECKIN_TICK EXCEPT ![i] = 0]
    BY <1>11, PartitionFacts, Zenon DEF WatchdogRestartsC, WatchdogRestartsHsm, WatchdogRestarts,
       vars
  <2>2. QED
    BY <1>1, <2>1 DEF ClockInv
<1>12. CASE UNCHANGED systemVars
  BY <1>2, <1>12, Zenon DEF systemVars, vars, programVars, watchdogVars
<1>13. QED
  BY <1>2, <1>4, <1>5, <1>6, <1>7, <1>8, <1>9, <1>10, <1>11, <1>12, SMTT(30)
     DEF Next_System, watchdog_task

\* A scan in the grace period does not find a task late that has not checked in.
LEMMA GraceHolds ==
    ASSUME IInv, ClockInv, TICK_COUNT <= GRACE, NEW i \in Monitored, LAST_CHECKIN_TICK[i] = 0
    PROVE  ~Failed(i)
<1>1. /\ TICK_COUNT \in Nat /\ current_tick \in Nat /\ current_tick <= TICK_COUNT
      /\ TICK_COUNT < TICK_MOD /\ TICK_MOD \in Nat /\ GRACE \in Nat
  BY SystemAssumption, KernelAssumption DEF IInv, RestTypeOK, ClockInv
<1>2. Elapsed(i) = current_tick
  BY <1>1 DEF Elapsed
<1>3. QED
  BY <1>1, <1>2, SMTT(30) DEF Failed

\* Hart 1 keeps executing a task that may go on, except that a check terminates
\* what it executes.
LEMMA SystemSteady ==
    ASSUME IInv, ProgramInv, [Next_System]_systemVars, ~WatchdogChecks
    PROVE  Steady(1)
<1>1. 1 \in Hart
  BY Zenon DEF Hart
<1>2. CASE UNCHANGED vars
  BY <1>1, <1>2, InvFacts, Zenon DEF vars, Steady, Loaded
<1>3. ASSUME NEW h \in Hart, HartStep(h) PROVE Steady(1)
  BY <1>1, <1>3, HartSteady, Zenon
<1>4. ASSUME NEW h \in Hart, Calls(h) PROVE Steady(1)
  BY <1>2, <1>3, <1>4, CallIsKernelStep, Zenon
<1>5. ASSUME NEW h \in Hart, Ticks(h) \/ Handles(h) PROVE Steady(1)
  BY <1>3, <1>5, Zenon DEF Ticks, Handles, HartStep
<1>6. CASE HsmFaults \/ WatchdogSleeps
  <2>1. HartStep(0) /\ 0 \in Hart
    BY <1>6, RegistrationAssumption, Zenon DEF HsmFaults, WatchdogSleeps, HartStep, Hart
  <2>2. QED
    BY <1>3, <2>1, Zenon
<1>7. CASE WatchdogLoads
  BY <1>2, <1>7, Zenon DEF WatchdogLoads
<1>8. CASE WatchdogStartsScan \/ WatchdogEndsScan
  BY <1>1, <1>8, InvFacts, Zenon
     DEF WatchdogStartsScan, WatchdogEndsScan, WatchdogLocks, WatchdogUnlocks, Steady, Loaded
<1>9. CASE WatchdogRestartsC \/ WatchdogRestartsHsm
  <2>1. UNCHANGED vars \/ WatchdogRestarts(1, C) \/ WatchdogRestarts(0, HSM)
    BY <1>9, Zenon DEF WatchdogRestartsC, WatchdogRestartsHsm
  <2>2. ASSUME NEW h \in Hart, NEW i \in Slot, WatchdogRestarts(h, i) PROVE Steady(1)
    BY <1>1, <2>2, RestartSteady, Zenon
  <2>3. QED
    BY <1>2, <2>1, <2>2, PartitionFacts
<1>10. CASE UNCHANGED systemVars
  BY <1>2, <1>10, Zenon DEF systemVars
<1>11. QED
  BY <1>4, <1>5, <1>6, <1>7, <1>8, <1>9, <1>10 DEF Next_System, watchdog_task

\* Task C is restarted as its next test, or is left alone.
LEMMA RestartOfC ==
    ASSUME IInv, ProgramInv, ClockInv, CleanInv, TICK_COUNT <= GRACE, TESTS <= 2, TestLeft
    PROVE  Current(1) # C
<1>1. TEST_COUNTER \in {0, 1}
  BY SystemAssumption DEF TestLeft, ProgramInv
<1>2. tc = TEST_COUNTER /\ LAST_CHECKIN_TICK[C] = 0
  BY <1>1, Zenon DEF CleanInv
<1>3. ~Up(St(SCHEDULERS, 1, C))
  BY Zenon DEF TestLeft, KindOf, St, Up
<1>4. QED
  BY <1>2, <1>3, Zenon DEF CleanInv

\* Every step keeps it so.
LEMMA CleanStep ==
    ASSUME IInv, ProgramInv, ClockInv, CleanInv, TESTS <= 2, [Next_System]_systemVars
    PROVE  CleanInv'
<1> SUFFICES ASSUME TICK_COUNT' <= GRACE
             PROVE  /\ tc' = TEST_COUNTER'
                    /\ LAST_CHECKIN_TICK'[C] # 0 => tc' \notin {0, 1}
                    /\ LAST_CHECKIN_TICK'[C] = 0 /\ SCHEDULERS'[1].current = C =>
                          Up(St(SCHEDULERS', 1, C))
  BY Zenon DEF CleanInv, Current
<1>1. /\ TICK_COUNT <= GRACE /\ tc = TEST_COUNTER
      /\ LAST_CHECKIN_TICK[C] # 0 => tc \notin {0, 1}
      /\ LAST_CHECKIN_TICK[C] = 0 /\ Current(1) = C => Up(St(SCHEDULERS, 1, C))
      /\ C \in Monitored /\ C \in Slot /\ 1 \in Hart
  <2>1. TICK_COUNT <= GRACE
    <3>1. TICK_COUNT <= TICK_COUNT' /\ TICK_COUNT' \in Nat /\ TICK_COUNT \in Nat /\ GRACE \in Nat
      BY ClockStep, SystemAssumption, SMTT(30) DEF IInv, RestTypeOK, ClockInv
    <3>2. QED
      BY <3>1
  <2>2. QED
    BY <2>1, PartitionFacts, Zenon DEF CleanInv
<1>2. ASSUME Steady(1), LAST_CHECKIN_TICK'[C] = 0 => LAST_CHECKIN_TICK[C] = 0
      PROVE  LAST_CHECKIN_TICK'[C] = 0 /\ SCHEDULERS'[1].current = C => Up(St(SCHEDULERS', 1, C))
  BY <1>1, <1>2, SMTT(30) DEF Steady
<1>3. CASE UNCHANGED <<tc, TEST_COUNTER, LAST_CHECKIN_TICK>> /\ ~WatchdogChecks
  BY <1>1, <1>2, <1>3, SystemSteady
<1>4. CASE WatchdogChecks
  <2>1. UNCHANGED <<tc, TEST_COUNTER, LAST_CHECKIN_TICK>>
    BY <1>4, ZenonT(30) DEF WatchdogChecks
  <2>2. CASE UNCHANGED vars
    BY <1>1, <2>1, <2>2, SMTT(30) DEF vars, Current
  <2>3. CASE (\E i \in Monitored : Failed(i)) /\ Sys8Terminate(failed_task)
    <3>1. failed_task \in Targets /\ failed_task \in Monitored /\ Failed(failed_task)
      BY <2>3, FailedTaskFacts, PartitionFacts, Zenon
    <3>2. Steady(1) \/ (Current(1) = failed_task /\ SCHEDULERS'[1].current = failed_task)
      BY <1>1, <2>3, <3>1, TerminateSteady
    <3>3. LAST_CHECKIN_TICK[failed_task] # 0
      BY <1>1, <3>1, GraceHolds
    <3>4. QED
      BY <1>1, <1>2, <2>1, <3>2, <3>3, SMTT(30)
  <2>4. QED
    BY <1>4, <2>2, <2>3, Zenon DEF WatchdogChecks
<1>5. ASSUME NEW h \in Hart, Calls(h), ~WatchdogChecks
      PROVE  /\ tc' = TEST_COUNTER'
             /\ LAST_CHECKIN_TICK'[C] # 0 => tc' \notin {0, 1}
             /\ LAST_CHECKIN_TICK'[C] = 0 /\ SCHEDULERS'[1].current = C =>
                   Up(St(SCHEDULERS', 1, C))
  <2>0. tc' = tc
    BY <1>1, <1>5, ProgramMoves, Zenon
  <2>1. /\ UNCHANGED <<tc, TEST_COUNTER>> /\ Current(h) \in Monitored
        /\ \/ UNCHANGED LAST_CHECKIN_TICK
           \/ /\ LAST_CHECKIN_TICK' = [LAST_CHECKIN_TICK EXCEPT ![Current(h)] = TICK_COUNT]
              /\ NextCall(Current(h))[1] = "checkin"
    BY <1>5, <2>0, Zenon DEF Calls, Sys5Checkin
  <2>2. CASE UNCHANGED LAST_CHECKIN_TICK
    BY <1>3, <1>5, <2>1, <2>2, SMTT(30)
  <2>3. CASE /\ LAST_CHECKIN_TICK' = [LAST_CHECKIN_TICK EXCEPT ![Current(h)] = TICK_COUNT]
             /\ NextCall(Current(h))[1] = "checkin"
    <3>1. LAST_CHECKIN_TICK'[C] = IF Current(h) = C THEN TICK_COUNT ELSE LAST_CHECKIN_TICK[C]
      BY <1>1, <2>1, <2>3 DEF ClockInv
    <3>2. Current(h) = C => tc \notin {0, 1}
      BY <2>3, CheckinOfC
    <3>3. LAST_CHECKIN_TICK'[C] = 0 => LAST_CHECKIN_TICK[C] = 0
      BY <1>1, <3>1 DEF ClockInv
    <3>4. Steady(1)
      BY <1>5, SystemSteady, Zenon
    <3>5. QED
      BY <1>1, <1>2, <2>1, <3>1, <3>2, <3>3, <3>4, SMTT(30)
  <2>4. QED
    BY <2>1, <2>2, <2>3, Zenon
<1>6. ASSUME WatchdogRestartsC, ~WatchdogChecks
      PROVE  /\ tc' = TEST_COUNTER'
             /\ LAST_CHECKIN_TICK'[C] # 0 => tc' \notin {0, 1}
             /\ LAST_CHECKIN_TICK'[C] = 0 /\ SCHEDULERS'[1].current = C =>
                   Up(St(SCHEDULERS', 1, C))
  <2>1. CASE TestLeft
    <3>1. Current(1) # C
      BY <1>1, <2>1, RestartOfC, Zenon
    <3>2. /\ SCHEDULERS' = SetState(SCHEDULERS, 1, C, Ready) /\ tc' = TEST_COUNTER'
          /\ LAST_CHECKIN_TICK' = [LAST_CHECKIN_TICK EXCEPT ![C] = 0]
      BY <1>6, <2>1, <3>1, ZenonT(30) DEF WatchdogRestartsC, WatchdogRestarts
    <3>3. St(SCHEDULERS', 1, C) = Ready
      BY <1>1, <3>2, InvFacts, SetStateFacts, SlotFacts, SMTT(30)
    <3>4. LAST_CHECKIN_TICK'[C] = 0
      BY <1>1, <3>2, Zenon DEF ClockInv
    <3>5. QED
      BY <3>2, <3>3, <3>4 DEF Up, Ready, State
  <2>2. CASE ~TestLeft
    BY <1>3, <1>6, <2>2, ZenonT(30) DEF WatchdogRestartsC
  <2>3. QED
    BY <2>1, <2>2, Zenon
<1>7. CASE WatchdogRestartsHsm /\ ~WatchdogChecks
  <2>1. UNCHANGED <<tc, TEST_COUNTER>> /\ LAST_CHECKIN_TICK'[C] = LAST_CHECKIN_TICK[C]
    BY <1>7, PartitionFacts, Zenon DEF WatchdogRestartsHsm, ClockInv
  <2>2. Steady(1)
    BY <1>7, SystemSteady, Zenon
  <2>3. QED
    BY <1>1, <1>2, <2>1, <2>2, SMTT(30)
<1>8. ASSUME ~WatchdogChecks,
             \/ \E h \in Hart : Ticks(h) \/ Handles(h)
             \/ HsmFaults \/ WatchdogSleeps \/ WatchdogLoads
             \/ WatchdogStartsScan \/ WatchdogEndsScan \/ UNCHANGED systemVars
      PROVE  UNCHANGED <<tc, TEST_COUNTER, LAST_CHECKIN_TICK>>
  <2>1. ASSUME NEW h \in Hart, Handles(h)
        PROVE  UNCHANGED <<tc, TEST_COUNTER, LAST_CHECKIN_TICK>>
    BY <1>1, <2>1, ProgramMoves, Zenon
  <2>2. QED
    BY <1>8, <2>1, Zenon DEF Ticks, HsmFaults, WatchdogSleeps, WatchdogLoads,
       WatchdogStartsScan, WatchdogEndsScan, systemVars, programVars
<1>9. QED
  BY <1>3, <1>4, <1>5, <1>6, <1>7, <1>8, SMTT(30) DEF Next_System, watchdog_task

\* The first conjunct of RestartIsClean is about task C: it has a test left only
\* while it has not checked in, so that it has ended by its own fault and hart 1
\* has left it. The second holds of hart 0 whatever it executes. TESTS is 2 in
\* the code: the program of the third test is the one that checks in and spins.
THEOREM RestartsClean ==
    ASSUME TESTS <= 2
    PROVE  Spec_System => []RestartIsClean
<1>1. Init_System => ProgramInv /\ ClockInv /\ CleanInv
  <2> SUFFICES ASSUME Init_System PROVE ClockInv /\ CleanInv
    BY ProgramInit, Zenon
  <2>1. /\ TICK_COUNT = 0 /\ current_tick = 0 /\ tc = 0 /\ TEST_COUNTER = 0
        /\ LAST_CHECKIN_TICK = [i \in Monitored |-> 0]
    BY Zenon DEF Init_System, Init, Init_Programs
  <2>2. ClockInv
    BY <2>1, SystemAssumption, SMTT(30) DEF ClockInv
  <2>3. Up(St(SCHEDULERS, 1, Current(1)))
    <3>1. SCHEDULERS[1] = start_first_task(Registered(Tasks[1]))
      BY Zenon DEF Init_System, Init, Hart
    <3>2. Tasks[1] \in SUBSET Slot /\ IDLE \in Tasks[1]
      BY KernelAssumption, Zenon DEF Hart
    <3>3. SCHEDULERS[1].task_table[SCHEDULERS[1].current] = Running
      BY <3>1, <3>2, BootScheduler, SMTT(30)
    <3>4. QED
      BY <3>3 DEF Up, St, Current, Running, State
  <2>4. CleanInv
    BY <2>1, <2>3, PartitionFacts, Zenon DEF CleanInv
  <2>5. QED
    BY <2>2, <2>4, Zenon
<1>2. IInv /\ ProgramInv /\ ClockInv /\ CleanInv /\ [Next_System]_systemVars
        => ProgramInv' /\ ClockInv' /\ CleanInv'
  BY ProgramStep, ClockStep, CleanStep, Zenon
<1>3. IInv /\ Executes /\ ProgramInv /\ ClockInv /\ CleanInv => RestartIsClean
  BY RestartOfC, Zenon DEF RestartIsClean, Executes
<1>4. QED
  BY <1>1, <1>2, <1>3, SystemImplementsKernel, InductiveInvariant, ExecutesLive, PTL
     DEF Spec_System

-----------------------------------------------------------------------------
(* Task A and the HSM in step: the inductive invariant, and in what follows *)
(* what each change of a task's state, of a mutex and of the dispatcher     *)
(* does to it.                                                              *)

\* What task A's state in schedulers S says of its program counter p.
AtA(S, p) ==
    LET st == St(S, 0, A) IN
    /\ st.kind # "Blocked"
    /\ st.kind = "BlockedOnMutex" => p = 3
    /\ st.kind = "BlockedOnIpcSend" => \/ p \in {5, 7} /\ st.arg = 2
                                       \/ p = 9 /\ st.arg = 0
    /\ st.kind = "BlockedOnIpcRecv" => p \in {6, 8} /\ st.arg = 3

\* ... the HSM's ...
AtHsm(S, p) ==
    LET st == St(S, 0, HSM) IN
    /\ st.kind \notin {"Blocked", "BlockedOnMutex"}
    /\ st.kind = "BlockedOnIpcSend" => p = 1 /\ st.arg = 3
    /\ st.kind = "BlockedOnIpcRecv" => p = 3 /\ st.arg = 2

\* Only task B, receiving on endpoint 0, is parked beside them.
OthersApart(S) ==
    \A h \in Hart, i \in Slot :
        ~(h = 0 /\ i \in {A, HSM}) =>
            /\ St(S, h, i).kind # "BlockedOnIpcSend"
            /\ St(S, h, i).kind = "BlockedOnIpcRecv" => St(S, h, i).arg = 0

\* Task A's waiters bit, stale or not, stands for its one lock call.
BitOfA(S, M, p) ==
    \A m \in Mutex : A \in M[m].waiters =>
        m = 0 /\ p = 3 /\ St(S, 0, A).kind \in {"BlockedOnMutex", "Terminated"}

OwesIn(S, p) ==
    \/ p = 3 /\ St(S, 0, HSM).kind \notin {"BlockedOnIpcRecv", "Terminated"}
    \/ p = 1 /\ St(S, 0, HSM).kind = "BlockedOnIpcSend"

AwaitsIn(S, p) ==
    \/ p \in {5, 7} /\ St(S, 0, A).kind \notin {"BlockedOnIpcSend", "Terminated"}
    \/ p \in {6, 8} /\ St(S, 0, A).kind = "BlockedOnIpcRecv"

\* a, s: program counters of task A and the HSM; u: unanswered. A terminated
\* task A the HSM owes a reply has stopped inside the exchange, where no stale
\* waiters bit can bring it back.
Signing(S, M, a, s, u) ==
    /\ AtA(S, a) /\ AtHsm(S, s) /\ OthersApart(S) /\ BitOfA(S, M, a)
    /\ OwesIn(S, s) => AwaitsIn(S, a) \/ (St(S, 0, A).kind = "Terminated" /\ a \in 5 .. 8)
    /\ AwaitsIn(S, a) => OwesIn(S, s) \/ u

SInv ==
    /\ Up(St(SCHEDULERS, 0, SCHEDULERS[0].current))
    /\ Signing(SCHEDULERS, MUTEXES, at[A], at[HSM], unanswered)

-----------------------------------------------------------------------------
(* Task A and the HSM                                                       *)

\* Schedulers with the same modes are equally in step.
LEMMA SameModesSign ==
    ASSUME NEW S, NEW R, NEW M, NEW a, NEW s, NEW u, Signing(S, M, a, s, u),
           \A h \in Hart, i \in Slot : SameMode(St(S, h, i), St(R, h, i))
    PROVE  Signing(R, M, a, s, u)
<1>1. SameMode(St(S, 0, A), St(R, 0, A)) /\ SameMode(St(S, 0, HSM), St(R, 0, HSM))
  BY PartitionFacts, Zenon
<1>2. AtA(R, a) /\ BitOfA(R, M, a) /\ (AwaitsIn(R, a) <=> AwaitsIn(S, a))
  BY <1>1 DEF Signing, AtA, BitOfA, AwaitsIn, SameMode, Up
<1>3. AtHsm(R, s) /\ (OwesIn(R, s) <=> OwesIn(S, s))
  BY <1>1, Zenon DEF Signing, AtHsm, OwesIn, SameMode, Up
<1>4. OthersApart(R)
  BY DEF Signing, OthersApart, SameMode, Up
<1>5. St(S, 0, A).kind = "Terminated" <=> St(R, 0, A).kind = "Terminated"
  BY <1>1, Zenon DEF SameMode, Up
<1>6. QED
  BY <1>2, <1>3, <1>4, <1>5, Zenon DEF Signing

\* S is what a handler has prepared from the schedulers: the current task and
\* the idle task of hart 0 are as they were.
Prepared(S) ==
    /\ S \in [Hart -> BitMapScheduler]
    /\ S[0].current = SCHEDULERS[0].current
    /\ St(S, 0, IDLE) = St(SCHEDULERS, 0, IDLE)

\* After switch_task hart 0 executes a task that may go on.
LEMMA SwitchUp ==
    ASSUME IInv, NEW S, Prepared(S), NEW g \in Hart, NEW t \in BOOLEAN, switch_task(g, S, t),
           g = 1 => Up(St(S, 0, S[0].current))
    PROVE  Up(St(SCHEDULERS', 0, SCHEDULERS'[0].current))
<1>1. /\ SCHEDULERS' = [S EXCEPT ![g] = schedule(S[g], t)]
      /\ S \in [Hart -> BitMapScheduler] /\ 0 \in Hart
  BY Zenon DEF switch_task, Prepared, Hart
<1>2. CASE g = 1
  BY <1>1, <1>2 DEF St
<1>3. CASE g = 0
  BY <1>1, <1>3, SwitchRuns, Zenon DEF Prepared, Current
<1>4. QED
  BY <1>2, <1>3, Zenon DEF Hart

\* A step that ends in switch_task is in step if what it has prepared is.
LEMMA SwitchInStep ==
    ASSUME IInv, NEW S, Prepared(S), NEW g \in Hart, NEW t \in BOOLEAN, switch_task(g, S, t),
           g = 1 => Up(St(S, 0, S[0].current)),
           Signing(S, MUTEXES', at'[A], at'[HSM], unanswered')
    PROVE  SInv'
<1>1. Up(St(SCHEDULERS', 0, SCHEDULERS'[0].current))
  BY SwitchUp, Zenon
<1>2. \A h \in Hart, i \in Slot : SameMode(St(S, h, i), St(SCHEDULERS', h, i))
  BY SwitchModes, Zenon DEF Prepared
<1>3. Signing(SCHEDULERS', MUTEXES', at'[A], at'[HSM], unanswered')
  BY <1>2, SameModesSign, Zenon
<1>4. QED
  BY <1>1, <1>3, Zenon DEF SInv

-----------------------------------------------------------------------------
(* The rendezvous, one lemma per caller                                     *)

\* R is S with the state of one task replaced.
With(S, R, h, i, st) ==
    \A g \in Hart, j \in Slot : St(R, g, j) = IF g = h /\ j = i THEN st ELSE St(S, g, j)

\* Task A parks in one of its sends or receives.
LEMMA AParks ==
    ASSUME NEW S, NEW R, NEW M, NEW a \in Nat, NEW s, NEW u, Signing(S, M, a, s, u),
           Up(St(S, 0, A)), NEW st, With(S, R, 0, A, st),
           \/ a \in {4, 6} /\ st.kind = "BlockedOnIpcSend" /\ st.arg = 2
           \/ a \in {5, 7} /\ st.kind = "BlockedOnIpcRecv" /\ st.arg = 3
           \/ a = 8 /\ st.kind = "BlockedOnIpcSend" /\ st.arg = 0
    PROVE  Signing(R, M, a + 1, s, u)
<1>1. St(R, 0, A) = st /\ St(R, 0, HSM) = St(S, 0, HSM)
  BY PartitionFacts, SMTT(30) DEF With
<1>2. OthersApart(R)
  BY PartitionFacts, SMTT(30) DEF With, Signing, OthersApart
<1>3. AtHsm(R, s) /\ (OwesIn(R, s) <=> OwesIn(S, s))
  BY <1>1, Zenon DEF Signing, AtHsm, OwesIn
<1>4. AtA(R, a + 1) /\ BitOfA(R, M, a + 1)
  BY <1>1 DEF Signing, AtA, BitOfA, Up
<1>5. (AwaitsIn(R, a + 1) <=> AwaitsIn(S, a)) /\ St(S, 0, A).kind # "Terminated"
  BY <1>1 DEF AwaitsIn, Up
<1>6. QED
  BY <1>2, <1>3, <1>4, <1>5, SMTT(30) DEF Signing

\* Task A finds its peer, the HSM or task B, parked.
LEMMA APairs ==
    ASSUME NEW S, NEW R, NEW M, NEW a \in Nat, NEW s, NEW u, Signing(S, M, a, s, u),
           Up(St(S, 0, A)), NEW g \in Hart, NEW j \in Slot,
           NEW st, Up(st), With(S, R, g, j, st),
           \/ a \in {4, 6} /\ St(S, g, j).kind = "BlockedOnIpcRecv" /\ St(S, g, j).arg = 2
           \/ a \in {5, 7} /\ St(S, g, j).kind = "BlockedOnIpcSend" /\ St(S, g, j).arg = 3
           \/ a = 8 /\ St(S, g, j).kind = "BlockedOnIpcRecv" /\ St(S, g, j).arg = 0
    PROVE  Signing(R, M, a + 1, s, u)
<1>1. ~(g = 0 /\ j = A) /\ St(R, 0, A) = St(S, 0, A)
  BY PartitionFacts, Zenon DEF With, Up
<1>2. OthersApart(R)
  BY PartitionFacts, SMTT(30) DEF With, Signing, OthersApart, Up
<1>3. AtA(R, a + 1) /\ BitOfA(R, M, a + 1)
  BY <1>1, Zenon DEF Signing, AtA, BitOfA, Up
<1>4. St(S, 0, A).kind \in {"Ready", "Running"}
  BY Zenon DEF Up
<1>5. CASE a \in {4, 6}
  <2>1. g = 0 /\ j = HSM
    BY <1>1, <1>5, SMTT(30) DEF Signing, OthersApart
  <2>2. s = 3 /\ St(R, 0, HSM) = st
    BY <1>5, <2>1, PartitionFacts, SMTT(30) DEF Signing, AtHsm, With
  <2>3. AtHsm(R, s) /\ OwesIn(R, s) /\ AwaitsIn(R, a + 1)
    BY <1>1, <1>4, <1>5, <2>2, SMTT(30) DEF AtHsm, OwesIn, AwaitsIn, Up
  <2>4. QED
    BY <1>2, <1>3, <2>3, Zenon DEF Signing
<1>6. CASE a \in {5, 7}
  <2>1. g = 0 /\ j = HSM
    BY <1>1, <1>6, SMTT(30) DEF Signing, OthersApart
  <2>2. s = 1 /\ St(R, 0, HSM) = st
    BY <1>6, <2>1, PartitionFacts, SMTT(30) DEF Signing, AtHsm, With
  <2>3. AtHsm(R, s) /\ ~OwesIn(R, s) /\ ~AwaitsIn(R, a + 1)
    BY <1>1, <1>4, <1>6, <2>2, SMTT(30) DEF AtHsm, OwesIn, AwaitsIn, Up
  <2>4. QED
    BY <1>2, <1>3, <2>3, Zenon DEF Signing
<1>7. CASE a = 8
  <2>1. ~(g = 0 /\ j = HSM)
    BY <1>7, SMTT(30) DEF Signing, AtHsm
  <2>2. St(R, 0, HSM) = St(S, 0, HSM)
    BY <2>1, PartitionFacts, Zenon DEF With
  <2>3. AtHsm(R, s) /\ (OwesIn(R, s) <=> OwesIn(S, s))
    BY <2>2, Zenon DEF Signing, AtHsm, OwesIn
  <2>4. ~AwaitsIn(R, a + 1) /\ ~AwaitsIn(S, a)
    BY <1>4, <1>7 DEF AwaitsIn
  <2>5. QED
    BY <1>2, <1>3, <1>4, <2>3, <2>4, Zenon DEF Signing
<1>8. QED
  BY <1>5, <1>6, <1>7, Zenon

\* The HSM parks: waiting for a request, or with a reply nobody has come for.
LEMMA HsmParks ==
    ASSUME NEW S, NEW R, NEW M, NEW a, NEW s, NEW s2, NEW u, Signing(S, M, a, s, u),
           Up(St(S, 0, HSM)), NEW st, With(S, R, 0, HSM, st),
           \/ s = 2 /\ s2 = 3 /\ st.kind = "BlockedOnIpcRecv" /\ st.arg = 2
           \/ s = 3 /\ s2 = 1 /\ st.kind = "BlockedOnIpcSend" /\ st.arg = 3
    PROVE  Signing(R, M, a, s2, u)
<1>1. St(R, 0, HSM) = st /\ St(R, 0, A) = St(S, 0, A)
  BY PartitionFacts, SMTT(30) DEF With
<1>2. OthersApart(R)
  BY PartitionFacts, SMTT(30) DEF With, Signing, OthersApart
<1>3. AtA(R, a) /\ BitOfA(R, M, a) /\ (AwaitsIn(R, a) <=> AwaitsIn(S, a))
  BY <1>1, Zenon DEF Signing, AtA, BitOfA, AwaitsIn
<1>4. AtHsm(R, s2) /\ (OwesIn(R, s2) <=> OwesIn(S, s))
  BY <1>1 DEF AtHsm, OwesIn, Up
<1>5. QED
  BY <1>1, <1>2, <1>3, <1>4, Zenon DEF Signing

\* The HSM finds task A parked: with a request, or waiting for the reply.
LEMMA HsmPairs ==
    ASSUME NEW S, NEW R, NEW M, NEW a, NEW s, NEW s2, NEW u, Signing(S, M, a, s, u),
           Up(St(S, 0, HSM)), NEW g \in Hart, NEW j \in Slot,
           NEW st, Up(st), With(S, R, g, j, st),
           \/ /\ s = 2 /\ s2 = 3
              /\ St(S, g, j).kind = "BlockedOnIpcSend" /\ St(S, g, j).arg = 2
           \/ /\ s = 3 /\ s2 = 1
              /\ St(S, g, j).kind = "BlockedOnIpcRecv" /\ St(S, g, j).arg = 3
    PROVE  Signing(R, M, a, s2, u)
<1>1. g = 0 /\ j = A
  BY SMTT(30) DEF Signing, OthersApart, Up
<1>2. St(R, 0, A) = st /\ St(R, 0, HSM) = St(S, 0, HSM)
  BY <1>1, PartitionFacts, SMTT(30) DEF With
<1>3. OthersApart(R)
  BY <1>1 DEF With, Signing, OthersApart
<1>4. AtHsm(R, s2)
  BY <1>2, Zenon DEF AtHsm, Up
<1>5. AtA(R, a) /\ BitOfA(R, M, a)
  BY <1>1, <1>2, ZenonT(30) DEF Signing, AtA, BitOfA, Up
<1>6. CASE s = 2
  <2>1. a \in {5, 7}
    BY <1>1, <1>6, Zenon DEF Signing, AtA
  <2>2. AwaitsIn(R, a) /\ OwesIn(R, s2)
    BY <1>2, <1>6, <2>1, SMTT(30) DEF AwaitsIn, OwesIn, Up
  <2>3. QED
    BY <1>3, <1>4, <1>5, <2>2, Zenon DEF Signing
<1>7. CASE s = 3
  <2>1. a \in {6, 8}
    BY <1>1, <1>7, Zenon DEF Signing, AtA
  <2>2. ~AwaitsIn(R, a) /\ ~OwesIn(R, s2)
    BY <1>2, <1>7, <2>1 DEF AwaitsIn, OwesIn, Up
  <2>3. QED
    BY <1>3, <1>4, <1>5, <2>2, Zenon DEF Signing
<1>8. QED
  BY <1>6, <1>7, Zenon

\* Task B takes part on endpoint 0 only, outside the exchange; other tasks of
\* hart 1 are put into states the exchange does not look at.
LEMMA OtherChanges ==
    ASSUME NEW S, NEW R, NEW M, NEW a, NEW s, NEW u, Signing(S, M, a, s, u),
           NEW g \in Hart, NEW j \in Slot, NEW st, With(S, R, g, j, st),
           \/ /\ g = 0 /\ j = A /\ Up(st)
              /\ St(S, g, j).kind = "BlockedOnIpcSend" /\ St(S, g, j).arg = 0
           \/ /\ ~(g = 0 /\ j \in {A, HSM}) /\ st.kind # "BlockedOnIpcSend"
              /\ st.kind = "BlockedOnIpcRecv" => st.arg = 0
    PROVE  Signing(R, M, a, s, u)
<1>1. St(R, 0, HSM) = St(S, 0, HSM)
  BY PartitionFacts, SMTT(30) DEF With
<1>2. AtHsm(R, s) /\ (OwesIn(R, s) <=> OwesIn(S, s))
  BY <1>1, Zenon DEF Signing, AtHsm, OwesIn
<1>3. OthersApart(R)
  BY PartitionFacts DEF With, Signing, OthersApart
<1>4. CASE g = 0 /\ j = A
  <2>1. a = 9 /\ St(R, 0, A) = st /\ Up(st)
    BY <1>4, PartitionFacts, Zenon DEF With, Signing, AtA
  <2>2. AtA(R, a) /\ BitOfA(R, M, a)
    BY <1>4, <2>1, Zenon DEF AtA, BitOfA, Signing, Up
  <2>3. ~AwaitsIn(R, a) /\ ~AwaitsIn(S, a)
    BY <2>1 DEF AwaitsIn
  <2>4. QED
    BY <1>2, <1>3, <2>1, <2>2, <2>3, SMTT(30) DEF Signing
<1>5. CASE ~(g = 0 /\ j = A)
  <2>1. St(R, 0, A) = St(S, 0, A)
    BY <1>5, PartitionFacts, Zenon DEF With
  <2>2. AtA(R, a) /\ BitOfA(R, M, a) /\ (AwaitsIn(R, a) <=> AwaitsIn(S, a))
    BY <2>1, Zenon DEF Signing, AtA, BitOfA, AwaitsIn
  <2>3. QED
    BY <1>2, <1>3, <2>1, <2>2, SMTT(30) DEF Signing
<1>6. QED
  BY <1>4, <1>5, Zenon

-----------------------------------------------------------------------------
(* Mutexes, terminations and the timer                                      *)

\* Task A's own progress outside the exchange.
LEMMA AMoves ==
    ASSUME NEW S, NEW M, NEW a \in Nat, NEW b \in Nat, NEW s, NEW u, Signing(S, M, a, s, u),
           Up(St(S, 0, A)), a \notin 5 .. 8, b \notin 5 .. 8
    PROVE  Signing(S, M, b, s, u)
<1>1. AtA(S, b) /\ BitOfA(S, M, b)
  BY Zenon DEF Signing, AtA, BitOfA, Up
<1>2. ~AwaitsIn(S, a) /\ ~AwaitsIn(S, b)
  BY SMTT(30) DEF AwaitsIn
<1>3. QED
  BY <1>1, <1>2, Zenon DEF Signing, Up

\* A mutex handed over to the waiter w: task A, if it is the one, is at its lock.
LEMMA Handover ==
    ASSUME NEW S, NEW R, NEW M, NEW N, NEW a \in Nat, NEW s, NEW u, Signing(S, M, a, s, u),
           NEW m \in Mutex, NEW w \in M[m].waiters, w \in Slot, NEW st, Up(st),
           With(S, R, WaiterHart(w), w, st),
           \A n \in Mutex : N[n].waiters = IF n = m THEN M[n].waiters \ {w} ELSE M[n].waiters
    PROVE  Signing(R, N, a, s, u)
<1>1. WaiterHart(A) = 0 /\ WaiterHart(HSM) = 1
  BY PartitionFacts, SMTT(30) DEF WaiterHart
<1>2. St(R, 0, HSM) = St(S, 0, HSM) /\ St(R, 0, A) = IF w = A THEN st ELSE St(S, 0, A)
  BY <1>1, PartitionFacts, Zenon DEF With
<1>3. AtHsm(R, s) /\ (OwesIn(R, s) <=> OwesIn(S, s))
  BY <1>2, ZenonT(30) DEF Signing, AtHsm, OwesIn
<1>4. OthersApart(R)
  BY ZenonT(30) DEF With, Signing, OthersApart, Up
<1>5. CASE w = A
  <2>1. a = 3 /\ m = 0
    BY <1>5, ZenonT(30) DEF Signing, BitOfA
  <2>2. ~AwaitsIn(S, a) /\ ~AwaitsIn(R, a)
    BY <2>1 DEF AwaitsIn
  <2>3. AtA(R, a) /\ BitOfA(R, N, a)
    BY <1>2, <1>5, <2>1, ZenonT(30) DEF Signing, AtA, BitOfA, Up
  <2>4. QED
    BY <1>3, <1>4, <2>1, <2>2, <2>3, SMTT(30) DEF Signing
<1>6. CASE w # A
  <2>1. AtA(R, a) /\ BitOfA(R, N, a) /\ (AwaitsIn(R, a) <=> AwaitsIn(S, a))
    BY <1>2, <1>6, ZenonT(30) DEF Signing, AtA, BitOfA, AwaitsIn
  <2>2. QED
    BY <1>2, <1>3, <1>4, <1>6, <2>1, Zenon DEF Signing
<1>7. QED
  BY <1>5, <1>6, Zenon

\* A termination keeps the survivors in step, if a request that the HSM takes
\* with it is recorded as unanswered.
LEMMA TerminationSigns ==
    ASSUME IInv, NEW h \in Hart, NEW i \in Slot, i \in Tasks[h] \ {IDLE},
           NEW a \in Nat, NEW s, NEW u, NEW v, Signing(SCHEDULERS, MUTEXES, a, s, u),
           u => v, i = HSM /\ OwesIn(SCHEDULERS, s) => v
    PROVE  Signing(TerminatedAndRecovered(h, i), Recovered(i), a, s, v)
<1> DEFINE R == TerminatedAndRecovered(h, i)
           N == Recovered(i)
<1>1. \A g \in Hart, j \in Slot :
        /\ St(R, g, j) =
              IF j \in NewOwners(i) /\ g = WaiterHart(j) /\ KindOf(g, j) # "None" THEN Ready
              ELSE IF g = h /\ j = i THEN Terminated
              ELSE St(SCHEDULERS, g, j)
        /\ j \in NewOwners(i) =>
              \E m \in Mutex : MUTEXES[m].owner = i /\ j \in MUTEXES[m].waiters
  BY TerminationFacts
<1>2. \A m \in Mutex : MUTEXES[m] \in KernelMutex
  BY InvFacts, Zenon
<1>3. \A m \in Mutex :
         N[m].waiters = IF MUTEXES[m].owner = i /\ MUTEXES[m].waiters # {}
                        THEN MUTEXES[m].waiters \ {HighestWaiter(MUTEXES[m].waiters)}
                        ELSE MUTEXES[m].waiters
  BY <1>2, Zenon DEF Recovered, HandedOver, KernelMutex
<1> HIDE DEF R, N
<1>4. /\ WaiterHart(A) = 0 /\ WaiterHart(HSM) = 1
      /\ Ready.kind = "Ready" /\ Terminated.kind = "Terminated"
  BY PartitionFacts, SMTT(30) DEF WaiterHart, Ready, Terminated, State
<1>5. OthersApart(R)
  BY <1>1, <1>4, SMTT(30) DEF Signing, OthersApart
<1>6. St(R, 0, HSM) = IF h = 0 /\ i = HSM THEN Terminated ELSE St(SCHEDULERS, 0, HSM)
  BY <1>1, <1>4, PartitionFacts, Zenon
<1>7. AtHsm(R, s) /\ (OwesIn(R, s) => OwesIn(SCHEDULERS, s))
      /\ (OwesIn(SCHEDULERS, s) => OwesIn(R, s) \/ v)
  BY <1>4, <1>6, Zenon DEF Signing, AtHsm, OwesIn
<1>8. CASE A \in NewOwners(i)
  <2>1. PICK m \in Mutex : MUTEXES[m].owner = i /\ A \in MUTEXES[m].waiters
    BY <1>1, <1>8, PartitionFacts, Zenon
  <2>2. m = 0 /\ a = 3 /\ \A n \in Mutex : A \in MUTEXES[n].waiters => n = 0
    BY <2>1, Zenon DEF Signing, BitOfA
  <2>3. A = HighestWaiter(MUTEXES[m].waiters)
    <3>1. PICK n \in Mutex : /\ MUTEXES[n].owner = i /\ MUTEXES[n].waiters # {}
                             /\ A = HighestWaiter(MUTEXES[n].waiters)
      BY <1>8, Zenon DEF NewOwners
    <3>2. A \in MUTEXES[n].waiters
      BY <3>1, WaiterFacts, Zenon
    <3>3. QED
      BY <2>2, <3>1, <3>2, Zenon
  <2>4. \A n \in Mutex : A \notin N[n].waiters
    BY <1>3, <2>1, <2>2, <2>3, ZenonT(30)
  <2>5. KindOf(0, A) # "None"
    <3>1. St(SCHEDULERS, 0, A).kind # "None"
      BY PartitionFacts, Zenon DEF IInv, Good, Sane
    <3>2. QED
      BY <3>1, PartitionFacts, InvFacts, Zenon
  <2>6. St(R, 0, A) = Ready
    BY <1>1, <1>4, <1>8, <2>5, PartitionFacts, Zenon
  <2>7. ~OwesIn(SCHEDULERS, s)
    BY <2>2, SMTT(30) DEF Signing, AwaitsIn
  <2>8. AtA(R, a) /\ BitOfA(R, N, a) /\ ~AwaitsIn(R, a)
    BY <1>4, <2>2, <2>4, <2>6, SMTT(30) DEF AtA, BitOfA, AwaitsIn
  <2>9. QED
    BY <1>5, <1>7, <2>7, <2>8, ZenonT(30) DEF Signing, R, N
<1>9. CASE A \notin NewOwners(i)
  <2>1. St(R, 0, A) = IF h = 0 /\ i = A THEN Terminated ELSE St(SCHEDULERS, 0, A)
    BY <1>1, <1>9, PartitionFacts, Zenon
  <2>2. AtA(R, a)
    BY <1>4, <2>1, Zenon DEF Signing, AtA
  <2>3. \A n \in Mutex : A \in N[n].waiters => A \in MUTEXES[n].waiters
    BY <1>3, ZenonT(30)
  <2>4. BitOfA(R, N, a)
    BY <1>4, <2>1, <2>3, Zenon DEF Signing, BitOfA
  <2>5. (AwaitsIn(R, a) => AwaitsIn(SCHEDULERS, a))
        /\ (AwaitsIn(SCHEDULERS, a) =>
              AwaitsIn(R, a) \/ (St(R, 0, A).kind = "Terminated" /\ a \in 5 .. 8))
    BY <1>4, <2>1, SMTT(30) DEF AwaitsIn
  <2>6. St(SCHEDULERS, 0, A).kind = "Terminated" => St(R, 0, A).kind = "Terminated"
    BY <1>4, <2>1, Zenon
  <2>7. QED
    BY <1>5, <1>7, <2>2, <2>4, <2>5, <2>6, ZenonT(30) DEF Signing, R, N
<1>10. QED
  BY <1>8, <1>9, SMTT(30)

-----------------------------------------------------------------------------
(* The steps                                                                *)

\* SetState in the terms of the lemmas above.
LEMMA SetStateWith ==
    ASSUME IInv, NEW h \in Hart, NEW i \in Slot, NEW st \in TaskState
    PROVE  LET R == SetState(SCHEDULERS, h, i, st) IN
           /\ R \in [Hart -> BitMapScheduler]
           /\ \A g \in Hart : R[g].current = SCHEDULERS[g].current
           /\ With(SCHEDULERS, R, h, i, st)
BY InvFacts, SetStateFacts, SMTT(30) DEF With

\* A step that makes one task Ready and does not reschedule.
LEMMA ReadyInStep ==
    ASSUME IInv, SInv, NEW h \in Hart, NEW i \in Slot,
           SCHEDULERS' = SetState(SCHEDULERS, h, i, Ready),
           NEW a, NEW s, NEW u, Signing(SetState(SCHEDULERS, h, i, Ready), MUTEXES', a, s, u),
           at'[A] = a, at'[HSM] = s, unanswered' = u
    PROVE  SInv'
<1> DEFINE R == SetState(SCHEDULERS, h, i, Ready)
<1>1. Ready \in TaskState /\ Up(Ready)
  BY SlotFacts, Zenon DEF Up, Ready, State
<1>2. R[0].current = SCHEDULERS[0].current /\ With(SCHEDULERS, R, h, i, Ready) /\ 0 \in Hart
  BY <1>1, SetStateWith, Zenon DEF Hart
<1>3. SCHEDULERS' = R /\ Signing(R, MUTEXES', at'[A], at'[HSM], unanswered')
  BY Zenon
<1> HIDE DEF R
<1>4. SCHEDULERS[0].current \in Slot
  BY <1>2, InvFacts, Zenon
<1>5. Up(St(R, 0, R[0].current))
  BY <1>1, <1>2, <1>4, Zenon DEF SInv, With
<1>6. QED
  BY <1>3, <1>5, Zenon DEF SInv

\* A step that gives one task, not idle, another state and then reschedules h;
\* a task of hart 0 that hart 1 changes may go on afterwards.
LEMMA ChangeInStep ==
    ASSUME IInv, SInv, NEW h \in Hart, NEW g \in Hart, NEW i \in Slot, NEW st \in TaskState,
           i # IDLE, h = 1 /\ g = 0 => Up(st),
           switch_task(h, SetState(SCHEDULERS, g, i, st), FALSE),
           Signing(SetState(SCHEDULERS, g, i, st), MUTEXES', at'[A], at'[HSM], unanswered')
    PROVE  SInv'
<1> DEFINE S == SetState(SCHEDULERS, g, i, st)
<1>1. /\ S \in [Hart -> BitMapScheduler] /\ S[0].current = SCHEDULERS[0].current
      /\ With(SCHEDULERS, S, g, i, st) /\ 0 \in Hart
  BY SetStateWith, Zenon DEF Hart
<1>2. switch_task(h, S, FALSE) /\ Signing(S, MUTEXES', at'[A], at'[HSM], unanswered')
  BY Zenon
<1> HIDE DEF S
<1>3. SCHEDULERS[0].current \in Slot /\ IDLE \in Slot
  BY <1>1, InvFacts, SlotFacts, Zenon
<1>4. Prepared(S)
  BY <1>1, <1>3, Zenon DEF Prepared, With
<1>5. h = 1 => Up(St(S, 0, S[0].current))
  BY <1>1, <1>3, Zenon DEF SInv, With, Hart
<1>6. QED
  BY <1>2, <1>4, <1>5, SwitchInStep, ZenonT(30)

\* yield, spin and the software interrupt.
LEMMA YieldInStep ==
    ASSUME IInv, SInv, NEW h \in Hart, switch_task(h, SCHEDULERS, FALSE),
           NEW a, NEW s, NEW u, Signing(SCHEDULERS, MUTEXES', a, s, u),
           at'[A] = a, at'[HSM] = s, unanswered' = u
    PROVE  SInv'
<1>1. Prepared(SCHEDULERS)
  BY InvFacts, SlotFacts, Zenon DEF Prepared
<1>2. Signing(SCHEDULERS, MUTEXES', at'[A], at'[HSM], unanswered')
  BY Zenon
<1>3. QED
  BY <1>1, <1>2, SwitchInStep, ZenonT(30) DEF SInv

\* The timer wakes sleepers; task A and the HSM never sleep.
LEMMA TimerInStep ==
    ASSUME IInv, SInv, NEW h \in Hart, TimerInterrupt(h),
           at'[A] = at[A], at'[HSM] = at[HSM], unanswered' = unanswered
    PROVE  SInv'
<1> DEFINE W == Woken(SCHEDULERS[h].task_table, timer[h])
           S == [SCHEDULERS EXCEPT ![h].task_table = Woken(@, timer[h])]
<1>1. SCHEDULERS \in [Hart -> BitMapScheduler] /\ 0 \in Hart
  BY InvFacts, Zenon DEF Hart
<1>2. W \in [Slot -> TaskState]
  BY <1>1, SlotFacts, Zenon DEF Woken, BitMapScheduler
<1>3. \A i \in Slot : \/ W[i] = St(SCHEDULERS, h, i)
                      \/ St(SCHEDULERS, h, i).kind = "Blocked" /\ W[i] = Ready
  BY Zenon DEF Woken, St
<1>4. S = [SCHEDULERS EXCEPT ![h].task_table = W]
  BY Zenon
<1>5. switch_task(h, S, TRUE) /\ MUTEXES' = MUTEXES
  BY Zenon DEF TimerInterrupt
<1> HIDE DEF W, S
<1>6. S \in [Hart -> BitMapScheduler] /\ S[0].current = SCHEDULERS[0].current
  BY <1>1, <1>2, <1>4, Zenon DEF BitMapScheduler
<1>7. \A g \in Hart, i \in Slot : \/ St(S, g, i) = St(SCHEDULERS, g, i)
                                  \/ St(SCHEDULERS, g, i).kind = "Blocked" /\ St(S, g, i) = Ready
  BY <1>1, <1>2, <1>3, <1>4, Zenon DEF BitMapScheduler, St
<1>8. Ready.kind = "Ready"
  BY Zenon DEF Ready, State
<1>9. St(S, 0, A) = St(SCHEDULERS, 0, A) /\ St(S, 0, HSM) = St(SCHEDULERS, 0, HSM)
  <2>1. St(SCHEDULERS, 0, A).kind # "Blocked" /\ St(SCHEDULERS, 0, HSM).kind # "Blocked"
    BY Zenon DEF SInv, Signing, AtA, AtHsm
  <2>2. 0 \in Hart /\ A \in Slot /\ HSM \in Slot
    BY <1>1, PartitionFacts, Zenon
  <2>3. QED
    BY <1>7, <2>1, <2>2, Zenon
<1>10. OthersApart(S)
  BY <1>7, <1>8, ZenonT(30) DEF SInv, Signing, OthersApart
<1>11. Signing(S, MUTEXES, at[A], at[HSM], unanswered)
  BY <1>9, <1>10, ZenonT(30) DEF SInv, Signing, AtA, AtHsm, BitOfA, OwesIn, AwaitsIn
<1>12. St(SCHEDULERS, 0, IDLE).kind # "Blocked"
  BY <1>1, Zenon DEF IInv, Good, Sane
<1>13. Prepared(S)
  BY <1>1, <1>6, <1>7, <1>12, SlotFacts, Zenon DEF Prepared
<1>14. Up(St(S, 0, S[0].current))
  BY <1>1, <1>6, <1>7, <1>8, InvFacts, Zenon DEF SInv, Up
<1>15. QED
  BY <1>5, <1>11, <1>13, <1>14, SwitchInStep, ZenonT(30)

\* The two outcomes of a send or a receive: a parked peer is made Ready, or the
\* caller parks.
Outcome(h, e, peerKind, ownKind) ==
    \/ \E g \in Hart, j \in Slot :
          /\ St(SCHEDULERS, g, j).kind = peerKind /\ St(SCHEDULERS, g, j).arg = e
          /\ SCHEDULERS' = SetState(SCHEDULERS, g, j, Ready)
    \/ switch_task(h, SetState(SCHEDULERS, h, Current(h), State(ownKind, e)), FALSE)

\* There is no third one.
LEMMA RendezvousOutcomes ==
    ASSUME IInv, NEW h \in Hart, NEW e, NEW peerKind, NEW ownKind,
           Rendezvous(h, e, peerKind, ownKind)
    PROVE  MUTEXES' = MUTEXES /\ Outcome(h, e, peerKind, ownKind)
<1>1. MUTEXES' = MUTEXES
  BY Zenon DEF Rendezvous
<1>2. CASE Parked(peerKind, e) = {}
  BY <1>1, <1>2, Zenon DEF Rendezvous, Outcome
<1>3. CASE Parked(peerKind, e) # {}
  <2> DEFINE p == FirstParked(peerKind, e)
  <2>1. SCHEDULERS' = SetState(SCHEDULERS, p[1], p[2], Ready)
    BY <1>3, ZenonT(30) DEF Rendezvous
  <2>2. /\ p[1] \in Hart /\ p[2] \in Slot
        /\ St(SCHEDULERS, p[1], p[2]).kind = peerKind /\ St(SCHEDULERS, p[1], p[2]).arg = e
    BY <1>3, FirstParkedFacts DEF Parked, KindOf, StateOf, St
  <2> HIDE DEF p
  <2>3. QED
    BY <1>1, <2>1, <2>2, Zenon DEF Outcome
<1>4. QED
  BY <1>2, <1>3, Zenon

\* A caller, not idle, that is given another state on its own hart.
LEMMA CallerInStep ==
    ASSUME IInv, SInv, NEW h \in Hart, NEW i \in Slot, NEW st \in TaskState, i # IDLE,
           switch_task(h, SetState(SCHEDULERS, h, i, st), FALSE),
           NEW a, NEW s, NEW u, Signing(SetState(SCHEDULERS, h, i, st), MUTEXES', a, s, u),
           at'[A] = a, at'[HSM] = s, unanswered' = u
    PROVE  SInv'
<1>1. Signing(SetState(SCHEDULERS, h, i, st), MUTEXES', at'[A], at'[HSM], unanswered')
  BY Zenon
<1>2. ~(h = 1 /\ h = 0)
  OBVIOUS
<1>3. QED
  BY <1>1, <1>2, ChangeInStep, Zenon

\* An unlock by task A or by task C.
LEMMA UnlockInStep ==
    ASSUME IInv, SInv, NEW h \in Hart, Sys4Unlock(h, 0),
           NEW a \in Nat, NEW s, NEW u, Signing(SCHEDULERS, MUTEXES, a, s, u),
           at'[A] = a, at'[HSM] = s, unanswered' = u
    PROVE  SInv'
<1> DEFINE w == HighestWaiter(MUTEXES[0].waiters)
<1>1. 0 \in Mutex /\ MUTEXES[0] \in KernelMutex /\ MUTEXES \in [Mutex -> KernelMutex]
  BY RegistrationAssumption, InvFacts, Zenon
<1>2. MUTEXES' = [MUTEXES EXCEPT ![0] = HandedOver(@)]
  BY Zenon DEF Sys4Unlock
<1>3. CASE MUTEXES[0].waiters = {}
  <2>1. switch_task(h, SCHEDULERS, FALSE)
    BY <1>3, Zenon DEF Sys4Unlock
  <2>2. \A n \in Mutex : MUTEXES'[n].waiters = MUTEXES[n].waiters
    BY <1>1, <1>2, <1>3, Zenon DEF HandedOver, KernelMutex
  <2>3. Signing(SCHEDULERS, MUTEXES', a, s, u)
    BY <2>2, Zenon DEF Signing, BitOfA
  <2>4. QED
    BY <2>1, <2>3, YieldInStep, Zenon
<1>4. CASE MUTEXES[0].waiters # {}
  <2>1. /\ w \in MUTEXES[0].waiters /\ w \in Slot /\ WaiterHart(w) \in Hart
        /\ w \in Tasks[WaiterHart(w)] \ {IDLE}
    BY <1>1, <1>4, WaiterFacts, Zenon
  <2>2. switch_task(h, SetState(SCHEDULERS, WaiterHart(w), w, Ready), FALSE)
    BY <1>4, Zenon DEF Sys4Unlock
  <2>3. \A n \in Mutex : MUTEXES'[n].waiters =
           IF n = 0 THEN MUTEXES[n].waiters \ {w} ELSE MUTEXES[n].waiters
    BY <1>1, <1>2, <1>4, Zenon DEF HandedOver, KernelMutex
  <2> HIDE DEF w
  <2>4. Ready \in TaskState /\ Up(Ready)
    BY SlotFacts, Zenon DEF Up, Ready, State
  <2>5. With(SCHEDULERS, SetState(SCHEDULERS, WaiterHart(w), w, Ready), WaiterHart(w), w, Ready)
    BY <2>1, <2>4, SetStateWith, Zenon
  <2>6. Signing(SetState(SCHEDULERS, WaiterHart(w), w, Ready), MUTEXES', a, s, u)
    BY <1>1, <2>1, <2>3, <2>4, <2>5, Handover, ZenonT(30)
  <2>7. Signing(SetState(SCHEDULERS, WaiterHart(w), w, Ready), MUTEXES',
                at'[A], at'[HSM], unanswered')
    BY <2>6, Zenon
  <2>8. QED
    BY <2>1, <2>2, <2>4, <2>7, ChangeInStep, ZenonT(30)
<1>5. QED
  BY <1>3, <1>4, Zenon

\* A lock by task A.
LEMMA ALocks ==
    ASSUME IInv, SInv, Current(0) = A, Sys3Lock(0, 0), at[A] = 2, at'[A] = 3,
           at'[HSM] = at[HSM], unanswered' = unanswered
    PROVE  SInv'
<1>1. /\ 0 \in Mutex /\ 0 \in Hart /\ A \in Slot /\ A # IDLE
      /\ \A m \in Mutex : MUTEXES[m] \in KernelMutex
      /\ MUTEXES \in [Mutex -> KernelMutex]
  BY RegistrationAssumption, PartitionFacts, InvFacts, Zenon
<1>2. Up(St(SCHEDULERS, 0, A)) /\ Signing(SCHEDULERS, MUTEXES, 2, at[HSM], unanswered)
  BY Zenon DEF SInv, Current
<1>3. Signing(SCHEDULERS, MUTEXES, 3, at[HSM], unanswered)
  BY <1>2, AMoves, SMTT(30)
<1>4. \A m \in Mutex : A \notin MUTEXES[m].waiters
  BY <1>2 DEF Signing, BitOfA
<1>5. CASE ~MUTEXES[0].locked
  <2>1. SCHEDULERS' = SCHEDULERS
        /\ MUTEXES' = [MUTEXES EXCEPT ![0].locked = TRUE, ![0].owner = Current(0)]
    BY <1>5, Zenon DEF Sys3Lock
  <2>2. \A m \in Mutex : MUTEXES'[m].waiters = MUTEXES[m].waiters
    BY <1>1, <2>1, Zenon DEF KernelMutex
  <2>3. Signing(SCHEDULERS, MUTEXES', 3, at[HSM], unanswered)
    BY <1>3, <2>2, Zenon DEF Signing, BitOfA
  <2>4. QED
    BY <2>1, <2>3, Zenon DEF SInv
<1>6. CASE MUTEXES[0].locked
  <2>1. /\ MUTEXES' = [MUTEXES EXCEPT ![0].waiters = @ \cup {A}]
        /\ switch_task(0, SetState(SCHEDULERS, 0, A, State("BlockedOnMutex", 0)), FALSE)
    BY <1>6, Zenon DEF Sys3Lock
  <2>2. \A m \in Mutex : m # 0 => MUTEXES'[m].waiters = MUTEXES[m].waiters
    BY <1>1, <2>1, Zenon
  <2>3. PICK st \in TaskState : st = State("BlockedOnMutex", 0) /\ st.kind = "BlockedOnMutex"
    <3>1. LET st == State("BlockedOnMutex", 0) IN st \in TaskState /\ st.kind = "BlockedOnMutex"
      BY Zenon DEF State, TaskState, Kind
    <3>2. QED
      BY <3>1, Zenon
  <2> DEFINE R == SetState(SCHEDULERS, 0, A, st)
  <2>4. With(SCHEDULERS, R, 0, A, st)
    BY <1>1, <2>3, SetStateWith, Zenon
  <2>5. St(R, 0, A) = st /\ St(R, 0, HSM) = St(SCHEDULERS, 0, HSM) /\ OthersApart(R)
    <3>1. St(R, 0, A) = st /\ St(R, 0, HSM) = St(SCHEDULERS, 0, HSM)
      BY <2>4, PartitionFacts, Zenon DEF With
    <3>2. OthersApart(R)
      <4>1. OthersApart(SCHEDULERS)
        BY <1>3, Zenon DEF Signing
      <4>2. \A h \in Hart, i \in Slot : ~(h = 0 /\ i \in {A, HSM}) =>
               St(R, h, i) = St(SCHEDULERS, h, i)
        BY <2>4, Zenon DEF With
      <4>3. QED
        BY <4>1, <4>2, Zenon DEF OthersApart
    <3>3. QED
      BY <3>1, <3>2, Zenon
  <2>6. AtHsm(R, at[HSM]) /\ (OwesIn(R, at[HSM]) <=> OwesIn(SCHEDULERS, at[HSM]))
    BY <1>3, <2>5, Zenon DEF Signing, AtHsm, OwesIn
  <2>7. AtA(R, 3) /\ BitOfA(R, MUTEXES', 3)
    BY <1>4, <2>2, <2>3, <2>5, Zenon DEF AtA, BitOfA
  <2>8. ~AwaitsIn(R, 3) /\ ~AwaitsIn(SCHEDULERS, 3)
    BY DEF AwaitsIn
  <2>9. Signing(R, MUTEXES', 3, at[HSM], unanswered)
    <3>1. OwesIn(R, at[HSM]) => St(SCHEDULERS, 0, A).kind = "Terminated" /\ 3 \in 5 .. 8
      BY <1>3, <2>6, <2>8, Zenon DEF Signing
    <3>2. ~OwesIn(R, at[HSM])
      BY <3>1
    <3>3. QED
      BY <2>5, <2>6, <2>7, <2>8, <3>2, Zenon DEF Signing
  <2>10. switch_task(0, R, FALSE)
    BY <2>1, <2>3, Zenon
  <2>11. QED
    BY <1>1, <2>9, <2>10, CallerInStep, Zenon
<1>7. QED
  BY <1>5, <1>6, Zenon

\* A lock by task C.
LEMMA CLocks ==
    ASSUME IInv, SInv, Current(1) = C, Sys3Lock(1, 0), UNCHANGED unanswered,
           at'[A] = at[A], at'[HSM] = at[HSM]
    PROVE  SInv'
<1>1. /\ 0 \in Mutex /\ 1 \in Hart /\ C \in Slot /\ C # IDLE /\ C # A
      /\ MUTEXES \in [Mutex -> KernelMutex]
  BY RegistrationAssumption, PartitionFacts, InvFacts, Zenon
<1>2. \A m \in Mutex : A \in MUTEXES'[m].waiters <=> A \in MUTEXES[m].waiters
  <2>1. CASE MUTEXES' = [MUTEXES EXCEPT ![0].locked = TRUE, ![0].owner = Current(1)]
    BY <1>1, <2>1, Zenon DEF KernelMutex
  <2>2. CASE MUTEXES' = [MUTEXES EXCEPT ![0].waiters = @ \cup {C}]
    BY <1>1, <2>2, Zenon DEF KernelMutex
  <2>3. QED
    BY <2>1, <2>2, Zenon DEF Sys3Lock
<1>3. Signing(SCHEDULERS, MUTEXES', at[A], at[HSM], unanswered)
  BY <1>2, ZenonT(30) DEF SInv, Signing, BitOfA
<1>4. CASE SCHEDULERS' = SCHEDULERS
  BY <1>3, <1>4, Zenon DEF SInv
<1>5. CASE switch_task(1, SetState(SCHEDULERS, 1, C, State("BlockedOnMutex", 0)), FALSE)
  <2>1. PICK st \in TaskState : st = State("BlockedOnMutex", 0) /\ st.kind = "BlockedOnMutex"
    <3>1. LET st == State("BlockedOnMutex", 0) IN st \in TaskState /\ st.kind = "BlockedOnMutex"
      BY Zenon DEF State, TaskState, Kind
    <3>2. QED
      BY <3>1, Zenon
  <2> DEFINE R == SetState(SCHEDULERS, 1, C, st)
  <2>2. switch_task(1, R, FALSE)
    BY <1>5, <2>1, ZenonT(30)
  <2>3. With(SCHEDULERS, R, 1, C, st)
    BY <1>1, SetStateWith, Zenon
  <2>4. Signing(R, MUTEXES', at[A], at[HSM], unanswered)
    <3>1. ~(1 = 0 /\ C \in {A, HSM}) /\ st.kind # "BlockedOnIpcSend"
          /\ st.kind # "BlockedOnIpcRecv"
      BY <2>1
    <3>2. QED
      BY <1>1, <1>3, <2>3, <3>1, OtherChanges, Zenon
  <2>5. QED
    BY <1>1, <2>2, <2>4, CallerInStep, ZenonT(30)
<1>6. QED
  BY <1>4, <1>5, Zenon DEF Sys3Lock

-----------------------------------------------------------------------------
(* Sends and receives                                                       *)

\* A state a caller is parked in.
LEMMA ParkedState ==
    ASSUME NEW kind \in {"BlockedOnIpcSend", "BlockedOnIpcRecv"}, NEW e \in {0, 2, 3}
    PROVE  \E st \in TaskState : st = State(kind, e) /\ st.kind = kind /\ st.arg = e
<1>1. LET st == State(kind, e) IN st \in TaskState /\ st.kind = kind /\ st.arg = e
  BY DEF State, TaskState, Kind
<1>2. QED
  BY <1>1, Zenon

\* Task A sends a request, receives a reply, or sends its frame to task B.
LEMMA AExchanges ==
    ASSUME IInv, SInv, Current(0) = A, NEW kind, NEW peer, NEW e \in {0, 2, 3},
           Rendezvous(0, e, peer, kind),
           \/ at[A] \in {4, 6} /\ kind = "BlockedOnIpcSend" /\ peer = "BlockedOnIpcRecv" /\ e = 2
           \/ at[A] \in {5, 7} /\ kind = "BlockedOnIpcRecv" /\ peer = "BlockedOnIpcSend" /\ e = 3
           \/ at[A] = 8 /\ kind = "BlockedOnIpcSend" /\ peer = "BlockedOnIpcRecv" /\ e = 0,
           at'[A] = at[A] + 1, at'[HSM] = at[HSM], unanswered' = unanswered
    PROVE  SInv'
<1>1. /\ Up(St(SCHEDULERS, 0, A)) /\ at[A] \in Nat
      /\ Signing(SCHEDULERS, MUTEXES, at[A], at[HSM], unanswered)
  BY DEF SInv, Current
<1>2. 0 \in Hart /\ A \in Slot /\ A # IDLE
  BY PartitionFacts, Zenon
<1>3. MUTEXES' = MUTEXES /\ Outcome(0, e, peer, kind)
  BY <1>2, RendezvousOutcomes, Zenon
<1>4. ASSUME NEW g \in Hart, NEW j \in Slot,
             St(SCHEDULERS, g, j).kind = peer, St(SCHEDULERS, g, j).arg = e,
             SCHEDULERS' = SetState(SCHEDULERS, g, j, Ready)
      PROVE  SInv'
  <2>1. Ready \in TaskState /\ Up(Ready)
    BY SlotFacts, Zenon DEF Up, Ready, State
  <2>2. With(SCHEDULERS, SetState(SCHEDULERS, g, j, Ready), g, j, Ready)
    BY <2>1, SetStateWith, Zenon
  <2>3. Signing(SetState(SCHEDULERS, g, j, Ready), MUTEXES, at[A] + 1, at[HSM], unanswered)
    BY <1>1, <1>4, <2>1, <2>2, APairs, Zenon
  <2>4. QED
    BY <1>3, <1>4, <2>3, ReadyInStep, Zenon
<1>5. CASE switch_task(0, SetState(SCHEDULERS, 0, A, State(kind, e)), FALSE)
  <2>1. PICK st \in TaskState : st = State(kind, e) /\ st.kind = kind /\ st.arg = e
    BY ParkedState, SMTT(30)
  <2>2. With(SCHEDULERS, SetState(SCHEDULERS, 0, A, st), 0, A, st)
    BY <1>2, SetStateWith, Zenon
  <2>3. Signing(SetState(SCHEDULERS, 0, A, st), MUTEXES, at[A] + 1, at[HSM], unanswered)
    BY <1>1, <2>1, <2>2, AParks, Zenon
  <2>4. Signing(SetState(SCHEDULERS, 0, A, st), MUTEXES', at[A] + 1, at[HSM], unanswered)
    BY <1>3, <2>3, Zenon
  <2>5. switch_task(0, SetState(SCHEDULERS, 0, A, st), FALSE)
    BY <1>5, <2>1, Zenon
  <2>6. QED
    BY <1>2, <2>4, <2>5, CallerInStep, ZenonT(30)
<1>6. QED
  BY <1>3, <1>4, <1>5, Zenon DEF Outcome

\* The HSM receives a request or sends a reply.
LEMMA HsmExchanges ==
    ASSUME IInv, SInv, Current(0) = HSM, NEW kind, NEW peer, NEW e \in {0, 2, 3}, NEW s2,
           Rendezvous(0, e, peer, kind),
           \/ /\ at[HSM] = 2 /\ s2 = 3 /\ e = 2
              /\ kind = "BlockedOnIpcRecv" /\ peer = "BlockedOnIpcSend"
           \/ /\ at[HSM] = 3 /\ s2 = 1 /\ e = 3
              /\ kind = "BlockedOnIpcSend" /\ peer = "BlockedOnIpcRecv",
           at'[A] = at[A], at'[HSM] = s2, unanswered' = unanswered
    PROVE  SInv'
<1>1. /\ Up(St(SCHEDULERS, 0, HSM))
      /\ Signing(SCHEDULERS, MUTEXES, at[A], at[HSM], unanswered)
  BY Zenon DEF SInv, Current
<1>2. 0 \in Hart /\ HSM \in Slot /\ HSM # IDLE
  BY PartitionFacts, Zenon
<1>3. MUTEXES' = MUTEXES /\ Outcome(0, e, peer, kind)
  BY <1>2, RendezvousOutcomes, Zenon
<1>4. ASSUME NEW g \in Hart, NEW j \in Slot,
             St(SCHEDULERS, g, j).kind = peer, St(SCHEDULERS, g, j).arg = e,
             SCHEDULERS' = SetState(SCHEDULERS, g, j, Ready)
      PROVE  SInv'
  <2>1. Ready \in TaskState /\ Up(Ready)
    BY SlotFacts, Zenon DEF Up, Ready, State
  <2>2. With(SCHEDULERS, SetState(SCHEDULERS, g, j, Ready), g, j, Ready)
    BY <2>1, SetStateWith, Zenon
  <2>3. Signing(SetState(SCHEDULERS, g, j, Ready), MUTEXES, at[A], s2, unanswered)
    BY <1>1, <1>4, <2>1, <2>2, HsmPairs, Zenon
  <2>4. QED
    BY <1>3, <1>4, <2>3, ReadyInStep, Zenon
<1>5. CASE switch_task(0, SetState(SCHEDULERS, 0, HSM, State(kind, e)), FALSE)
  <2>1. PICK st \in TaskState : st = State(kind, e) /\ st.kind = kind /\ st.arg = e
    BY ParkedState, SMTT(30)
  <2>2. With(SCHEDULERS, SetState(SCHEDULERS, 0, HSM, st), 0, HSM, st)
    BY <1>2, SetStateWith, Zenon
  <2>3. Signing(SetState(SCHEDULERS, 0, HSM, st), MUTEXES, at[A], s2, unanswered)
    BY <1>1, <2>1, <2>2, HsmParks, SMTT(30)
  <2>4. Signing(SetState(SCHEDULERS, 0, HSM, st), MUTEXES', at[A], s2, unanswered)
    BY <1>3, <2>3, Zenon
  <2>5. switch_task(0, SetState(SCHEDULERS, 0, HSM, st), FALSE)
    BY <1>5, <2>1, Zenon
  <2>6. QED
    BY <1>2, <2>4, <2>5, CallerInStep, ZenonT(30)
<1>6. QED
  BY <1>3, <1>4, <1>5, ZenonT(30) DEF Outcome

\* Task B receives task A's frame.
LEMMA BReceives ==
    ASSUME IInv, SInv, Current(1) = B,
           Rendezvous(1, 0, "BlockedOnIpcSend", "BlockedOnIpcRecv"),
           at'[A] = at[A], at'[HSM] = at[HSM], unanswered' = unanswered
    PROVE  SInv'
<1>1. Signing(SCHEDULERS, MUTEXES, at[A], at[HSM], unanswered)
  BY Zenon DEF SInv
<1>2. 1 \in Hart /\ B \in Slot /\ B # IDLE
  BY PartitionFacts, Zenon
<1>3. MUTEXES' = MUTEXES /\ Outcome(1, 0, "BlockedOnIpcSend", "BlockedOnIpcRecv")
  BY <1>2, RendezvousOutcomes, Zenon
<1>4. ASSUME NEW g \in Hart, NEW j \in Slot, St(SCHEDULERS, g, j).kind = "BlockedOnIpcSend",
             St(SCHEDULERS, g, j).arg = 0, SCHEDULERS' = SetState(SCHEDULERS, g, j, Ready)
      PROVE  SInv'
  <2>1. Ready \in TaskState /\ Up(Ready)
    BY SlotFacts, Zenon DEF Up, Ready, State
  <2>2. With(SCHEDULERS, SetState(SCHEDULERS, g, j, Ready), g, j, Ready)
    BY <2>1, SetStateWith, Zenon
  <2>3. g = 0 /\ j = A
    BY <1>1, <1>4, SMTT(30) DEF Signing, OthersApart, AtHsm
  <2>4. Signing(SetState(SCHEDULERS, g, j, Ready), MUTEXES, at[A], at[HSM], unanswered)
    BY <1>1, <1>4, <2>1, <2>2, <2>3, OtherChanges, Zenon
  <2>5. QED
    BY <1>3, <1>4, <2>4, ReadyInStep, Zenon
<1>5. CASE switch_task(1, SetState(SCHEDULERS, 1, B, State("BlockedOnIpcRecv", 0)), FALSE)
  <2>1. PICK st \in TaskState :
           st = State("BlockedOnIpcRecv", 0) /\ st.kind = "BlockedOnIpcRecv" /\ st.arg = 0
    BY ParkedState, Zenon
  <2>2. With(SCHEDULERS, SetState(SCHEDULERS, 1, B, st), 1, B, st)
    BY <1>2, SetStateWith, Zenon
  <2>3. Signing(SetState(SCHEDULERS, 1, B, st), MUTEXES, at[A], at[HSM], unanswered)
    BY <1>1, <1>2, <2>1, <2>2, OtherChanges, SMTT(30)
  <2>4. Signing(SetState(SCHEDULERS, 1, B, st), MUTEXES', at[A], at[HSM], unanswered)
    BY <1>3, <2>3, Zenon
  <2>5. switch_task(1, SetState(SCHEDULERS, 1, B, st), FALSE)
    BY <1>5, <2>1, ZenonT(30)
  <2>6. QED
    BY <1>2, <2>4, <2>5, CallerInStep, Zenon
<1>6. QED
  BY <1>3, <1>4, <1>5, ZenonT(30) DEF Outcome

\* What a partition does with the call its program has come to.
LEMMA CallMade ==
    ASSUME NEW h \in Hart, NEW i, NEW call, NEW arg, Calls(h), Current(h) = i,
           NextCall(i)[1] = call, NextCall(i)[2] = arg
    PROVE  /\ \/ call \in {"checkin", "hang"} /\ UNCHANGED vars
              \/ call = "lock" /\ Sys3Lock(h, arg)
              \/ call = "unlock" /\ (Sys4Unlock(h, arg) \/ Sys4UnlockPanics(h, arg))
              \/ /\ call = "send"
                 /\ Rendezvous(h, arg, "BlockedOnIpcRecv", "BlockedOnIpcSend")
              \/ /\ call = "recv"
                 /\ Rendezvous(h, arg, "BlockedOnIpcSend", "BlockedOnIpcRecv")
              \/ call \in {"yield", "spin"} /\ Sys1Yield(h)
              \/ call = "fault" /\ Fault(h)
           /\ i \in Monitored /\ unanswered' = unanswered
BY Zenon DEF Calls, Sys5Checkin, Sys6Send, Sys7Recv

\* A step that leaves schedulers and mutexes alone.
LEMMA QuietInStep ==
    ASSUME SInv, SCHEDULERS' = SCHEDULERS, MUTEXES' = MUTEXES,
           NEW a, NEW s, NEW u, Signing(SCHEDULERS, MUTEXES, a, s, u),
           at'[A] = a, at'[HSM] = s, unanswered' = u
    PROVE  SInv'
<1>1. Signing(SCHEDULERS', MUTEXES', at'[A], at'[HSM], unanswered')
  BY Zenon
<1>2. QED
  BY <1>1, Zenon DEF SInv

\* Every call of task A keeps it in step with the HSM.
LEMMA CallOfA ==
    ASSUME IInv, ProgramInv, SInv, Calls(0), Current(0) = A
    PROVE  SInv'
<1>1. /\ at'[A] = After(A) /\ at'[HSM] = at[HSM] /\ unanswered' = unanswered
      /\ 0 \in Hart
  BY ProgramMoves, PartitionFacts DEF ProgramInv, Hart
<1>2. Up(St(SCHEDULERS, 0, A)) /\ Signing(SCHEDULERS, MUTEXES, at[A], at[HSM], unanswered)
  BY Zenon DEF SInv, Current
<1>3. CASE at[A] \in {1, 2, 3, 9}
  <2>1. After(A) \in {1, 2, 3, 4}
    BY <1>3, CallsOfA, Zenon
  <2>2. Signing(SCHEDULERS, MUTEXES, After(A), at[HSM], unanswered)
    BY <1>2, <1>3, <2>1, AMoves, SMTT(30)
  <2>3. CASE at[A] = 1
    <3>1. NextCall(A)[1] = "checkin" /\ NextCall(A)[2] = 0
      BY <2>3, CallsOfA
    <3>2. UNCHANGED vars
      BY <1>1, <3>1, CallMade, Zenon
    <3>3. QED
      BY <1>1, <2>2, <3>2, QuietInStep, Zenon DEF vars
  <2>4. CASE at[A] = 2
    <3>1. NextCall(A)[1] = "lock" /\ NextCall(A)[2] = 0 /\ After(A) = 3
      BY <2>4, CallsOfA
    <3>2. Sys3Lock(0, 0)
      BY <1>1, <3>1, CallMade, Zenon
    <3>3. QED
      BY <1>1, <2>4, <3>1, <3>2, ALocks, SMTT(30)
  <2>5. CASE at[A] = 3
    <3>1. NextCall(A)[1] = "unlock" /\ NextCall(A)[2] = 0 /\ After(A) \in Nat
      BY <2>5, CallsOfA, SMTT(30)
    <3>2. Sys4Unlock(0, 0) \/ Sys4UnlockPanics(0, 0)
      BY <1>1, <3>1, CallMade, Zenon
    <3>3. CASE Sys4Unlock(0, 0)
      BY <1>1, <2>2, <3>1, <3>3, UnlockInStep, Zenon
    <3>4. CASE Sys4UnlockPanics(0, 0)
      BY <1>1, <2>2, <3>4, QuietInStep, Zenon DEF Sys4UnlockPanics
    <3>5. QED
      BY <3>2, <3>3, <3>4, Zenon
  <2>6. CASE at[A] = 9
    <3>1. NextCall(A)[1] = "yield" /\ NextCall(A)[2] = 0
      BY <2>6, CallsOfA
    <3>2. Sys1Yield(0)
      BY <1>1, <3>1, CallMade, Zenon
    <3>3. switch_task(0, SCHEDULERS, FALSE) /\ MUTEXES' = MUTEXES
      BY <3>2, Zenon DEF Sys1Yield
    <3>4. QED
      BY <1>1, <2>2, <3>3, YieldInStep, ZenonT(30)
  <2>7. QED
    BY <1>3, <2>3, <2>4, <2>5, <2>6, Zenon
<1>4. CASE at[A] \in {4, 6}
  <2>1. NextCall(A)[1] = "send" /\ NextCall(A)[2] = 2 /\ After(A) = at[A] + 1
    BY <1>4, CallsOfA
  <2>2. Rendezvous(0, 2, "BlockedOnIpcRecv", "BlockedOnIpcSend")
    BY <1>1, <2>1, CallMade, Zenon
  <2>3. QED
    BY <1>1, <1>4, <2>1, <2>2, AExchanges, Zenon
<1>5. CASE at[A] \in {5, 7}
  <2>1. NextCall(A)[1] = "recv" /\ NextCall(A)[2] = 3 /\ After(A) = at[A] + 1
    BY <1>5, CallsOfA
  <2>2. Rendezvous(0, 3, "BlockedOnIpcSend", "BlockedOnIpcRecv")
    BY <1>1, <2>1, CallMade, Zenon
  <2>3. QED
    BY <1>1, <1>5, <2>1, <2>2, AExchanges, Zenon
<1>6. CASE at[A] = 8
  <2>1. NextCall(A)[1] = "send" /\ NextCall(A)[2] = 0 /\ After(A) = at[A] + 1
    BY <1>6, CallsOfA
  <2>2. Rendezvous(0, 0, "BlockedOnIpcRecv", "BlockedOnIpcSend")
    BY <1>1, <2>1, CallMade, Zenon
  <2>3. QED
    BY <1>1, <1>6, <2>1, <2>2, AExchanges, Zenon
<1>7. QED
  BY <1>3, <1>4, <1>5, <1>6, SMTT(30) DEF ProgramInv

\* ... and every call of the HSM.
LEMMA CallOfHsm ==
    ASSUME IInv, ProgramInv, SInv, Calls(0), Current(0) = HSM
    PROVE  SInv'
<1>1. /\ at'[HSM] = After(HSM) /\ at'[A] = at[A] /\ unanswered' = unanswered
      /\ 0 \in Hart
  BY ProgramMoves, PartitionFacts, SMTT(30) DEF ProgramInv, Hart
<1>2. CASE at[HSM] = 1
  <2>1. NextCall(HSM)[1] = "checkin" /\ NextCall(HSM)[2] = 0 /\ After(HSM) = 2
    BY <1>2, CallsOfHsm, SMTT(30)
  <2>2. UNCHANGED vars
    BY <1>1, <2>1, CallMade, Zenon
  <2>3. /\ Up(St(SCHEDULERS, 0, HSM))
        /\ Signing(SCHEDULERS, MUTEXES, at[A], 1, unanswered)
    BY <1>2, Zenon DEF SInv, Current
  <2>4. Signing(SCHEDULERS, MUTEXES, at[A], 2, unanswered)
    BY <2>3, SMTT(30) DEF Signing, AtHsm, OwesIn, Up
  <2>5. QED
    BY <1>1, <2>1, <2>2, <2>4, QuietInStep, Zenon DEF vars
<1>3. CASE at[HSM] = 2
  <2>1. NextCall(HSM)[1] = "recv" /\ NextCall(HSM)[2] = 2 /\ After(HSM) = 3
    BY <1>3, CallsOfHsm
  <2>2. Rendezvous(0, 2, "BlockedOnIpcSend", "BlockedOnIpcRecv")
    BY <1>1, <2>1, CallMade, Zenon
  <2>3. QED
    BY <1>1, <1>3, <2>1, <2>2, HsmExchanges, Zenon
<1>4. CASE at[HSM] = 3
  <2>1. NextCall(HSM)[1] = "send" /\ NextCall(HSM)[2] = 3 /\ After(HSM) = 1
    BY <1>4, CallsOfHsm
  <2>2. Rendezvous(0, 3, "BlockedOnIpcRecv", "BlockedOnIpcSend")
    BY <1>1, <2>1, CallMade, Zenon
  <2>3. QED
    BY <1>1, <1>4, <2>1, <2>2, HsmExchanges, Zenon
<1>5. QED
  BY <1>2, <1>3, <1>4, SMTT(30) DEF ProgramInv

\* A contained fault, of task C or of the HSM.
LEMMA FaultInStep ==
    ASSUME IInv, SInv, NEW h \in Hart, Fault(h),
           unanswered => unanswered',
           Current(h) = HSM /\ OwesIn(SCHEDULERS, at[HSM]) => unanswered',
           at[A] \in Nat, at'[A] = at[A], at'[HSM] = at[HSM]
    PROVE  SInv'
<1>1. /\ Current(h) # IDLE /\ MUTEXES' = Recovered(Current(h))
      /\ switch_task(h, TerminatedAndRecovered(h, Current(h)), FALSE)
  BY ZenonT(30) DEF Fault, Traps
<1>2. PICK i \in Slot : i = Current(h) /\ i \in Tasks[h] \ {IDLE}
  BY <1>1, InvFacts, Zenon
<1>3. PICK S : S = TerminatedAndRecovered(h, i)
  BY Zenon
<1>4. /\ S \in [Hart -> BitMapScheduler]
      /\ S[0].current = Current(0) /\ Current(0) = SCHEDULERS[0].current
      /\ 0 \in Hart /\ Current(0) \in Slot /\ IDLE \in Slot
  BY <1>2, <1>3, TerminationGood, InvFacts, SlotFacts, SMTT(30) DEF Hart
<1>5. /\ St(S, 0, IDLE) = St(SCHEDULERS, 0, IDLE)
      /\ h = 1 => \/ St(S, 0, Current(0)) = Ready
                  \/ St(S, 0, Current(0)) = St(SCHEDULERS, 0, Current(0))
  BY <1>2, <1>3, <1>4, TerminationFacts, SMTT(30)
<1>6. h = 1 => Up(St(S, 0, S[0].current))
  BY <1>4, <1>5, SMTT(30) DEF SInv, Up, Ready, State
<1>7. Signing(SCHEDULERS, MUTEXES, at[A], at[HSM], unanswered)
  BY Zenon DEF SInv
<1>8. Signing(S, Recovered(i), at[A], at[HSM], unanswered')
  BY <1>2, <1>3, <1>7, TerminationSigns, SMTT(30)
<1>9. Signing(S, MUTEXES', at'[A], at'[HSM], unanswered')
  BY <1>1, <1>2, <1>8, Zenon
<1>10. Prepared(S) /\ switch_task(h, S, FALSE)
  BY <1>1, <1>2, <1>3, <1>4, <1>5, ZenonT(30) DEF Prepared
<1>11. QED
  BY <1>6, <1>9, <1>10, SwitchInStep, Zenon

\* The calls of tasks B and C do not reach into the exchange.
LEMMA CallOfOthers ==
    ASSUME IInv, ProgramInv, SInv, Calls(1)
    PROVE  SInv'
<1>1. 1 \in Hart /\ (Current(1) = B \/ Current(1) = C)
  BY CallFacts, Zenon DEF Hart
<1>2. at'[A] = at[A] /\ at'[HSM] = at[HSM] /\ unanswered' = unanswered /\ at[A] \in Nat
  BY <1>1, ProgramMoves, PartitionFacts, Zenon DEF ProgramInv
<1>3. Signing(SCHEDULERS, MUTEXES, at[A], at[HSM], unanswered)
  BY Zenon DEF SInv
<1>4. CASE UNCHANGED vars
  BY <1>2, <1>3, <1>4, QuietInStep, Zenon DEF vars
<1>5. CASE Sys1Yield(1)
  <2>1. switch_task(1, SCHEDULERS, FALSE) /\ MUTEXES' = MUTEXES
    BY <1>5, Zenon DEF Sys1Yield
  <2>2. QED
    BY <1>1, <1>2, <1>3, <2>1, YieldInStep, ZenonT(30)
<1>6. CASE Current(1) = B
  <2>1. CASE at[B] = 1
    <3>1. NextCall(B)[1] = "recv" /\ NextCall(B)[2] = 0
      BY <2>1, CallsOfB, SMTT(30)
    <3>2. Rendezvous(1, 0, "BlockedOnIpcSend", "BlockedOnIpcRecv")
      BY <1>1, <1>6, <3>1, CallMade
    <3>3. QED
      BY <1>2, <1>6, <3>2, BReceives, Zenon
  <2>2. CASE at[B] = 2
    <3>1. NextCall(B)[1] \in {"checkin", "hang"}
      BY <2>2, CallsOfB, Zenon
    <3>2. UNCHANGED vars
      BY <1>1, <1>6, <3>1, CallMade
    <3>3. QED
      BY <1>4, <3>2, Zenon
  <2>3. CASE at[B] = 3
    <3>1. NextCall(B)[1] = "yield"
      BY <2>3, CallsOfB
    <3>2. Sys1Yield(1)
      BY <1>1, <1>6, <3>1, CallMade, SMTT(30)
    <3>3. QED
      BY <1>5, <3>2, Zenon
  <2>4. QED
    BY <2>1, <2>2, <2>3 DEF ProgramInv
<1>7. CASE Current(1) = C
  <2>1. \/ UNCHANGED vars
        \/ Sys3Lock(1, 0)
        \/ Sys4Unlock(1, 0) \/ Sys4UnlockPanics(1, 0)
        \/ Sys1Yield(1)
        \/ Fault(1)
    <3>1. /\ NextCall(C)[1] \in {"lock", "unlock", "yield", "fault", "checkin", "spin"}
          /\ NextCall(C)[1] \in {"lock", "unlock"} => NextCall(C)[2] = 0
      BY CallsOfC, Zenon
    <3>2. PICK call, arg : call = NextCall(C)[1] /\ arg = NextCall(C)[2]
      BY Zenon
    <3>3. QED
      BY <1>1, <1>7, <3>1, <3>2, CallMade, SMTT(30)
  <2>2. CASE Sys3Lock(1, 0)
    BY <1>2, <1>7, <2>2, CLocks, Zenon
  <2>3. CASE Sys4Unlock(1, 0)
    BY <1>1, <1>2, <1>3, <2>3, UnlockInStep, Zenon
  <2>4. CASE Sys4UnlockPanics(1, 0)
    BY <1>2, <1>3, <2>4, QuietInStep, Zenon DEF Sys4UnlockPanics
  <2>5. CASE Fault(1)
    <3>1. Current(1) # HSM
      BY <1>7, PartitionFacts, Zenon
    <3>2. QED
      BY <1>1, <1>2, <2>5, <3>1, FaultInStep, Zenon
  <2>6. QED
    BY <1>4, <1>5, <2>1, <2>2, <2>3, <2>4, <2>5, SMTT(30)
<1>8. QED
  BY <1>1, <1>6, <1>7, Zenon

\* The HSM faults with a request it has taken.
LEMMA HsmFaultInStep ==
    ASSUME IInv, ProgramInv, SInv, HsmFaults
    PROVE  SInv'
<1>1. Fault(0) /\ at' = at /\ 0 \in Hart
  BY Zenon DEF HsmFaults, Hart
<1>2. at[A] \in Nat
  BY DEF ProgramInv
<1>3. Owes <=> OwesIn(SCHEDULERS, at[HSM])
  BY PartitionFacts, InvFacts, Zenon DEF Owes, OwesIn
<1>4. /\ unanswered => unanswered'
      /\ OwesIn(SCHEDULERS, at[HSM]) => unanswered'
  BY <1>3, Zenon DEF HsmFaults
<1>5. QED
  BY <1>1, <1>2, <1>4, FaultInStep, Zenon

\* The scan terminates a task that has missed its deadline.
LEMMA ChecksInStep ==
    ASSUME IInv, ProgramInv, SInv, WatchdogChecks
    PROVE  SInv'
<1>1. at' = at /\ at[A] \in Nat
  <2>1. at' = at
    BY Zenon DEF WatchdogChecks
  <2>2. QED
    BY <2>1 DEF ProgramInv
<1>2. Owes <=> OwesIn(SCHEDULERS, at[HSM])
  BY PartitionFacts, InvFacts, Zenon DEF Owes, OwesIn
<1>3. /\ unanswered => unanswered'
      /\ Failed(HSM) /\ OwesIn(SCHEDULERS, at[HSM]) => unanswered'
      /\ unanswered' => unanswered \/ Failed(HSM)
  BY <1>2, Zenon DEF WatchdogChecks
<1>4. Signing(SCHEDULERS, MUTEXES, at[A], at[HSM], unanswered)
  BY Zenon DEF SInv
<1>5. CASE UNCHANGED vars
  <2>1. Signing(SCHEDULERS, MUTEXES, at[A], at[HSM], unanswered')
    BY <1>3, <1>4, Zenon DEF Signing
  <2>2. QED
    BY <1>1, <1>5, <2>1, QuietInStep, Zenon DEF vars
<1>6. ASSUME \E j \in Monitored : Failed(j), Sys8Terminate(failed_task)
      PROVE  SInv'
  <2>1. PICK i \in Monitored : i = failed_task /\ (Failed(HSM) => i = HSM) /\ Failed(i)
    <3>1. failed_task \in Monitored /\ (Failed(HSM) => failed_task = HSM) /\ Failed(failed_task)
      BY <1>6, FailedTaskFacts, Zenon
    <3>2. QED
      BY <3>1, Zenon
  <2>2. PICK h \in Hart : /\ SCHEDULERS' = TerminatedAndRecovered(h, i)
                          /\ KindOf(h, i) # "None"
    <3>1. LET h == IF KindOf(0, i) # "None" THEN 0 ELSE 1 IN
          h \in Hart /\ SCHEDULERS' = TerminatedAndRecovered(h, i) /\ KindOf(h, i) # "None"
      BY <1>6, <2>1, Zenon DEF Sys8Terminate, Hart
    <3>2. QED
      BY <3>1, Zenon
  <2>3. /\ MUTEXES' = Recovered(i) /\ Current(0) = WATCHDOG
    BY <1>6, <2>1, Zenon DEF Sys8Terminate, Scanning
  <2>4. i \in Slot /\ i # IDLE /\ i # WATCHDOG
    BY PartitionFacts, Zenon
  <2>5. i \in Tasks[h] \ {IDLE}
    BY <2>2, <2>4, InvFacts, SMTT(30) DEF IInv, Good, Sane
  <2>6. i = HSM /\ OwesIn(SCHEDULERS, at[HSM]) => unanswered'
    BY <1>3, <2>1, Zenon
  <2>7. Signing(SCHEDULERS', MUTEXES', at'[A], at'[HSM], unanswered')
    BY <1>1, <1>3, <1>4, <2>2, <2>3, <2>4, <2>5, <2>6, TerminationSigns, SMTT(30)
  <2>8. /\ SCHEDULERS'[0].current = Current(0) /\ Current(0) = SCHEDULERS[0].current
        /\ 0 \in Hart /\ Current(0) \in Slot
    BY <2>2, <2>4, <2>5, TerminationGood, InvFacts, Zenon DEF Hart
  <2>9. \/ St(SCHEDULERS', 0, Current(0)) = Ready
        \/ St(SCHEDULERS', 0, Current(0)) = St(SCHEDULERS, 0, Current(0))
    BY <2>2, <2>3, <2>4, <2>5, <2>8, TerminationFacts, SMTT(30)
  <2>10. Up(St(SCHEDULERS', 0, SCHEDULERS'[0].current))
    BY <2>8, <2>9 DEF SInv, Up, Ready, State
  <2>11. QED
    BY <2>7, <2>10, Zenon DEF SInv
<1>7. QED
  BY <1>5, <1>6, Zenon DEF WatchdogChecks

\* The watchdog goes to sleep.
LEMMA SleepInStep ==
    ASSUME IInv, SInv, WatchdogSleeps
    PROVE  SInv'
<1>1. /\ Current(0) = WATCHDOG /\ WATCHDOG # IDLE /\ MUTEXES' = MUTEXES
      /\ switch_task(0, SetState(SCHEDULERS, 0, WATCHDOG,
                                 State("Blocked", (TICK_COUNT + PERIOD) % TICK_MOD)), FALSE)
      /\ UNCHANGED <<at, unanswered>>
  BY Zenon DEF WatchdogSleeps, At, Sys2Sleep, Traps, programVars
<1>2. PICK st \in TaskState : /\ st = State("Blocked", (TICK_COUNT + PERIOD) % TICK_MOD)
                              /\ st.kind = "Blocked"
  <2>1. PICK n \in Nat : n = (TICK_COUNT + PERIOD) % TICK_MOD
    BY KernelAssumption, SystemAssumption DEF IInv, RestTypeOK
  <2>2. LET st == State("Blocked", n) IN st \in TaskState /\ st.kind = "Blocked"
    BY Zenon DEF State, TaskState, Kind
  <2>3. QED
    BY <2>1, <2>2, Zenon
<1>3. 0 \in Hart /\ WATCHDOG \in Slot /\ WATCHDOG \notin {A, HSM}
  BY PartitionFacts, SlotFacts, Zenon
<1>4. With(SCHEDULERS, SetState(SCHEDULERS, 0, WATCHDOG, st), 0, WATCHDOG, st)
  BY <1>3, SetStateWith, Zenon
<1>5. Signing(SCHEDULERS, MUTEXES, at[A], at[HSM], unanswered)
  BY Zenon DEF SInv
<1>6. Signing(SetState(SCHEDULERS, 0, WATCHDOG, st), MUTEXES, at[A], at[HSM], unanswered)
  BY <1>2, <1>3, <1>4, <1>5, OtherChanges, Zenon
<1>7. /\ Signing(SetState(SCHEDULERS, 0, WATCHDOG, st), MUTEXES', at[A], at[HSM], unanswered)
      /\ switch_task(0, SetState(SCHEDULERS, 0, WATCHDOG, st), FALSE)
  BY <1>1, <1>2, <1>6, ZenonT(30)
<1>8. at'[A] = at[A] /\ at'[HSM] = at[HSM] /\ unanswered' = unanswered
  BY <1>1, Zenon
<1>9. QED
  BY <1>1, <1>3, <1>7, <1>8, CallerInStep, ZenonT(30)

\* The watchdog restarts task C.
LEMMA RestartCInStep ==
    ASSUME IInv, ProgramInv, SInv, WatchdogRestartsC
    PROVE  SInv'
<1>1. at'[A] = at[A] /\ at'[HSM] = at[HSM] /\ unanswered' = unanswered
  BY PartitionFacts, ZenonT(30) DEF WatchdogRestartsC, ProgramInv
<1>2. Signing(SCHEDULERS, MUTEXES, at[A], at[HSM], unanswered)
  BY Zenon DEF SInv
<1>3. CASE UNCHANGED vars
  BY <1>1, <1>2, <1>3, QuietInStep, SMTT(30) DEF vars
<1>4. CASE WatchdogRestarts(1, C)
  <2>1. SCHEDULERS' = SetState(SCHEDULERS, 1, C, Ready) /\ MUTEXES' = MUTEXES
    BY <1>4, Zenon DEF WatchdogRestarts
  <2>2. 1 \in Hart /\ C \in Slot
    BY PartitionFacts, Zenon
  <2>3. Ready \in TaskState /\ Ready.kind = "Ready"
    BY SlotFacts, Zenon DEF Ready, State
  <2>4. With(SCHEDULERS, SetState(SCHEDULERS, 1, C, Ready), 1, C, Ready)
    BY <2>2, <2>3, SetStateWith, Zenon
  <2>5. Signing(SetState(SCHEDULERS, 1, C, Ready), MUTEXES, at[A], at[HSM], unanswered)
    BY <1>2, <2>2, <2>3, <2>4, OtherChanges
  <2>6. QED
    BY <1>1, <2>1, <2>2, <2>5, ReadyInStep, SMTT(30)
<1>5. QED
  BY <1>3, <1>4, Zenon DEF WatchdogRestartsC

\* The watchdog restarts the HSM, at the beginning of its program.
LEMMA RestartHsmInStep ==
    ASSUME IInv, ProgramInv, SInv, WatchdogRestartsHsm
    PROVE  SInv'
<1>1. at'[A] = at[A] /\ unanswered' = unanswered
  <2>1. /\ at' = at \/ at' = [at EXCEPT ![HSM] = 1]
        /\ unanswered' = unanswered
    BY ZenonT(30) DEF WatchdogRestartsHsm
  <2>2. QED
    BY <2>1, PartitionFacts DEF ProgramInv
<1>2. Signing(SCHEDULERS, MUTEXES, at[A], at[HSM], unanswered)
  BY Zenon DEF SInv
<1>3. CASE UNCHANGED vars /\ at' = at
  <2>1. SCHEDULERS' = SCHEDULERS /\ MUTEXES' = MUTEXES /\ at'[HSM] = at[HSM]
    BY <1>3, Zenon DEF vars
  <2>2. QED
    BY <1>1, <1>2, <2>1, QuietInStep, Zenon
<1>4. CASE /\ KindOf(0, HSM) = "Terminated" /\ WatchdogRestarts(0, HSM)
           /\ at' = [at EXCEPT ![HSM] = 1]
  <2> DEFINE R == SetState(SCHEDULERS, 0, HSM, Ready)
  <2>1. SCHEDULERS' = R /\ MUTEXES' = MUTEXES
    BY <1>4, Zenon DEF WatchdogRestarts
  <2>2. 0 \in Hart /\ HSM \in Slot /\ at'[HSM] = 1
    BY <1>4, PartitionFacts, Zenon DEF ProgramInv
  <2>3. Ready \in TaskState /\ Ready.kind = "Ready"
    BY SlotFacts, Zenon DEF Ready, State
  <2>4. With(SCHEDULERS, R, 0, HSM, Ready)
    BY <2>2, <2>3, SetStateWith, Zenon
  <2>5. /\ St(R, 0, HSM) = Ready /\ St(R, 0, A) = St(SCHEDULERS, 0, A)
        /\ St(SCHEDULERS, 0, HSM).kind = "Terminated"
    BY <1>4, <2>2, <2>4, PartitionFacts, InvFacts, SMTT(30) DEF With
  <2>6. OthersApart(R)
    BY <1>2, <2>4, SMTT(30) DEF With, Signing, OthersApart
  <2>7. AtHsm(R, 1) /\ ~OwesIn(R, 1) /\ ~OwesIn(SCHEDULERS, at[HSM])
    BY <2>3, <2>5 DEF AtHsm, OwesIn
  <2>8. AtA(R, at[A]) /\ BitOfA(R, MUTEXES, at[A])
        /\ (AwaitsIn(R, at[A]) <=> AwaitsIn(SCHEDULERS, at[A]))
    BY <1>2, <2>5, ZenonT(30) DEF Signing, AtA, BitOfA, AwaitsIn
  <2>9. Signing(R, MUTEXES, at[A], 1, unanswered)
    BY <1>2, <2>6, <2>7, <2>8, Zenon DEF Signing
  <2>10. QED
    BY <1>1, <2>1, <2>2, <2>9, ReadyInStep, Zenon
<1>5. QED
  BY <1>3, <1>4, ZenonT(30) DEF WatchdogRestartsHsm

-----------------------------------------------------------------------------
(* The theorem                                                              *)

\* At boot nobody is parked and every program is at its beginning.
LEMMA SigningInit == Init_System => SInv
<1> SUFFICES ASSUME Init_System PROVE SInv
  BY Zenon
<1>1. /\ SCHEDULERS = [h \in Hart |-> start_first_task(Registered(Tasks[h]))]
      /\ MUTEXES = [m \in Mutex |-> [locked |-> FALSE, owner |-> NoOwner, waiters |-> {}]]
  BY Zenon DEF Init_System, Init
<1>2. ASSUME NEW h \in Hart
      PROVE  /\ SCHEDULERS[h].current \in Slot
             /\ St(SCHEDULERS, h, SCHEDULERS[h].current) = Running
             /\ \A i \in Slot : St(SCHEDULERS, h, i) \in {Running, Ready, NoTask}
  <2>1. Tasks[h] \in SUBSET Slot /\ IDLE \in Tasks[h]
    BY KernelAssumption, Zenon
  <2>2. QED
    BY <1>1, <2>1, BootScheduler, SMTT(30) DEF St
<1>3. Running.kind = "Running" /\ Ready.kind = "Ready" /\ NoTask.kind = "None"
  BY Zenon DEF Running, Ready, NoTask, State
<1>4. at[A] = 1 /\ at[HSM] = 1
  BY PartitionFacts, Zenon DEF Init_System, Init_Programs
<1>5. Up(St(SCHEDULERS, 0, SCHEDULERS[0].current))
  BY <1>2, <1>3, Zenon DEF Up, Hart
<1>6. /\ St(SCHEDULERS, 0, A).kind \in {"Running", "Ready", "None"}
      /\ St(SCHEDULERS, 0, HSM).kind \in {"Running", "Ready", "None"}
      /\ OthersApart(SCHEDULERS)
  BY <1>2, <1>3, PartitionFacts, Zenon DEF OthersApart
<1>7. \A m \in Mutex : MUTEXES[m].waiters = {}
  BY <1>1, Zenon
<1>8. Signing(SCHEDULERS, MUTEXES, at[A], at[HSM], unanswered)
  BY <1>4, <1>6, <1>7, SMTT(30) DEF Signing, AtA, AtHsm, BitOfA, OwesIn, AwaitsIn
<1>9. QED
  BY <1>5, <1>8, Zenon DEF SInv

\* Every step of the system keeps the two in step.
LEMMA SigningStep ==
    IInv /\ ProgramInv /\ SInv /\ [Next_System]_systemVars => SInv'
<1> SUFFICES ASSUME IInv, ProgramInv, SInv, [Next_System]_systemVars PROVE SInv'
  BY Zenon
<1>1. ASSUME SCHEDULERS' = SCHEDULERS, MUTEXES' = MUTEXES, UNCHANGED <<at, unanswered>>
      PROVE  SInv'
  BY <1>1, Zenon DEF SInv
<1>2. ASSUME NEW h \in Hart, Calls(h) PROVE SInv'
  <2>1. CASE h = 0
    BY <1>2, <2>1, CallFacts, CallOfA, CallOfHsm, Zenon
  <2>2. CASE h = 1
    BY <1>2, <2>2, CallOfOthers, Zenon
  <2>3. QED
    BY <2>1, <2>2, Zenon DEF Hart
<1>3. ASSUME NEW h \in Hart, Ticks(h) PROVE SInv'
  BY <1>1, <1>3, Zenon DEF Ticks, TimerEntry, programVars
<1>4. ASSUME NEW h \in Hart, Handles(h) PROVE SInv'
  <2>1. at'[A] = at[A] /\ at'[HSM] = at[HSM] /\ unanswered' = unanswered
    BY <1>4, ProgramMoves, PartitionFacts, Zenon DEF ProgramInv
  <2>2. CASE TimerInterrupt(h)
    BY <2>1, <2>2, TimerInStep, Zenon
  <2>3. CASE SoftwareInterrupt(h)
    <3>1. switch_task(h, SCHEDULERS, FALSE) /\ MUTEXES' = MUTEXES
      BY <2>3, Zenon DEF SoftwareInterrupt
    <3>2. Signing(SCHEDULERS, MUTEXES', at[A], at[HSM], unanswered)
      BY <3>1, Zenon DEF SInv
    <3>3. QED
      BY <2>1, <3>1, <3>2, YieldInStep, ZenonT(30)
  <2>4. QED
    BY <1>4, <2>2, <2>3, Zenon DEF Handles
<1>5. CASE WatchdogLoads \/ WatchdogStartsScan \/ WatchdogEndsScan
  BY <1>1, <1>5, Zenon
     DEF WatchdogLoads, WatchdogStartsScan, WatchdogEndsScan, WatchdogLocks,
         WatchdogUnlocks, vars, programVars
<1>6. CASE UNCHANGED systemVars
  BY <1>1, <1>6, Zenon DEF systemVars, vars, programVars
<1>7. QED
  BY <1>2, <1>3, <1>4, <1>5, <1>6, HsmFaultInStep, ChecksInStep, SleepInStep,
     RestartCInStep, RestartHsmInStep, Zenon DEF Next_System, watchdog_task

\* The invariant says what SigningInStep says.
LEMMA SigningImplies == IInv /\ SInv => SigningInStep
<1> SUFFICES ASSUME IInv, SInv PROVE SigningInStep
  BY Zenon
<1>1. /\ KindOf(0, A) = St(SCHEDULERS, 0, A).kind
      /\ KindOf(0, HSM) = St(SCHEDULERS, 0, HSM).kind
  BY PartitionFacts, InvFacts, Zenon
<1>2. /\ Owes <=> OwesIn(SCHEDULERS, at[HSM])
      /\ Awaits <=> AwaitsIn(SCHEDULERS, at[A])
  BY <1>1, Zenon DEF Owes, OwesIn, Awaits, AwaitsIn
<1>3. QED
  BY <1>1, <1>2, Zenon DEF SInv, Signing, SigningInStep

\* For every timing of the watchdog and the clock, every number of HSM faults
\* and every kernel configuration with these partitions: the HSM owes a reply
\* only to a task A that waits for it or is gone, and task A waits in vain only
\* for an HSM that died with its request (hsm.rs, watchdog_task).
THEOREM SigningStaysInStep == Spec_System => []SigningInStep
<1>1. Spec_System => []IInv
  BY SystemImplementsKernel, InductiveInvariant, PTL
<1>2. Spec_System => []ProgramInv
  BY ProgramInit, ProgramStep, PTL DEF Spec_System
<1>3. Spec_System => []SInv
  BY <1>1, <1>2, SigningInit, SigningStep, PTL DEF Spec_System
<1>4. QED
  BY <1>1, <1>3, SigningImplies, PTL

=============================================================================
