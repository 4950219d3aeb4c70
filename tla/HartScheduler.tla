---------------------------- MODULE HartScheduler ----------------------------
(***************************************************************************)
(* One hart's scheduler driven by everything the kernel does to it: timer  *)
(* ticks, yields, blocking system calls, wake-ups and terminations issued  *)
(* by either hart, the software interrupt, and restarts.  Two histories    *)
(* record how a ready partition is served.                                 *)
(***************************************************************************)
EXTENDS Scheduler, FiniteSets

CONSTANT Tasks   \* the registered slots, IDLE among them

ASSUME TasksAssumption == Tasks \subseteq Slot /\ IDLE \in Tasks

Partitions == Tasks \ {IDLE}

VARIABLES
    sched,   \* the BitMapScheduler
    waited,  \* history: ticks for which each partition has been Ready
    passes   \* history: passes[y][x], dispatches of x since y became Ready

vars == <<sched, waited, passes>>

KindOf(i) == sched.task_table[i].kind

\* Histories stop counting one above what the properties allow.
WaitBound == MIF * (Cardinality(Tasks) - 1)
Capped(n, bound) == IF n > bound THEN bound + 1 ELSE n

\* y was Ready before the step and still is after it.
StaysReady(y) == KindOf(y) = "Ready" /\ sched'.task_table[y].kind = "Ready"

\* The step ends with schedule(is_tick) on s; the histories follow it.
Reschedule(s, is_tick) ==
    /\ sched' = schedule(s, is_tick)
    /\ waited' = [y \in Partitions |->
          IF StaysReady(y)
          THEN Capped(waited[y] + (IF is_tick THEN 1 ELSE 0), WaitBound)
          ELSE 0]
    /\ passes' = [y \in Partitions |-> [x \in Tasks |->
          IF ~StaysReady(y) THEN 0
          ELSE IF Switches(s, is_tick) /\ x = sched'.current
               THEN Capped(passes[y][x] + 1, 1)
               ELSE passes[y][x]]]

\* The step changes the state of slot i and does not call schedule().
Assign(i, state) ==
    /\ sched' = [sched EXCEPT !.task_table[i] = state]
    /\ waited' = [y \in Partitions |-> IF StaysReady(y) THEN waited[y] ELSE 0]
    /\ passes' = [y \in Partitions |->
          IF StaysReady(y) THEN passes[y] ELSE [x \in Tasks |-> 0]]

Init ==
    /\ sched = start_first_task(Registered(Tasks))
    /\ waited = [y \in Partitions |-> 0]
    /\ passes = [y \in Partitions |-> [x \in Tasks |-> 0]]

\* The timer trap: the sleepers due at this tick are woken, then the tick is
\* charged. Which sleepers are due is left open here.
Tick ==
    \E due \in SUBSET {i \in Partitions : KindOf(i) = "Blocked"} :
        Reschedule([sched EXCEPT !.task_table =
                       [i \in Slot |-> IF i \in due THEN Ready ELSE sched.task_table[i]]],
                   TRUE)

\* yield, the end of unlock, and the software interrupt.
Yield == Reschedule(sched, FALSE)

\* A blocking system call of the current task.
Block ==
    /\ sched.current # IDLE
    /\ Reschedule([sched EXCEPT !.task_table[sched.current] = State("Blocked", 0)], FALSE)

\* A fault of the current task, or its termination by itself.
Exit ==
    /\ sched.current # IDLE
    /\ Reschedule([sched EXCEPT !.task_table[sched.current] = Terminated], FALSE)

\* Termination of another task, or from the other hart.
Terminate(i) == Assign(i, Terminated)

\* A rendezvous or an unlock wakes the task.
Wake(i) == KindOf(i) = "Blocked" /\ Assign(i, Ready)

\* The watchdog re-registers a terminated task.
Restart(i) == KindOf(i) = "Terminated" /\ Assign(i, Ready)

Next ==
    \/ Tick \/ Yield \/ Block \/ Exit
    \/ \E i \in Partitions : Terminate(i) \/ Wake(i) \/ Restart(i)

Spec == Init /\ [][Next]_vars

-----------------------------------------------------------------------------
(* Properties *)

\* Every state component has its type.
TypeOK ==
    /\ sched \in BitMapScheduler
    /\ waited \in [Partitions -> 0 .. WaitBound + 1]
    /\ passes \in [Partitions -> [Tasks -> 0 .. 2]]

\* schedule() is fair between partitions: while a partition stays Ready no
\* other slot, idle included, is dispatched twice, whatever mix of ticks,
\* yields, blocks and wake-ups drives the scheduler.
BoundedBypass == \A y \in Partitions, x \in Tasks : passes[y][x] <= 1

\* A partition that stays Ready is dispatched by the last tick of one MIF for
\* each other registered slot, the idle slot's own slice included.
WaitBounded == \A y \in Partitions : waited[y] < WaitBound

\* A call of schedule() hands the hart to the idle task only when no
\* partition is Ready, and otherwise leaves a runnable task current (the
\* progress assertion of the Kani harness of bitmap.rs).
ProgressStep ==
    [][/\ sched'.current = IDLE /\ sched.current # IDLE
             => \A i \in Partitions : sched'.task_table[i].kind = "Ready" =>
                    i = sched.current
       /\ (Yield \/ Block \/ Exit) => CurrentRunnable(sched')]_vars

-----------------------------------------------------------------------------
(* The loop of schedule() as the code writes it                              *)

\* Pass 1 step by step: the slot at which the scan stops when `left` steps of it
\* remain at next_idx, or MAX_PARTITIONS if it finds none.
Scan[left \in 0 .. MAX_PARTITIONS] ==
    [next_idx \in Slot |->
        IF left = 0 THEN MAX_PARTITIONS
        ELSE IF next_idx # IDLE /\ KindOf(next_idx) = "Ready" THEN next_idx
        ELSE Scan[left - 1][(next_idx + 1) % MAX_PARTITIONS]]

\* The declarative search used by the specification finds, in every reachable
\* table, the slot the code's cyclic loop stops at, and nothing when that
\* loop runs out.
SearchIsTheLoop ==
    LET found == Scan[MAX_PARTITIONS][(sched.current + 1) % MAX_PARTITIONS]
    IN  IF found = MAX_PARTITIONS
        THEN ReadyPartitions(sched) = {}
        ELSE ReadyPartitions(sched) # {} /\ NextPartition(sched) = found

=============================================================================
