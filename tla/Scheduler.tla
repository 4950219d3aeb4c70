------------------------------ MODULE Scheduler ------------------------------
(***************************************************************************)
(* The time-partition scheduler of one hart: the data of BitMapScheduler   *)
(* and TaskState, and the scheduling decision schedule() as an operator.   *)
(* Source: scheduler/src/bitmap.rs, scheduler/src/tcb.rs.                  *)
(***************************************************************************)
EXTENDS Naturals

CONSTANTS
    MAX_PARTITIONS,  \* slots of a task table (32 in the code)
    MIF              \* partition_durations, the same for every slot (100 ticks)

ASSUME SchedulerAssumption ==
    /\ MAX_PARTITIONS \in Nat /\ MAX_PARTITIONS > 1
    /\ MIF \in Nat /\ MIF > 0

Slot == 0 .. MAX_PARTITIONS - 1

\* The idle partition: the literal 31 of the code, its last slot.
IDLE == MAX_PARTITIONS - 1

-----------------------------------------------------------------------------
(* TaskState. "None" is an empty slot of the table; arg is the payload of   *)
(* the variant: wake_tick, mutex_idx or endpoint_idx.                       *)

Kind == {"None", "Ready", "Running", "Blocked", "BlockedOnMutex",
         "BlockedOnIpcSend", "BlockedOnIpcRecv", "Terminated"}

TaskState == [kind : Kind, arg : Nat]

State(kind, arg) == [kind |-> kind, arg |-> arg]

NoTask     == State("None", 0)
Ready      == State("Ready", 0)
Running    == State("Running", 0)
Terminated == State("Terminated", 0)

BitMapScheduler ==
    [task_table : [Slot -> TaskState], current : Slot, remaining : 0 .. MIF]

\* BitMapScheduler::new followed by register_task for every slot of tasks.
Registered(tasks) ==
    [task_table |-> [i \in Slot |-> IF i \in tasks THEN Ready ELSE NoTask],
     current    |-> 0,
     remaining  |-> MIF]

-----------------------------------------------------------------------------
(* schedule(is_tick)                                                        *)

\* Slip: ticks are not charged to the slice.
Charged_Never(s, is_tick) == s.remaining

\* The budget left after this call has been charged for its tick.
Charged(s, is_tick) ==
    IF is_tick /\ s.remaining > 0 THEN s.remaining - 1 ELSE s.remaining

CurrentRunnable(s) == s.task_table[s.current].kind \in {"Running", "Ready"}

\* Slice expired, forced reschedule, or the current task cannot go on.
Triggered(s, is_tick) ==
    Charged(s, is_tick) = 0 \/ ~is_tick \/ ~CurrentRunnable(s)

\* Slip: the scan begins at the current slot instead of the one after it.
Ahead_FromCurrent(c, i) == IF i >= c THEN i - c ELSE MAX_PARTITIONS + i - c

\* How many steps after slot c the cyclic search looks at slot i (1 ..
\* MAX_PARTITIONS: c itself is looked at last).
Ahead(c, i) == IF i > c THEN i - c ELSE MAX_PARTITIONS + i - c

\* What pass 1 accepts: ready partitions other than the idle one.
ReadyPartitions(s) ==
    {i \in Slot \ {IDLE} : s.task_table[i].kind = "Ready"}

Found(s) == ReadyPartitions(s) # {} \/ s.task_table[IDLE].kind = "Ready"

\* Slip: the scan begins at slot 0, as in a priority scheduler.
NextPartition_Lowest(s) ==
    IF ReadyPartitions(s) # {}
    THEN CHOOSE i \in ReadyPartitions(s) : \A j \in ReadyPartitions(s) : i <= j
    ELSE IDLE

\* Slip: the idle slot is tried before the partitions.
NextPartition_IdleFirst(s) ==
    IF s.task_table[IDLE].kind = "Ready" THEN IDLE
    ELSE CHOOSE i \in ReadyPartitions(s) :
            \A j \in ReadyPartitions(s) : Ahead(s.current, i) <= Ahead(s.current, j)

\* Pass 1 takes the first ready partition after the current one, pass 2 idle.
NextPartition(s) ==
    IF ReadyPartitions(s) # {}
    THEN CHOOSE i \in ReadyPartitions(s) :
            \A j \in ReadyPartitions(s) : Ahead(s.current, i) <= Ahead(s.current, j)
    ELSE IDLE

\* Slip: the preempted task is left Running.
Swap_KeepsRunning(s) ==
    [task_table |-> [s.task_table EXCEPT ![NextPartition(s)] = Running],
     current    |-> NextPartition(s),
     remaining  |-> MIF]

\* Slip: the new slice is one tick too long.
Swap_LongSlice(s) ==
    [task_table |-> [s.task_table EXCEPT ![s.current] =
                        IF @.kind = "Running" THEN Ready ELSE @,
                                         ![NextPartition(s)] = Running],
     current    |-> NextPartition(s),
     remaining  |-> MIF + 1]

\* The partition swap: a Running predecessor becomes Ready, any other state
\* of it (Blocked*, Terminated) is kept.
Swap(s) ==
    LET next == NextPartition(s)
        preempted == IF s.task_table[s.current].kind = "Running"
                     THEN [s.task_table EXCEPT ![s.current] = Ready]
                     ELSE s.task_table
    IN  [task_table |-> [preempted EXCEPT ![next] = Running],
         current    |-> next,
         remaining  |-> MIF]

\* The scheduler after the call.
schedule(s, is_tick) ==
    IF Triggered(s, is_tick) /\ Found(s) THEN Swap(s)
    ELSE [s EXCEPT !.remaining =
             IF Triggered(s, is_tick) /\ CurrentRunnable(s) /\ Charged(s, is_tick) = 0
             THEN MIF
             ELSE Charged(s, is_tick)]

\* The call returns Some: the caller must swap stacks. The `?` on the slot of
\* the old task turns the answer into None when that slot is empty.
Switches(s, is_tick) ==
    Triggered(s, is_tick) /\ Found(s) /\ s.task_table[s.current].kind # "None"

\* start_first_task: the lowest ready slot becomes the current one.
FirstReady(s) ==
    CHOOSE i \in Slot :
        /\ s.task_table[i].kind = "Ready"
        /\ \A j \in Slot : s.task_table[j].kind = "Ready" => i <= j

start_first_task(s) ==
    [task_table |-> [s.task_table EXCEPT ![FirstReady(s)] = Running],
     current    |-> FirstReady(s),
     remaining  |-> MIF]

=============================================================================
