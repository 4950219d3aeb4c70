--------------------------------- MODULE Boot ---------------------------------
(***************************************************************************)
(* From reset to the first partition: kmain on both harts, the barrier     *)
(* between them, registration and start_first_task, which takes no lock,   *)
(* in steps. A hart that has started runs its partitions (System) while    *)
(* the other is still starting.                                            *)
(*                                                                         *)
(* A timer does not fire on a hart between init_timer and the start of its *)
(* first partition: the window is a few instructions on hart 1 and the     *)
(* start of hart 1 on hart 0, the period 40,000 cycles.                    *)
(***************************************************************************)
EXTENDS System

VARIABLES
    pc,             \* pc[h]: where hart h is in kmain
    trusted,        \* what verify_secure_boot finds
    stacks,         \* initialize_stack has run for every task
    registered,     \* calls of register_task made
    mtvec,          \* harts with the trap vector set
    pmp,            \* harts with the memory protection set up
    armed,          \* harts with the timer armed and interrupts enabled
    mscratch,       \* harts with the kernel stack in mscratch
    first_idx,      \* first_idx[h]: local of start_first_task
    BOOT_BARRIER,
    CORE_1_READY

localVars == <<stacks, registered, mtvec, pmp, armed, mscratch, first_idx>>
barrierVars == <<BOOT_BARRIER, CORE_1_READY>>
programAndClockVars == <<programVars, watchdogVars, clockVars>>
bootVars == <<systemVars, pc, trusted, localVars, barrierVars>>

\* The calls of register_task, in order.
Registrations == << <<0, WATCHDOG>>, <<0, A>>, <<0, HSM>>, <<0, IDLE>>,
                    <<1, B>>, <<1, C>>, <<1, IDLE>> >>

\* They are what Kernel's constants say is registered.
ASSUME BootAssumption ==
    \A h \in Hart :
        Tasks[h] = {Registrations[n][2] : n \in {m \in 1 .. 7 : Registrations[m][1] = h}}

\* Statics and registers at reset, with Kernel's and System's variables.
Init_Boot ==
    /\ SCHEDULERS = [h \in Hart |-> Registered({})]
    /\ MUTEXES = [m \in Mutex |-> [locked |-> FALSE, owner |-> NoOwner, waiters |-> {}]]
    /\ TICK_COUNT = 0 /\ SCHED_LOCK = "free" /\ halted = {}
    /\ timer = [h \in Hart |-> NoTick] /\ msip = [h \in Hart |-> FALSE]
    /\ context = [h \in Hart |-> [i \in Slot |-> "fresh"]]
    /\ Init_Programs
    /\ pc = [h \in Hart |-> IF h = 0 THEN "reset" ELSE "barrier"]
    /\ trusted \in BOOLEAN
    /\ stacks = FALSE /\ registered = 0
    /\ mtvec = {} /\ pmp = {} /\ armed = {} /\ mscratch = {}
    /\ first_idx = [h \in Hart |-> 0]
    /\ BOOT_BARRIER = FALSE /\ CORE_1_READY = FALSE

Goes(h, from, to) == pc[h] = from /\ pc' = [pc EXCEPT ![h] = to]

InUser(h) == pc[h] = "user"

-----------------------------------------------------------------------------
(* kmain                                                                    *)

\* Slip: hart 1 does not wait.
AwaitsBarrier_Never ==
    /\ Goes(1, "barrier", "reset")
    /\ UNCHANGED <<systemVars, trusted, localVars, barrierVars>>

\* Hart 1 spins until hart 0 has released it.
AwaitsBarrier ==
    /\ BOOT_BARRIER /\ Goes(1, "barrier", "reset")
    /\ UNCHANGED <<systemVars, trusted, localVars, barrierVars>>

\* The trap vector and init_memory_protection.
Resets(h) ==
    /\ Goes(h, "reset", IF h = 0 THEN "verify" ELSE "timer")
    /\ mtvec' = mtvec \cup {h} /\ pmp' = pmp \cup {h}
    /\ UNCHANGED <<systemVars, trusted, stacks, registered, armed, mscratch, first_idx,
                   barrierVars>>

\* verify_secure_boot: a failure parks hart 0 in a wfi loop. The tamper test and
\* the network self-test that follow only log.
Verifies ==
    /\ Goes(0, "verify", IF trusted THEN "stacks" ELSE "wfi")
    /\ UNCHANGED <<systemVars, trusted, localVars, barrierVars>>

InitializesStacks ==
    /\ Goes(0, "stacks", "register")
    /\ stacks' = TRUE
    /\ UNCHANGED <<systemVars, trusted, registered, mtvec, pmp, armed, mscratch, first_idx,
                   barrierVars>>

Registers ==
    LET hart == Registrations[registered + 1][1]
        slot == Registrations[registered + 1][2]
    IN  /\ Goes(0, "register",
                IF registered + 1 = Len(Registrations) THEN "timer" ELSE "register")
        /\ SCHEDULERS' = SetState(SCHEDULERS, hart, slot, Ready)
        /\ registered' = registered + 1
        /\ UNCHANGED <<MUTEXES, TICK_COUNT, timer, msip, context, SCHED_LOCK, halted,
                       programAndClockVars, trusted, stacks, mtvec, pmp, armed, mscratch,
                       first_idx, barrierVars>>

init_timer(h) ==
    /\ Goes(h, "timer", IF h = 0 THEN "release" ELSE "signal")
    /\ armed' = armed \cup {h}
    /\ UNCHANGED <<systemVars, trusted, stacks, registered, mtvec, pmp, mscratch, first_idx,
                   barrierVars>>

Releases ==
    /\ Goes(0, "release", "wait")
    /\ BOOT_BARRIER' = TRUE
    /\ UNCHANGED <<systemVars, trusted, localVars, CORE_1_READY>>

\* Slip: hart 1 does not say that it is ready.
Signals_Nothing ==
    /\ Goes(1, "signal", "select")
    /\ UNCHANGED <<systemVars, trusted, localVars, barrierVars>>

Signals ==
    /\ Goes(1, "signal", "select")
    /\ CORE_1_READY' = TRUE
    /\ UNCHANGED <<systemVars, trusted, localVars, BOOT_BARRIER>>

AwaitsCore1 ==
    /\ CORE_1_READY /\ Goes(0, "wait", "select")
    /\ UNCHANGED <<systemVars, trusted, localVars, barrierVars>>

-----------------------------------------------------------------------------
(* start_first_task                                                         *)

\* The scan for a ready task, which asserts that there is one.
Selects(h) ==
    /\ \E i \in Slot : KindOf(h, i) = "Ready"
    /\ Goes(h, "select", "point")
    /\ first_idx' = [first_idx EXCEPT ![h] = FirstReady(SCHEDULERS[h])]
    /\ UNCHANGED <<systemVars, trusted, stacks, registered, mtvec, pmp, armed, mscratch,
                   barrierVars>>

Points(h) ==
    /\ Goes(h, "point", "start")
    /\ SCHEDULERS' = [SCHEDULERS EXCEPT ![h].current = first_idx[h], ![h].remaining = MIF]
    /\ UNCHANGED <<MUTEXES, TICK_COUNT, timer, msip, context, SCHED_LOCK, halted,
                   programAndClockVars, trusted, localVars, barrierVars>>

\* Slip: the task is not marked Running.
Starts_Ready(h) ==
    /\ Goes(h, "start", "user")
    /\ context' = [context EXCEPT ![h][first_idx[h]] = "live"]
    /\ mscratch' = mscratch \cup {h}
    /\ UNCHANGED <<SCHEDULERS, MUTEXES, TICK_COUNT, timer, msip, SCHED_LOCK, halted,
                   programAndClockVars, trusted, stacks, registered, mtvec, pmp, armed,
                   first_idx, barrierVars>>

\* The task is Running, its stack opened, mscratch set; mret resumes its frame.
Starts(h) ==
    /\ Goes(h, "start", "user")
    /\ SCHEDULERS' = SetState(SCHEDULERS, h, first_idx[h], Running)
    /\ context' = [context EXCEPT ![h][first_idx[h]] = "live"]
    /\ mscratch' = mscratch \cup {h}
    /\ UNCHANGED <<MUTEXES, TICK_COUNT, timer, msip, SCHED_LOCK, halted,
                   programAndClockVars, trusted, stacks, registered, mtvec, pmp, armed,
                   first_idx, barrierVars>>

kmain(h) ==
    \/ h = 0 /\ (Verifies \/ InitializesStacks \/ Registers \/ Releases \/ AwaitsCore1)
    \/ h = 1 /\ (AwaitsBarrier \/ Signals)
    \/ Resets(h) \/ init_timer(h) \/ Selects(h) \/ Points(h) \/ Starts(h)

-----------------------------------------------------------------------------

\* What a hart does once its first partition runs; ticks come to both.
Partitions ==
    /\ \/ \E h \in Hart : InUser(h) /\ Calls(h)
       \/ \E h \in armed : InUser(0) /\ InUser(1) /\ (Ticks(h) \/ Handles(h))
       \/ InUser(0) /\ (HsmFaults \/ watchdog_task)
    /\ UNCHANGED <<pc, trusted, localVars, barrierVars>>

Next_Boot == (\E h \in Hart : kmain(h)) \/ Partitions

\* Every hart keeps executing kmain.
Spec_Boot ==
    Init_Boot /\ [][Next_Boot]_bootVars /\ \A h \in Hart : WF_bootVars(kmain(h))

-----------------------------------------------------------------------------

\* A hart runs partitions only of a verified image, with every task of both
\* harts registered on an initialised stack, and with its own trap vector,
\* memory protection, timer and kernel stack in place.
RunsPrepared ==
    \A h \in Hart : InUser(h) =>
        /\ trusted /\ stacks
        /\ h \in mtvec \cap pmp \cap armed \cap mscratch
        /\ \A g \in Hart : {i \in Slot : KindOf(g, i) # "None"} = Tasks[g]

\* The two spin loops do not wait on each other: a verified image comes up on
\* both harts.
BootCompletes == trusted ~> (InUser(0) /\ InUser(1))

\* The scheduler of hart h, and the contexts of its tasks, as after its start.
StartedHart(h) ==
    IF InUser(h) THEN SCHEDULERS[h] ELSE start_first_task(Registered(Tasks[h]))

StartedContext(h) ==
    IF InUser(h) THEN context[h]
    ELSE [context[h] EXCEPT ![StartedHart(h).current] = "live"]

StartedHarts == [SCHEDULERS EXCEPT ![0] = StartedHart(0), ![1] = StartedHart(1)]
StartedContexts == [context EXCEPT ![0] = StartedContext(0), ![1] = StartedContext(1)]

Booted == INSTANCE System WITH SCHEDULERS <- StartedHarts, context <- StartedContexts

\* The boot sequence implements System, whose harts start at once: whatever
\* the partitions of one hart do while the other has not finished
\* start_first_task, they find and leave its table as if it had.
BootImplementsSystem == Booted!Spec_System

=============================================================================
