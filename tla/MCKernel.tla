------------------------------- MODULE MCKernel -------------------------------
(* Instances of Kernel. Slot numbers are those of main.rs: 0 watchdog and 1  *)
(* task A on hart 0, 2 task B and 3 task C on hart 1, the last slot idle.    *)
EXTENDS Kernel

\* Everything of the registration but the HSM task.
TasksABC == [h \in Hart |-> IF h = 0 THEN {0, 1, IDLE} ELSE {2, 3, IDLE}]

\* Capability tables: relation \in SUBSET (hart \X slot \X resource).
Granted(relation) ==
    [h \in Hart |-> [i \in Slot |-> {r[3] : r \in {q \in relation : q[1] = h /\ q[2] = i}}]]

None == Granted({})

\* Mutex 0 is shared by A and C.
MutexAC == Granted({<<0, 1, 0>>, <<1, 3, 0>>})

\* Endpoint 0: A sends, B receives.
SendA == Granted({<<0, 1, 0>>})
RecvB == Granted({<<1, 2, 0>>})

\* Task A on hart 0 beside the watchdog, task B alone on hart 1.
TasksLive == [h \in Hart |-> IF h = 0 THEN {0, 1, IDLE} ELSE {2, IDLE}]

RestartB == {<<1, 2>>}
RestartC == {<<1, 3>>}

=============================================================================
