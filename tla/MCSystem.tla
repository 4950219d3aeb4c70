------------------------------- MODULE MCSystem -------------------------------
(* The registration of main.rs: the watchdog, task A and the HSM on hart 0,  *)
(* tasks B and C on hart 1, and their capability tables.                     *)
EXTENDS System

TasksAll == [h \in Hart |-> IF h = 0 THEN {0, A, HSM, IDLE} ELSE {B, C, IDLE}]

Granted(relation) ==
    [h \in Hart |-> [i \in Slot |-> {r[2] : r \in {q \in relation : q[1] = i /\ HartOf(i) = h}}]]

MutexCaps == Granted({<<A, 0>>, <<C, 0>>})
Sends == Granted({<<A, 0>>, <<A, 2>>, <<HSM, 3>>})
Receives == Granted({<<A, 3>>, <<B, 0>>, <<HSM, 2>>})

AllRestartable == {<<1, C>>, <<0, HSM>>}

=============================================================================
