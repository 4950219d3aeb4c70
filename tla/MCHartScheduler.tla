--------------------------- MODULE MCHartScheduler ---------------------------
(* Four partitions and the idle task, with an empty slot among them.         *)
EXTENDS HartScheduler

RegisteredTasks == Slot \ {2}

=============================================================================
