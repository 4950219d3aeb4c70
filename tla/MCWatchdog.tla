------------------------------ MODULE MCWatchdog ------------------------------
(* Instances of Watchdog, with the slots of main.rs: 1 task A, 3 task C on   *)
(* the other hart, 4 the HSM task.                                           *)
EXTENDS Watchdog

MonitoredAH == <<1, 4>>
MonitoredAC == <<1, 3>>

=============================================================================
