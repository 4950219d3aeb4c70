------------------------------ MODULE MCSpinlock ------------------------------
(* Instances of Spinlock. *)
EXTENDS Spinlock

=============================================================================
