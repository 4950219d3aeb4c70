--------------------------------- MODULE MCPmp ---------------------------------
(* The five stacks of main.rs next to each other at the start of SRAM.       *)
EXTENDS Pmp

StacksOfMain == <<"Watchdog", "Task A", "Task B", "Task C", "HSM Task">>

Adjacent == [n \in Name |-> SRAM.base + 1024 * EntryOf(n)]

=============================================================================
