---------------------------------- MODULE Pmp ----------------------------------
(***************************************************************************)
(* Physical memory protection of one hart: init_memory_protection at boot  *)
(* and reprogram_pmp_stack on every switch (kernel/src/memory/pmp.rs,      *)
(* kernel/src/main.rs), down to the two register writes of configure_pmp,  *)
(* and what the hardware makes of the registers for a U-mode access.       *)
(***************************************************************************)
EXTENDS Naturals, Sequences

CONSTANTS
    Stacks,     \* the tasks whose stacks have an entry, in the code's order
    StackBase,  \* StackBase[n]: address of the stack of task n
    Idle        \* name of a task without a stack entry

FLASH == [base |-> 1107296256, size |-> 4194304]   \* 0x4200_0000, 4 MiB
SRAM  == [base |-> 1070071808, size |-> 524288]    \* 0x3FC8_0000, 512 KiB
STACK_SIZE == 1024

\* The entries of the stacks, in the order of the table in reprogram_pmp_stack.
StackEntry == <<1, 2, 4, 5, 6>>

Entry == 0 .. 6
Name  == {Stacks[k] : k \in DOMAIN Stacks}
EntryOf(n) == StackEntry[CHOOSE k \in DOMAIN Stacks : Stacks[k] = n]
StackOf(n) == [base |-> StackBase[n], size |-> STACK_SIZE]

ASSUME PmpAssumption ==
    /\ DOMAIN Stacks = 1 .. 5
    /\ Idle \notin Name
    /\ \A k, l \in DOMAIN Stacks : StackBase[Stacks[k]] = StackBase[Stacks[l]] => k = l
    /\ \A n \in Name : /\ StackBase[n] \in Nat
                       /\ StackBase[n] % STACK_SIZE = 0
                       /\ StackBase[n] >= SRAM.base
                       /\ StackBase[n] + STACK_SIZE <= SRAM.base + SRAM.size

\* PmpConfig: permissions, address mode, lock.
Config(perms, mode, locked) == [perms |-> perms, mode |-> mode, locked |-> locked]
Off      == Config({}, "Off", FALSE)
NoAccess == Config({}, "Napot", FALSE)

VARIABLES
    pmpaddr,  \* the address registers
    pmpcfg,   \* the configuration byte of each entry
    todo,     \* calls of configure_pmp still to be made
    half,     \* the first of them has written the address register
    active    \* the task the registers are programmed for

vars == <<pmpaddr, pmpcfg, todo, half, active>>

-----------------------------------------------------------------------------
(* Calls of configure_pmp                                                   *)

Call(entry, region, config) == [entry |-> entry, region |-> region, config |-> config]

\* Slip: SRAM is executable.
InitCalls_ExecutableRam ==
    <<Call(0, FLASH, Config({"r", "x"}, "Napot", TRUE)),
      Call(3, SRAM, Config({"r", "w", "x"}, "Napot", FALSE))>>

\* init_memory_protection; its calls for the stacks come in table order.
InitCalls ==
    <<Call(0, FLASH, Config({"r", "x"}, "Napot", TRUE))>>
    \o [k \in DOMAIN Stacks |-> Call(StackEntry[k], StackOf(Stacks[k]), NoAccess)]
    \o <<Call(3, SRAM, Config({"r", "w"}, "Napot", FALSE))>>

\* Slip: the entry of the active task is not opened.
ReprogramCalls_NeverOff(name) ==
    [k \in DOMAIN Stacks |-> Call(StackEntry[k], StackOf(Stacks[k]), NoAccess)]

\* Slip: the active task's entry is opened and the last one's not closed.
ReprogramCalls_OnlyActive(name) ==
    IF name \in Name
    THEN <<Call(EntryOf(name), [base |-> 0, size |-> STACK_SIZE], Off)>>
    ELSE <<>>

\* reprogram_pmp_stack(name).
ReprogramCalls(name) ==
    [k \in DOMAIN Stacks |->
        IF Stacks[k] = name
        THEN Call(StackEntry[k], [base |-> 0, size |-> STACK_SIZE], Off)
        ELSE Call(StackEntry[k], StackOf(Stacks[k]), NoAccess)]

\* Slip: the size is not halved.
Napot_NotHalved(region) == region.base \div 4 + (region.size - 1) \div 4

\* Slip: the base is not shifted.
Napot_BaseUnshifted(region) == region.base + (region.size \div 2 - 1) \div 4

\* (base >> 2) | ((size / 2 - 1) >> 2); the two parts have no bit in common
\* when base is a multiple of size.
Napot(region) == region.base \div 4 + (region.size \div 2 - 1) \div 4

-----------------------------------------------------------------------------

Init ==
    /\ pmpaddr = [e \in Entry |-> 0]
    /\ pmpcfg = [e \in Entry |-> Off]
    /\ todo = InitCalls
    /\ half = FALSE
    /\ active = Idle

\* configure_pmp writes the address register, then the configuration byte.
\* The hardware ignores writes to a locked entry.
WriteAddr ==
    LET c == Head(todo) IN
    /\ todo # <<>> /\ ~half
    /\ pmpaddr' = IF pmpcfg[c.entry].locked THEN pmpaddr
                  ELSE [pmpaddr EXCEPT ![c.entry] = Napot(c.region)]
    /\ half' = TRUE
    /\ UNCHANGED <<pmpcfg, todo, active>>

WriteCfg ==
    LET c == Head(todo) IN
    /\ todo # <<>> /\ half
    /\ pmpcfg' = IF pmpcfg[c.entry].locked THEN pmpcfg
                 ELSE [pmpcfg EXCEPT ![c.entry] = c.config]
    /\ todo' = Tail(todo)
    /\ half' = FALSE
    /\ UNCHANGED <<pmpaddr, active>>

\* start_first_task or switch_task makes another task the active one.
SwitchTo(name) ==
    /\ todo = <<>>
    /\ active' = name
    /\ todo' = ReprogramCalls(name)
    /\ UNCHANGED <<pmpaddr, pmpcfg, half>>

Next == WriteAddr \/ WriteCfg \/ \E name \in Name \cup {Idle} : SwitchTo(name)

Spec == Init /\ [][Next]_vars

-----------------------------------------------------------------------------
(* The hardware                                                             *)

\* The region an address register in NAPOT mode stands for: its trailing ones
\* give the size.
TrailingOnes(v) == CHOOSE k \in 0 .. 29 : v % 2 ^ (k + 1) = 2 ^ k - 1

Region(v) ==
    LET k == TrailingOnes(v)
    IN  [base |-> (v - (2 ^ k - 1)) * 4, size |-> 2 ^ (k + 3)]

Matches(e, a) ==
    /\ pmpcfg[e].mode = "Napot"
    /\ LET r == Region(pmpaddr[e]) IN r.base <= a /\ a < r.base + r.size

\* The lowest-numbered matching entry decides; without one a U-mode access
\* fails.
Allowed(a) ==
    LET matching == {e \in Entry : Matches(e, a)}
    IN  IF matching = {} THEN {}
        ELSE pmpcfg[CHOOSE e \in matching : \A f \in matching : e <= f].perms

-----------------------------------------------------------------------------
(* Properties *)

\* The registers are ready: the hart may return to U-mode.
InUser == todo = <<>>

\* First and last byte of a region.
Ends(region) == {region.base, region.base + region.size - 1}

\* Every state component has its type; an address register holds the address
\* of a word of the 4 GiB address space.
TypeOK ==
    /\ \A e \in Entry : pmpaddr[e] \in 0 .. 2 ^ 30 - 1
    /\ \A e \in Entry : /\ pmpcfg[e].perms \subseteq {"r", "w", "x"}
                        /\ pmpcfg[e].mode \in {"Off", "Napot"}
    /\ half \in BOOLEAN /\ active \in Name \cup {Idle}

\* Whatever task was active before, the active task can use the whole of its
\* own stack once the entries are reprogrammed.
OwnStackOpen ==
    InUser /\ active \in Name =>
        \A a \in Ends(StackOf(active)) : Allowed(a) = {"r", "w"}

\* The NAPOT value computed by configure_pmp stands for exactly the region
\* asked for, so neighbours of a stack are not affected: every entry in use
\* covers the flash, the SRAM, or one whole stack.
RegionsExact ==
    InUser => \A e \in Entry : pmpcfg[e].mode = "Napot" =>
        Region(pmpaddr[e]) = CASE e = 0 -> FLASH
                               [] e = 3 -> SRAM
                               [] OTHER -> StackOf(CHOOSE n \in Name : EntryOf(n) = e)

\* The stacks whose entries come before the entry of the whole SRAM are out of
\* reach of every other task.
EarlyStacksBlocked ==
    InUser => \A n \in Name \ {active} :
        EntryOf(n) < 3 => \A a \in Ends(StackOf(n)) : Allowed(a) = {}

\* README.md: flash is "Read + Execute only", SRAM "Read + Write only": nothing
\* a task can write can be executed, in whatever order entries are rewritten.
WriteXorExecute ==
    \A a \in Ends(FLASH) \cup Ends(SRAM) \cup UNION {Ends(StackOf(n)) : n \in Name} :
        ~({"w", "x"} \subseteq Allowed(a))

\* README.md: "the four *inactive* task stacks are covered by dedicated PMP
\* entries with no read/write/execute permission, so one task cannot reach
\* into another's stack". So it is for entries 1 and 2 (EarlyStacksBlocked), and
\* not for entries 4 to 6, which come after the entry of the SRAM.
InactiveStacksBlocked ==
    InUser => \A n \in Name \ {active} : \A a \in Ends(StackOf(n)) : Allowed(a) = {}

=============================================================================
