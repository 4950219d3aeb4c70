------------------------------- MODULE Spinlock -------------------------------
(***************************************************************************)
(* The per-hart reentrant spinlock of kernel/src/kernel/spinlock.rs, one   *)
(* memory access per step.  It is used by the trap handler of each hart,   *)
(* which no interrupt can preempt, and by a user task (the watchdog, on    *)
(* hart 0), which any interrupt of that hart preempts between two steps.   *)
(***************************************************************************)
EXTENDS Naturals

CONSTANTS
    Hart,          \* the harts, numbered from 0
    UserHarts,     \* harts with a user task that takes the lock ({0} in the code)
    NestedFaults,  \* a handler holding the lock may itself fault
    USIZE,         \* depth is a usize and wraps here
    DepthBound     \* bound of the instances: no nested fault at this depth

ASSUME SpinlockAssumption ==
    /\ Hart \subseteq Nat
    /\ UserHarts \subseteq Hart
    /\ NestedFaults \in BOOLEAN
    /\ USIZE \in Nat /\ USIZE > 2
    /\ DepthBound \in Nat

\* An activation of lock() ... unlock(): that of the trap handler of a hart,
\* or that of the user task.
Handlers == {<<"handler", h>> : h \in Hart}
Users    == {<<"user", h>> : h \in UserHarts}
Activation == Handlers \cup Users

HartOf(a) == a[2]

VARIABLES
    owner,  \* 0, or the owning hart + 1
    depth,  \* the recursive hold count
    pc,     \* where each activation is
    reg,    \* the value of depth it has loaded
    faulted \* history: a handler has faulted inside the lock

spinlockVars == <<owner, depth, pc, reg, faulted>>

Me(a) == HartOf(a) + 1

PC == {"out", "load", "inc", "store_inc", "cas", "init", "cs", "store_dec", "release"}

Init_Spinlock ==
    /\ owner = 0
    /\ depth = 0
    /\ pc = [a \in Activation |-> "out"]
    /\ reg = [a \in Activation |-> 0]
    /\ faulted = FALSE

\* Activation a executes: a user task only while the handler of its hart does
\* not.
Executes(a) == a \in Users => pc[<<"handler", HartOf(a)>>] = "out"

At(a, label) == Executes(a) /\ pc[a] = label

Goto(a, label) == pc' = [pc EXCEPT ![a] = label]

-----------------------------------------------------------------------------
(* lock()                                                                   *)

Call(a) ==
    /\ At(a, "out") /\ Goto(a, "load")
    /\ UNCHANGED <<owner, depth, reg, faulted>>

LoadOwner(a) ==
    /\ At(a, "load")
    /\ Goto(a, IF owner = Me(a) THEN "inc" ELSE "cas")
    /\ UNCHANGED <<owner, depth, reg, faulted>>

LoadForInc(a) ==
    /\ At(a, "inc") /\ Goto(a, "store_inc")
    /\ reg' = [reg EXCEPT ![a] = depth]
    /\ UNCHANGED <<owner, depth, faulted>>

StoreInc(a) ==
    /\ At(a, "store_inc") /\ Goto(a, "cs")
    /\ depth' = (reg[a] + 1) % USIZE
    /\ UNCHANGED <<owner, reg, faulted>>

\* Slip: a plain store instead of a compare-and-exchange.
Cas_Blind(a) ==
    /\ At(a, "cas")
    /\ owner' = Me(a) /\ Goto(a, "init")
    /\ UNCHANGED <<depth, reg, faulted>>

\* The successful compare_exchange_weak; a failed one goes round the loop.
Cas(a) ==
    /\ At(a, "cas") /\ owner = 0
    /\ owner' = Me(a) /\ Goto(a, "init")
    /\ UNCHANGED <<depth, reg, faulted>>

InitDepth(a) ==
    /\ At(a, "init") /\ Goto(a, "cs")
    /\ depth' = 1
    /\ UNCHANGED <<owner, reg, faulted>>

-----------------------------------------------------------------------------
(* unlock(), and a fault of the handler inside the critical section: the    *)
(* nested handler takes the lock again and then returns to another task, so *)
(* the outer activation never resumes.                                      *)

\* Slip: the owner is cleared before depth is updated.
LoadForDec_EarlyRelease(a) ==
    /\ At(a, "cs") /\ Goto(a, "store_dec")
    /\ reg' = [reg EXCEPT ![a] = depth]
    /\ owner' = 0
    /\ UNCHANGED <<depth, faulted>>

LoadForDec(a) ==
    /\ At(a, "cs") /\ Goto(a, "store_dec")
    /\ reg' = [reg EXCEPT ![a] = depth]
    /\ UNCHANGED <<owner, depth, faulted>>

\* Slip: the count is tested before it is decremented.
StoreDec_TestsOld(a) ==
    /\ At(a, "store_dec")
    /\ depth' = (reg[a] + USIZE - 1) % USIZE
    /\ Goto(a, IF reg[a] = 0 THEN "release" ELSE "out")
    /\ UNCHANGED <<owner, reg, faulted>>

\* Slip: unlock() counts up.
StoreDec_Adds(a) ==
    /\ At(a, "store_dec")
    /\ depth' = reg[a] + 1
    /\ Goto(a, "out")
    /\ UNCHANGED <<owner, reg, faulted>>

StoreDec(a) ==
    /\ At(a, "store_dec")
    /\ depth' = (reg[a] + USIZE - 1) % USIZE
    /\ Goto(a, IF depth' = 0 THEN "release" ELSE "out")
    /\ UNCHANGED <<owner, reg, faulted>>

Release(a) ==
    /\ At(a, "release") /\ Goto(a, "out")
    /\ owner' = 0
    /\ UNCHANGED <<depth, reg, faulted>>

NestedFault(a) ==
    /\ NestedFaults /\ a \in Handlers /\ depth < DepthBound
    /\ At(a, "cs") /\ Goto(a, "load")
    /\ faulted' = TRUE
    /\ UNCHANGED <<owner, depth, reg>>

-----------------------------------------------------------------------------

\* The steps an activation takes to the end once it has begun.
Proceeds(a) ==
    \/ LoadOwner(a) \/ LoadForInc(a) \/ StoreInc(a) \/ InitDepth(a)
    \/ LoadForDec(a) \/ StoreDec(a) \/ Release(a)

Next_Spinlock == \E a \in Activation : Call(a) \/ Proceeds(a) \/ Cas(a) \/ NestedFault(a)

Spec_Spinlock == Init_Spinlock /\ [][Next_Spinlock]_spinlockVars

\* A handler runs to its end, and a compare-and-swap tried again and again on
\* a lock that keeps becoming free succeeds in the end.
FairSpec ==
    /\ Spec_Spinlock
    /\ \A a \in Handlers : WF_spinlockVars(Proceeds(a)) /\ SF_spinlockVars(Cas(a))

-----------------------------------------------------------------------------
(* Properties *)

\* Every state component has its type.
TypeOK_Spinlock ==
    /\ owner \in {0} \cup {h + 1 : h \in Hart}
    /\ depth \in 0 .. USIZE - 1
    /\ pc \in [Activation -> PC]
    /\ reg \in [Activation -> 0 .. USIZE - 1]
    /\ faulted \in BOOLEAN

\* Two harts are never inside the lock at the same time (SCHED_LOCK and
\* MUTEX_LOCK serialize every access to the schedulers and the mutexes).
MutualExclusion ==
    \A a, b \in Activation : pc[a] = "cs" /\ pc[b] = "cs" => HartOf(a) = HartOf(b)

\* spinlock.rs: "Only ever touched while `owner` identifies the current hart,
\* so plain (non-atomic) access is sound": an activation about to read or
\* write depth belongs to the owning hart.
DepthOwned ==
    \A a \in Activation :
        pc[a] \in {"inc", "store_inc", "init", "cs", "store_dec"} => owner = Me(a)

\* The lock is free again when its holder has left: a hart outside the lock
\* does not own it, unless a handler has faulted inside (the hold of that
\* handler is never given back).
NotLeaked ==
    \A h \in Hart : owner = h + 1 /\ ~faulted =>
        \E a \in Activation : HartOf(a) = h /\ pc[a] \notin {"out", "load", "cas"}

\* A handler that spins gets the lock in the end, however often the other
\* harts take it. A handler that faults inside the lock is the one exception:
\* spinlock.rs has the nested trap succeed, but the outer hold stays.
SpinEnds == \A a \in Handlers : pc[a] = "cas" ~> (pc[a] = "cs" \/ faulted)

=============================================================================
