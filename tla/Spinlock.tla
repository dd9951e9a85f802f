------------------------------ MODULE Spinlock ------------------------------
(***************************************************************************)
(* The spinlock of include/aco/spinlock.h on top of the CPU critical zone. *)
(* A lock is one word, 1 when free; lock() enters a critical zone and then *)
(* clears the word until it finds it set, unlock() sets it and leaves the  *)
(* zone.  The clients are the callers the header's comment describes: they *)
(* nest locks (in a fixed order, as the kernel's mm code does) and release *)
(* them in any order, and outside every zone they turn interrupts on and   *)
(* off as they please.                                                     *)
(***************************************************************************)
EXTENDS CpuCritical

CONSTANT LOCKS                 \* the locks, numbered in acquisition order

ASSUME LOCKSInt == LOCKS # {} /\ LOCKS \subseteq Nat /\ IsFiniteSet(LOCKS)

VARIABLES
    value,   \* [LOCKS -> {0, 1}]  spinlock_t.value, 1 = free
    pc,      \* [CPUS -> {"run", "spin", "release"}]
    want,    \* [CPUS -> LOCKS]    argument of the lock() call in progress
    held,    \* [CPUS -> SUBSET LOCKS]  what the caller has locked (history)
    irq      \* [CPUS -> BOOLEAN]  interrupt state the caller chose (history)

vars == <<criticalVars, value, pc, want, held, irq>>

Init ==
    /\ CriticalInit
    /\ value = [l \in LOCKS |-> 1]
    /\ pc = [c \in CPUS |-> "run"]
    /\ want = [c \in CPUS |-> CHOOSE l \in LOCKS : TRUE]
    /\ held = [c \in CPUS |-> {}]
    /\ irq = sie

(* A caller outside every zone turns its interrupts on or off.             *)
SetInterrupts(c) ==
    /\ pc[c] = "run" /\ held[c] = {}
    /\ sie' = [sie EXCEPT ![c] = ~sie[c]]
    /\ irq' = [irq EXCEPT ![c] = ~sie[c]]
    /\ UNCHANGED <<INTR_NEST, INTR_ENABLE, value, pc, want, held>>

(* lock(l), up to the loop: the critical zone is entered before spinning.  *)
Lock(c, l) ==
    /\ pc[c] = "run"
    /\ \A h \in held[c] : h < l
    /\ cpu_critical_in(c)
    /\ pc' = [pc EXCEPT ![c] = "spin"]
    /\ want' = [want EXCEPT ![c] = l]
    /\ UNCHANGED <<value, held, irq>>

(* Seeded fault: a plain load and store, the load seeing any earlier value. *)
SpinNotAtomic(c) ==
    /\ pc[c] = "spin"
    /\ value' = [value EXCEPT ![want[c]] = 0]
    /\ held' = [held EXCEPT ![c] = @ \cup {want[c]}]
    /\ pc' = [pc EXCEPT ![c] = "run"]
    /\ UNCHANGED <<criticalVars, want, irq>>

(* The loop: fetch-and-clear until the old value was 1.  A try on a taken  *)
(* lock writes the 0 that is already there.                                *)
Spin(c) ==
    /\ pc[c] = "spin"
    /\ value[want[c]] = 1
    /\ value' = [value EXCEPT ![want[c]] = 0]
    /\ held' = [held EXCEPT ![c] = @ \cup {want[c]}]
    /\ pc' = [pc EXCEPT ![c] = "run"]
    /\ UNCHANGED <<criticalVars, want, irq>>

(* unlock(l) for any lock held, not only the last one taken: the word is   *)
(* set first, so another CPU may take the lock before this one leaves.     *)
Unlock(c, l) ==
    /\ pc[c] = "run"
    /\ l \in held[c]
    /\ value' = [value EXCEPT ![l] = 1]
    /\ held' = [held EXCEPT ![c] = @ \ {l}]
    /\ pc' = [pc EXCEPT ![c] = "release"]
    /\ UNCHANGED <<criticalVars, want, irq>>

Release(c) ==
    /\ pc[c] = "release"
    /\ cpu_critical_out(c)
    /\ pc' = [pc EXCEPT ![c] = "run"]
    /\ UNCHANGED <<value, want, held, irq>>

Next ==
    \E c \in CPUS :
        \/ SetInterrupts(c)
        \/ \E l \in LOCKS : Lock(c, l) \/ Unlock(c, l)
        \/ Spin(c)
        \/ Release(c)

Spec == Init /\ [][Next]_vars

-----------------------------------------------------------------------------
(* The parts of LocksExact.                                                *)

(* Mutual exclusion of lock()/unlock(): a lock is held by one CPU at most, *)
(* and its word reads 1 exactly when nobody holds it.                      *)
MutualExclusion ==
    \A l \in LOCKS :
        /\ \A c, d \in CPUS : l \in held[c] /\ l \in held[d] => c = d
        /\ value[l] = 1 <=> \A c \in CPUS : l \notin held[c]

(* "only have one lock locked, cpu are still in CRITICAL TIME" and "only   *)
(* all lock unlock, cpu are exit" (spinlock.h): the nesting count is the   *)
(* number of locks held, plus one while a call is in progress, whatever    *)
(* the order in which nested locks are released.                           *)
ZoneCountsLocks ==
    \A c \in CPUS :
        INTR_NEST[c] = Cardinality(held[c]) + (IF pc[c] = "run" THEN 0 ELSE 1)

(* cpu_critical.c: interrupts are off on a CPU that holds any lock or      *)
(* spins for one, and once the last lock is released they are what the     *)
(* caller had chosen before the first one.                                 *)
InterruptsFollowZone ==
    \A c \in CPUS :
        /\ held[c] # {} \/ pc[c] # "run" => ~sie[c]
        /\ held[c] = {} /\ pc[c] = "run" => sie[c] = irq[c]

(* Nested locks taken on several harts and released in any order exclude   *)
(* each other, are counted exactly by the critical zone, and keep the      *)
(* interrupts off until the last one is released and no longer.            *)
LocksExact == MutualExclusion /\ ZoneCountsLocks /\ InterruptsFollowZone
=============================================================================
