---------------------------- MODULE CpuCritical ----------------------------
(***************************************************************************)
(* The CPU critical zone of ACO-OS (kernel/cpu_critical.c): a per-CPU      *)
(* nesting counter that keeps the interrupts of the CPU off while it is    *)
(* not zero, and the interrupt state to put back when it falls to zero.    *)
(* Both arrays are indexed by cpu_getid() and touched by their own CPU     *)
(* only, and no interrupt handler of the kernel uses them, so a whole call *)
(* is one step.  The spinlock and the rwlock are built on these two calls. *)
(***************************************************************************)
EXTENDS Integers, FiniteSets

CONSTANT CPUS                  \* cpu ids

ASSUME CPUSFinite == IsFiniteSet(CPUS)

VARIABLES
    INTR_NEST,    \* [CPUS -> Nat]     how many zones the CPU is in
    INTR_ENABLE,  \* [CPUS -> BOOLEAN] interrupt state saved by the outermost one
    sie           \* [CPUS -> BOOLEAN] the interrupt-enable bit of the hart

criticalVars == <<INTR_NEST, INTR_ENABLE, sie>>

(* Both arrays are in .bss; the hart may have its interrupts on or off.    *)
CriticalInit ==
    /\ INTR_NEST = [c \in CPUS |-> 0]
    /\ INTR_ENABLE = [c \in CPUS |-> FALSE]
    /\ sie \in [CPUS -> BOOLEAN]

(* cpu_critical_in: save the interrupt state on the outermost entry only.  *)
cpu_critical_in(c) ==
    /\ sie' = [sie EXCEPT ![c] = FALSE]
    /\ INTR_ENABLE' = IF INTR_NEST[c] = 0 THEN [INTR_ENABLE EXCEPT ![c] = sie[c]]
                                          ELSE INTR_ENABLE
    /\ INTR_NEST' = [INTR_NEST EXCEPT ![c] = @ + 1]

(* cpu_critical_out: an unmatched call leaves everything as it was; the    *)
(* call that leaves the outermost zone restores the saved state.           *)
cpu_critical_out(c) ==
    /\ UNCHANGED INTR_ENABLE
    /\ INTR_NEST' = IF INTR_NEST[c] = 0 THEN INTR_NEST
                                        ELSE [INTR_NEST EXCEPT ![c] = @ - 1]
    /\ sie' = CASE INTR_NEST[c] = 0 -> sie
                [] INTR_NEST[c] = 1 -> [sie EXCEPT ![c] = INTR_ENABLE[c]]
                [] OTHER -> [sie EXCEPT ![c] = FALSE]

CriticalTypeOK ==
    /\ INTR_NEST \in [CPUS -> Nat]
    /\ INTR_ENABLE \in [CPUS -> BOOLEAN]
    /\ sie \in [CPUS -> BOOLEAN]
=============================================================================
