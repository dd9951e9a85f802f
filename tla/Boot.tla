-------------------------------- MODULE Boot --------------------------------
(***************************************************************************)
(* How the harts come up: arch/riscv/boot/entry.S, boot_hart.c,            *)
(* kernel/entry.c and the initcall loop of include/aco/init.h.             *)
(*                                                                         *)
(* The firmware enters _start on one hart of its choice.  That hart clears *)
(* the BSS, which holds cpu_boot and the boot counters, starts the others, *)
(* and all of them run start_kernel.  The hart whose id equals cpu_boot    *)
(* runs every module's init function; the others wait for module_inited    *)
(* and then run the same list.  Each init function tests a done flag and   *)
(* sets it at its end, in two separate atomic operations, so only the wait *)
(* keeps a second hart from running its body.                              *)
(***************************************************************************)
EXTENDS Naturals, FiniteSets

CONSTANTS
    CPUS,     \* __arch_cpu_num, the number of harts
    MODULES,  \* initcalls in .init, in priority order; the last one is the
              \* test module (PRIO_31), which runs smp_test on later calls
    FAILING,  \* the modules whose init function may return an error
    LATE      \* those that may do so after setting their done flag (vm, when
              \* its last call, vm_check, finds a fault)

ASSUME BootAssumption ==
    /\ CPUS \in Nat \ {0}
    /\ MODULES \in Nat \ {0}
    /\ FAILING \subseteq 1 .. MODULES
    /\ LATE \subseteq 1 .. MODULES

Harts   == 0 .. CPUS - 1
Modules == 1 .. MODULES

VARIABLES
    cpu_boot,       \* uint64_t in .bss; CPUS: not the id of a hart
    module_inited,  \* atomic_t
    bootdone_cpus,  \* atomic_t
    done,           \* [Modules -> Nat]  the *_init_done flags
    hart,           \* i of the loop in boot_harts
    pc,             \* [Harts -> PCS]
    mod,            \* [Harts -> 1..MODULES+1]  init_start of aco_module_init
    inits           \* [Modules -> Nat]  bodies entered (history)

vars == <<cpu_boot, module_inited, bootdone_cpus, done, hart, pc, mod, inits>>

PCS == {"stopped",                        \* held by the firmware
        "head", "bss", "boot_harts",      \* _start, boot hart only
        "secondary",                      \* label 2 of _start, other harts
        "start_kernel",
        "wait",                           \* while(module_inited == 0)
        "test", "body", "set", "smp",     \* one init function
        "inited",                         \* aco_module_init returned 0
        "arrive",                         \* about to add to bootdone_cpus
        "barrier",                        \* while(bootdone_cpus != CPUS)
        "slfcheck",                       \* pages_slfcheck
        "parked",                         \* returned from start_kernel
        "halted"}                         \* an ASSERT failed

Goto(c, label) == pc' = [pc EXCEPT ![c] = label]

IsBoot(c) == c = cpu_boot

(* The firmware picks any hart; .bss is NOLOAD, so its words hold anything *)
(* until ClearBss.                                                         *)
Init ==
    /\ cpu_boot \in 0 .. CPUS
    /\ module_inited \in {0, 1} /\ bootdone_cpus \in {0, 1}
    /\ done \in [Modules -> {0, 1}]
    /\ hart = 0
    /\ \E b \in Harts : pc = [c \in Harts |-> IF c = b THEN "head" ELSE "stopped"]
    /\ mod = [c \in Harts |-> 1]
    /\ inits = [m \in Modules |-> 0]

-----------------------------------------------------------------------------
(* entry.S and boot_harts.                                                 *)

StoreCpuBoot(c) ==
    /\ pc[c] = "head"
    /\ cpu_boot' = c
    /\ Goto(c, "bss")
    /\ UNCHANGED <<module_inited, bootdone_cpus, done, hart, mod, inits>>

(* Seeded fault: the BSS is left as the loader put it.                     *)
ClearBssSkipped(c) ==
    /\ pc[c] = "bss"
    /\ Goto(c, "boot_harts")
    /\ UNCHANGED <<cpu_boot, module_inited, bootdone_cpus, done, hart, mod, inits>>

(* memset of .bss, cpu_boot with it; then the tables of the early mapping. *)
ClearBss(c) ==
    /\ pc[c] = "bss"
    /\ cpu_boot' = 0 /\ module_inited' = 0 /\ bootdone_cpus' = 0
    /\ done' = [m \in Modules |-> 0]
    /\ Goto(c, "boot_harts")
    /\ UNCHANGED <<hart, mod, inits>>

(* Seeded fault: the loop stops one hart early.                            *)
BootHartsShort(c) ==
    /\ pc[c] = "boot_harts"
    /\ IF hart < CPUS - 1
         THEN /\ pc' = IF hart = c THEN pc ELSE [pc EXCEPT ![hart] = "secondary"]
              /\ hart' = hart + 1
         ELSE /\ Goto(c, "start_kernel")
              /\ UNCHANGED hart
    /\ UNCHANGED <<cpu_boot, module_inited, bootdone_cpus, done, mod, inits>>

(* One round of the loop of boot_harts, or its end.                        *)
BootHarts(c) ==
    /\ pc[c] = "boot_harts"
    /\ IF hart < CPUS
         THEN /\ pc' = IF hart = c THEN pc ELSE [pc EXCEPT ![hart] = "secondary"]
              /\ hart' = hart + 1
         ELSE /\ Goto(c, "start_kernel")
              /\ UNCHANGED hart
    /\ UNCHANGED <<cpu_boot, module_inited, bootdone_cpus, done, mod, inits>>

(* A started hart sets its stack, turns the page table on and goes on.     *)
Secondary(c) ==
    /\ pc[c] = "secondary"
    /\ Goto(c, "start_kernel")
    /\ UNCHANGED <<cpu_boot, module_inited, bootdone_cpus, done, hart, mod, inits>>

-----------------------------------------------------------------------------
(* start_kernel up to the initcalls.                                       *)

StartKernel(c) ==
    /\ pc[c] = "start_kernel"
    /\ Goto(c, IF IsBoot(c) THEN "test" ELSE "wait")
    /\ UNCHANGED <<cpu_boot, module_inited, bootdone_cpus, done, hart, mod, inits>>

(* Seeded fault: the other harts do not wait.                              *)
WaitSkipped(c) ==
    /\ pc[c] = "wait"
    /\ Goto(c, "test")
    /\ UNCHANGED <<cpu_boot, module_inited, bootdone_cpus, done, hart, mod, inits>>

Wait(c) ==
    /\ pc[c] = "wait"
    /\ module_inited # 0
    /\ Goto(c, "test")
    /\ UNCHANGED <<cpu_boot, module_inited, bootdone_cpus, done, hart, mod, inits>>

-----------------------------------------------------------------------------
(* aco_module_init: the init functions in the order of their priorities.   *)

Advance(c) ==
    /\ mod' = [mod EXCEPT ![c] = mod[c] + 1]
    /\ Goto(c, IF mod[c] = MODULES THEN "inited" ELSE "test")

(* The done flag is read.  A set flag skips the function, except that the  *)
(* test module goes on to its multi-hart tests.                            *)
TestDone(c) ==
    /\ pc[c] = "test"
    /\ IF done[mod[c]] # 0
         THEN /\ IF mod[c] = MODULES THEN Goto(c, "smp") /\ UNCHANGED mod
                                     ELSE Advance(c)
              /\ UNCHANGED inits
         ELSE /\ Goto(c, "body")
              /\ inits' = [inits EXCEPT ![mod[c]] = @ + 1]
              /\ UNCHANGED mod
    /\ UNCHANGED <<cpu_boot, module_inited, bootdone_cpus, done, hart>>

SmpTest(c) ==
    /\ pc[c] = "smp"
    /\ Advance(c)
    /\ UNCHANGED <<cpu_boot, module_inited, bootdone_cpus, done, hart, inits>>

(* The body ends well, or with an error that the ASSERT of start_kernel    *)
(* turns into a halt.                                                      *)
Body(c) ==
    /\ pc[c] = "body"
    /\ \/ Goto(c, "set")
       \/ mod[c] \in FAILING /\ Goto(c, "halted")
    /\ UNCHANGED <<cpu_boot, module_inited, bootdone_cpus, done, hart, mod, inits>>

SetDone(c) ==
    /\ pc[c] = "set"
    /\ done' = [done EXCEPT ![mod[c]] = @ + 1]
    /\ \/ Advance(c)
       \/ mod[c] \in LATE /\ Goto(c, "halted") /\ UNCHANGED mod
    /\ UNCHANGED <<cpu_boot, module_inited, bootdone_cpus, hart, inits>>

-----------------------------------------------------------------------------
(* start_kernel after the initcalls.                                       *)

(* The boot hart lets the others go; another hart only arrives.            *)
Inited(c) ==
    /\ pc[c] = "inited"
    /\ module_inited' = IF IsBoot(c) THEN module_inited + 1 ELSE module_inited
    /\ Goto(c, "arrive")
    /\ UNCHANGED <<cpu_boot, bootdone_cpus, done, hart, mod, inits>>

Arrive(c) ==
    /\ pc[c] = "arrive"
    /\ bootdone_cpus' = bootdone_cpus + 1
    /\ Goto(c, IF IsBoot(c) THEN "barrier" ELSE "parked")
    /\ UNCHANGED <<cpu_boot, module_inited, done, hart, mod, inits>>

(* Seeded fault: the boot hart does not count itself.                      *)
BarrierEarly(c) ==
    /\ pc[c] = "barrier"
    /\ bootdone_cpus >= CPUS - 1
    /\ Goto(c, "slfcheck")
    /\ UNCHANGED <<cpu_boot, module_inited, bootdone_cpus, done, hart, mod, inits>>

Barrier(c) ==
    /\ pc[c] = "barrier"
    /\ bootdone_cpus = CPUS
    /\ Goto(c, "slfcheck")
    /\ UNCHANGED <<cpu_boot, module_inited, bootdone_cpus, done, hart, mod, inits>>

(* pages_slfcheck's result is asserted; module Buddy says what it checks.  *)
Slfcheck(c) ==
    /\ pc[c] = "slfcheck"
    /\ \/ Goto(c, "parked")
       \/ Goto(c, "halted")
    /\ UNCHANGED <<cpu_boot, module_inited, bootdone_cpus, done, hart, mod, inits>>

-----------------------------------------------------------------------------
HartStep(c) ==
    \/ StoreCpuBoot(c) \/ ClearBss(c) \/ BootHarts(c) \/ Secondary(c)
    \/ StartKernel(c) \/ Wait(c) \/ TestDone(c) \/ SmpTest(c) \/ Body(c)
    \/ SetDone(c) \/ Inited(c) \/ Arrive(c) \/ Barrier(c) \/ Slfcheck(c)

Next == \E c \in Harts : HartStep(c)

Spec == Init /\ [][Next]_vars /\ \A c \in Harts : WF_vars(HartStep(c))

-----------------------------------------------------------------------------
TypeOK ==
    /\ cpu_boot \in 0 .. CPUS
    /\ module_inited \in 0 .. 1
    /\ bootdone_cpus \in 0 .. CPUS
    /\ done \in [Modules -> 0 .. 1]
    /\ hart \in 0 .. CPUS
    /\ pc \in [Harts -> PCS]
    /\ mod \in [Harts -> 1 .. MODULES + 1]
    /\ inits \in [Modules -> Nat]

(* No module's body is entered twice, whichever hart the firmware chose    *)
(* and however the harts interleave: a second run of buddy_module_init or  *)
(* kmem_module_init would reset locks and lists that are in use.           *)
InitOnce == \A m \in Modules : inits[m] <= 1

(* A hart is in a module's body only when every module of a smaller        *)
(* priority is complete, and in the multi-hart tests only when all are.    *)
InitInOrder ==
    \A c \in Harts :
        /\ pc[c] \in {"body", "set"} => \A m \in 1 .. mod[c] - 1 : done[m] = 1
        /\ pc[c] = "smp" => \A m \in Modules : done[m] = 1

(* pages_slfcheck reads every page frame without a lock: no other hart may *)
(* still be running module code, or be yet to start.                       *)
SlfcheckAlone ==
    \A c \in Harts : pc[c] = "slfcheck" =>
        \A d \in Harts \ {c} : pc[d] = "parked"

(* Every hart gets through start_kernel unless an ASSERT halts one.        *)
AllBoot ==
    <>(\/ \A c \in Harts : pc[c] = "parked"
       \/ \E c \in Harts : pc[c] = "halted")
=============================================================================
