------------------------------- MODULE RwLock -------------------------------
(***************************************************************************)
(* The readers-writer lock of include/aco/rwlock.h: a spinlock that guards *)
(* the decision to enter, a count of readers and a count of writers.  Each *)
(* atomic operation on a shared word is a step of its own, because the two *)
(* unlock functions change the counts without taking the spinlock.         *)
(*                                                                         *)
(* A call is one of three operations, op[c]:                               *)
(*   "r"    r_lock    ... r_unlock                                         *)
(*   "w"    w_lock    ... w_unlock                                         *)
(*   "wbr"  w_lock_br ... w_unlock_br   (claims the lock, then waits for   *)
(*                                       the readers inside to leave)      *)
(* The lock loops of the three functions share their steps; where they     *)
(* differ, the step looks at op[c].                                        *)
(***************************************************************************)
EXTENDS CpuCritical

OPS == {"r", "w", "wbr"}

VARIABLES
    lk,       \* rwlock_t.lk.value, 1 = free
    readers,  \* rwlock_t.readers
    writers,  \* rwlock_t.writers
    pc,       \* [CPUS -> PCS]
    op,       \* [CPUS -> OPS]      the call in progress, or the last one
    irq       \* [CPUS -> BOOLEAN]  interrupt state the caller chose (history)

vars == <<criticalVars, lk, readers, writers, pc, op, irq>>

PCS == {"idle",                                    \* not in a call
        "enter", "lock", "spin",                   \* up to the inner lock
        "writers", "readers", "take",              \* inner lock held
        "got", "got_out",                          \* success: unlock()
        "refused", "refused_out", "retry",         \* failure: unlock(), loop
        "drain",                                   \* w_lock_br waits
        "cs", "leave"}                             \* caller inside; unlocking

Goto(c, label) == pc' = [pc EXCEPT ![c] = label]

(* rwlock_init / INIT_RWLOCK_VAL                                           *)
Init ==
    /\ CriticalInit
    /\ lk = 1 /\ readers = 0 /\ writers = 0
    /\ pc = [c \in CPUS |-> "idle"]
    /\ op = [c \in CPUS |-> "r"]
    /\ irq = sie

-----------------------------------------------------------------------------
(* The callers.                                                            *)

(* A caller outside the lock turns its interrupts on or off.               *)
SetInterrupts(c) ==
    /\ pc[c] = "idle"
    /\ sie' = [sie EXCEPT ![c] = ~sie[c]]
    /\ irq' = [irq EXCEPT ![c] = ~sie[c]]
    /\ UNCHANGED <<INTR_NEST, INTR_ENABLE, lk, readers, writers, pc, op>>

Call(c, o) ==
    /\ pc[c] = "idle"
    /\ op' = [op EXCEPT ![c] = o]
    /\ Goto(c, "enter")
    /\ UNCHANGED <<criticalVars, lk, readers, writers, irq>>

-----------------------------------------------------------------------------
(* The lock loops.                                                         *)

(* cpu_critical_in() of the loop, then the one inside lock().              *)
Enter(c) ==
    /\ \/ pc[c] = "enter" /\ Goto(c, "lock")
       \/ pc[c] = "lock"  /\ Goto(c, "spin")
    /\ cpu_critical_in(c)
    /\ UNCHANGED <<lk, readers, writers, op, irq>>

Spin(c) ==
    /\ pc[c] = "spin"
    /\ lk = 1
    /\ lk' = 0
    /\ Goto(c, "writers")
    /\ UNCHANGED <<criticalVars, readers, writers, op, irq>>

(* Seeded fault: readers may pass a writer that waits for them to leave.   *)
TestWritersIgnored(c) ==
    /\ pc[c] = "writers"
    /\ Goto(c, IF op[c] # "r" /\ writers # 0 THEN "refused"
               ELSE IF op[c] = "w" THEN "readers" ELSE "take")
    /\ UNCHANGED <<criticalVars, lk, readers, writers, op, irq>>

(* The atomic read of writers; only w_lock goes on to read readers.        *)
TestWriters(c) ==
    /\ pc[c] = "writers"
    /\ Goto(c, IF writers # 0 THEN "refused"
               ELSE IF op[c] = "w" THEN "readers" ELSE "take")
    /\ UNCHANGED <<criticalVars, lk, readers, writers, op, irq>>

TestReaders(c) ==
    /\ pc[c] = "readers"
    /\ Goto(c, IF readers # 0 THEN "refused" ELSE "take")
    /\ UNCHANGED <<criticalVars, lk, readers, writers, op, irq>>

Take(c) ==
    /\ pc[c] = "take"
    /\ readers' = IF op[c] = "r" THEN readers + 1 ELSE readers
    /\ writers' = IF op[c] = "r" THEN writers ELSE writers + 1
    /\ Goto(c, "got")
    /\ UNCHANGED <<criticalVars, lk, op, irq>>

(* unlock(): the word first, its critical zone in the next step.           *)
InnerUnlock(c) ==
    /\ \/ pc[c] = "got"     /\ Goto(c, "got_out")
       \/ pc[c] = "refused" /\ Goto(c, "refused_out")
    /\ lk' = 1
    /\ UNCHANGED <<criticalVars, readers, writers, op, irq>>

InnerOut(c) ==
    /\ \/ pc[c] = "got_out"     /\ Goto(c, IF op[c] = "wbr" THEN "drain" ELSE "cs")
       \/ pc[c] = "refused_out" /\ Goto(c, "retry")
    /\ cpu_critical_out(c)
    /\ UNCHANGED <<lk, readers, writers, op, irq>>

(* Seeded fault: the loop goes round without leaving the critical zone.    *)
RetryInZone(c) ==
    /\ pc[c] = "retry"
    /\ Goto(c, "enter")
    /\ UNCHANGED <<criticalVars, lk, readers, writers, op, irq>>

(* cpu_critical_out() at the end of a failed round.                        *)
Retry(c) ==
    /\ pc[c] = "retry"
    /\ cpu_critical_out(c)
    /\ Goto(c, "enter")
    /\ UNCHANGED <<lk, readers, writers, op, irq>>

(* Seeded fault: the claim alone is taken for exclusive access.            *)
DrainSkipped(c) ==
    /\ pc[c] = "drain"
    /\ Goto(c, "cs")
    /\ UNCHANGED <<criticalVars, lk, readers, writers, op, irq>>

(* Seeded fault: the wait looks at the count that holds its own claim.     *)
DrainOnWriters(c) ==
    /\ pc[c] = "drain"
    /\ writers = 0
    /\ Goto(c, "cs")
    /\ UNCHANGED <<criticalVars, lk, readers, writers, op, irq>>

(* w_lock_br: wait, interrupts off, until the readers inside have left.    *)
Drain(c) ==
    /\ pc[c] = "drain"
    /\ readers = 0
    /\ Goto(c, "cs")
    /\ UNCHANGED <<criticalVars, lk, readers, writers, op, irq>>

-----------------------------------------------------------------------------
(* r_unlock, w_unlock, w_unlock_br: the count, then the critical zone.     *)

(* Seeded fault: w_unlock_br forgets to clear its claim.                   *)
ReleaseKeepsClaim(c) ==
    /\ pc[c] = "cs"
    /\ readers' = IF op[c] = "r" THEN readers - 1 ELSE readers
    /\ writers' = IF op[c] = "w" THEN writers - 1 ELSE writers
    /\ Goto(c, "leave")
    /\ UNCHANGED <<criticalVars, lk, op, irq>>

Release(c) ==
    /\ pc[c] = "cs"
    /\ readers' = IF op[c] = "r" THEN readers - 1 ELSE readers
    /\ writers' = IF op[c] = "r" THEN writers ELSE writers - 1
    /\ Goto(c, "leave")
    /\ UNCHANGED <<criticalVars, lk, op, irq>>

Leave(c) ==
    /\ pc[c] = "leave"
    /\ cpu_critical_out(c)
    /\ Goto(c, "idle")
    /\ UNCHANGED <<lk, readers, writers, op, irq>>

-----------------------------------------------------------------------------
Step(c) ==
    \/ Enter(c) \/ Spin(c) \/ TestWriters(c) \/ TestReaders(c) \/ Take(c)
    \/ InnerUnlock(c) \/ InnerOut(c) \/ Retry(c) \/ Drain(c)
    \/ Release(c) \/ Leave(c)

Next ==
    \E c \in CPUS : Step(c) \/ SetInterrupts(c) \/ \E o \in OPS : Call(c, o)

(* A CPU inside a call, or holding the lock, keeps executing.  The atomic  *)
(* operations promise a spinning CPU nothing more than weak fairness.      *)
Fairness == \A c \in CPUS : WF_vars(Step(c))

Spec == Init /\ [][Next]_vars /\ Fairness

-----------------------------------------------------------------------------
InnerHeld == {"writers", "readers", "take", "got", "refused"}
Counted   == {"got", "got_out", "drain", "cs"}

(* CPUs whose increment of readers (writers) is not yet undone.            *)
Readers == {c \in CPUS : op[c] = "r" /\ pc[c] \in Counted}
Writers == {c \in CPUS : op[c] # "r" /\ pc[c] \in Counted}

(* How many critical zones the call of a CPU is in.                        *)
Zones(label) ==
    CASE label \in {"idle", "enter"} -> 0
      [] label \in {"lock", "retry", "drain", "cs", "leave"} -> 1
      [] OTHER -> 2

TypeOK ==
    /\ CriticalTypeOK
    /\ lk \in {0, 1} /\ readers \in Nat /\ writers \in Nat
    /\ pc \in [CPUS -> PCS]
    /\ op \in [CPUS -> OPS]
    /\ irq \in [CPUS -> BOOLEAN]

(* Mutual exclusion: while a writer is between w_lock (or w_lock_br) and   *)
(* its unlock, nobody else is inside, although r_unlock and w_unlock       *)
(* change the counts the decision was taken on without the inner lock.     *)
RwExclusion ==
    \A c, d \in CPUS :
        pc[c] = "cs" /\ op[c] # "r" /\ pc[d] = "cs" => c = d

(* The counts are exactly the calls that have passed their increment and   *)
(* not their decrement, with one writer at most: no update is lost, and    *)
(* the unsigned counters never wrap below zero.                            *)
CountsExact ==
    /\ readers = Cardinality(Readers)
    /\ writers = IF Writers = {} THEN 0 ELSE 1
    /\ \A c, d \in Writers : c = d

(* Interrupts are off on a CPU inside the lock, back to the caller's       *)
(* choice after the call, and let in again between two failed rounds of    *)
(* the lock loop, the nesting count being that of the call's position.     *)
InterruptsFollowZone ==
    \A c \in CPUS :
        /\ INTR_NEST[c] = Zones(pc[c])
        /\ sie[c] = IF Zones(pc[c]) = 0 THEN irq[c] ELSE FALSE

(* "writer lock and block readers" (rwlock.h:73): from the moment          *)
(* w_lock_br waits for the readers inside, no reader gets in before it.    *)
ReadersBlocked ==
    [][(\E c \in CPUS : pc[c] = "drain") => readers' <= readers]_vars

(* The writer that blocks readers gets the lock once they have left; it    *)
(* cannot be starved by readers that keep arriving.                        *)
DrainEnds == \A c \in CPUS : pc[c] = "drain" ~> pc[c] = "cs"

(* Calls never all stay refused: when some CPU is in a lock loop, some CPU *)
(* eventually gets in (the loops cannot livelock each other).              *)
SomeoneEnters ==
    (\E c \in CPUS : pc[c] = "enter") ~> (\E c \in CPUS : pc[c] = "cs")
=============================================================================
