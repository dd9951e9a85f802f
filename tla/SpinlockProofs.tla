--------------------------- MODULE SpinlockProofs ---------------------------
(***************************************************************************)
(* Proofs about Spinlock, for any finite set of CPUs and of locks.         *)
(*                                                                         *)
(* LocksExact is not inductive for two reasons.  What cpu_critical_out     *)
(* puts back when it leaves the outermost zone is what an earlier call has *)
(* saved, so the saved state has to be the caller's all through the zone;  *)
(* and taking a lock adds one to the number of locks held only because the *)
(* lock a CPU spins for is none of those it has.                           *)
(***************************************************************************)
EXTENDS Spinlock, FiniteSetTheorems, TLAPS

TypeOK ==
    /\ CriticalTypeOK
    /\ value \in [LOCKS -> {0, 1}]
    /\ pc \in [CPUS -> {"run", "spin", "release"}]
    /\ want \in [CPUS -> LOCKS]
    /\ held \in [CPUS -> SUBSET LOCKS]
    /\ irq \in [CPUS -> BOOLEAN]

(* Inside a zone the saved state is the one the caller had chosen.         *)
SavedInv == \A c \in CPUS : held[c] # {} \/ pc[c] # "run" => INTR_ENABLE[c] = irq[c]

(* A CPU spins for a lock above those it holds.                            *)
OrderInv == \A c \in CPUS : pc[c] = "spin" => want[c] \notin held[c]

IInv == TypeOK /\ SavedInv /\ OrderInv /\ LocksExact

-----------------------------------------------------------------------------
(* The number of locks a CPU holds, when it takes or releases one.         *)
LEMMA HeldCardinality ==
    ASSUME NEW S \in SUBSET LOCKS, NEW l \in LOCKS
    PROVE  /\ Cardinality(S) \in Nat
           /\ Cardinality(S) = 0 <=> S = {}
           /\ l \notin S => Cardinality(S \cup {l}) = Cardinality(S) + 1
           /\ l \in S => Cardinality(S \ {l}) = Cardinality(S) - 1
<1>1. IsFiniteSet(S)
  BY FS_Subset, LOCKSInt
<1> QED
  BY <1>1, FS_CardinalityType, FS_EmptySet, FS_AddElement, FS_RemoveElement

(* What cpu_critical_out does inside a zone.                               *)
LEMMA CriticalOut ==
    ASSUME CriticalTypeOK, NEW c \in CPUS, cpu_critical_out(c), INTR_NEST[c] # 0
    PROVE  /\ CriticalTypeOK'
           /\ INTR_ENABLE' = INTR_ENABLE
           /\ INTR_NEST' = [INTR_NEST EXCEPT ![c] = @ - 1]
           /\ INTR_NEST[c] = 1 => sie' = [sie EXCEPT ![c] = INTR_ENABLE[c]]
           /\ INTR_NEST[c] # 1 => sie' = [sie EXCEPT ![c] = FALSE]
<1>1. INTR_ENABLE' = INTR_ENABLE /\ INTR_NEST' = [INTR_NEST EXCEPT ![c] = @ - 1]
  BY DEF cpu_critical_out
<1>2. INTR_NEST' \in [CPUS -> Nat]
  BY <1>1 DEF CriticalTypeOK
<1>3. /\ INTR_NEST[c] = 1 => sie' = [sie EXCEPT ![c] = INTR_ENABLE[c]]
      /\ INTR_NEST[c] # 1 => sie' = [sie EXCEPT ![c] = FALSE]
  BY DEF cpu_critical_out
<1>4. sie' \in [CPUS -> BOOLEAN]
  <2>1. INTR_ENABLE[c] \in BOOLEAN
    BY DEF CriticalTypeOK
  <2>2. ASSUME NEW b \in BOOLEAN PROVE [sie EXCEPT ![c] = b] \in [CPUS -> BOOLEAN]
    BY DEF CriticalTypeOK
  <2> QED
    BY <1>3, <2>1, <2>2, Zenon
<1> QED
  BY <1>1, <1>2, <1>3, <1>4 DEF CriticalTypeOK

LEMMA InitIInv == Init => IInv
<1> SUFFICES ASSUME Init PROVE IInv
  OBVIOUS
<1> USE DEF Init, CriticalInit
<1>1. TypeOK
  BY LOCKSInt DEF TypeOK, CriticalTypeOK
<1>2. LocksExact
  BY FS_EmptySet DEF LocksExact, MutualExclusion, ZoneCountsLocks, InterruptsFollowZone
<1> QED
  BY <1>1, <1>2 DEF IInv, SavedInv, OrderInv

(* The part of the invariant about one CPU: what its calls have done to    *)
(* its critical zone.  No other CPU can disturb it.                        *)
ZoneAt(c) ==
    /\ INTR_NEST[c] = Cardinality(held[c]) + (IF pc[c] = "run" THEN 0 ELSE 1)
    /\ held[c] # {} \/ pc[c] # "run" => ~sie[c] /\ INTR_ENABLE[c] = irq[c]
    /\ held[c] = {} /\ pc[c] = "run" => sie[c] = irq[c]
    /\ pc[c] = "spin" => want[c] \notin held[c]

LEMMA IInvParts == IInv <=> TypeOK /\ MutualExclusion /\ \A c \in CPUS : ZoneAt(c)
BY DEF IInv, SavedInv, OrderInv, LocksExact, ZoneCountsLocks, InterruptsFollowZone, ZoneAt

LEMMA StepIInv == IInv /\ [Next]_vars => IInv'
<1> SUFFICES ASSUME IInv, [Next]_vars PROVE IInv'
  OBVIOUS
<1>0. TypeOK /\ MutualExclusion /\ \A c \in CPUS : ZoneAt(c)
  BY IInvParts
<1> SUFFICES TypeOK' /\ MutualExclusion' /\ \A c \in CPUS : ZoneAt(c)'
  BY DEF IInv, SavedInv, OrderInv, LocksExact, ZoneCountsLocks, InterruptsFollowZone, ZoneAt
<1> USE DEF TypeOK, CriticalTypeOK
<1>1. CASE UNCHANGED vars
  BY <1>0, <1>1 DEF vars, criticalVars, MutualExclusion, ZoneAt
<1>2. ASSUME NEW c \in CPUS, SetInterrupts(c)
      PROVE TypeOK' /\ MutualExclusion' /\ \A d \in CPUS : ZoneAt(d)'
  <2>1. TypeOK'
    BY <1>0, <1>2 DEF SetInterrupts
  <2>2. ZoneAt(c)'
    BY <1>0, <1>2 DEF SetInterrupts, ZoneAt
  <2>3. ASSUME NEW d \in CPUS, d # c PROVE ZoneAt(d)'
    BY <1>0, <1>2, <2>3 DEF SetInterrupts, ZoneAt
  <2> QED
    BY <1>0, <1>2, <2>1, <2>2, <2>3 DEF SetInterrupts, MutualExclusion
<1>3. ASSUME NEW c \in CPUS, NEW l \in LOCKS, Lock(c, l)
      PROVE TypeOK' /\ MutualExclusion' /\ \A d \in CPUS : ZoneAt(d)'
  <2>1. TypeOK'
    BY <1>0, <1>3 DEF Lock, cpu_critical_in
  <2>2. ZoneAt(c)'
    <3>1. l \notin held[c]
      BY <1>0, <1>3, LOCKSInt DEF Lock
    <3>2. held'[c] = held[c] /\ irq'[c] = irq[c] /\ pc'[c] = "spin" /\ want'[c] = l
      BY <1>0, <1>3 DEF Lock
    <3>3. INTR_NEST'[c] = INTR_NEST[c] + 1 /\ sie'[c] = FALSE
      BY <1>0, <1>3 DEF Lock, cpu_critical_in
    <3>4. INTR_NEST[c] = Cardinality(held[c]) /\ Cardinality(held[c]) \in Nat
      <4>1. Cardinality(held[c]) \in Nat
        BY <1>0, HeldCardinality
      <4>2. INTR_NEST[c] = Cardinality(held[c]) + 0
        BY <1>0, <1>3 DEF Lock, ZoneAt
      <4> QED
        BY <4>1, <4>2
    <3>5. INTR_ENABLE'[c] = irq[c]
      <4>1. CASE held[c] = {}
        <5>1. sie[c] = irq[c]
          BY <1>0, <1>3, <4>1 DEF Lock, ZoneAt
        <5>2. INTR_NEST[c] = 0
          BY <3>4, <4>1, HeldCardinality
        <5>3. INTR_ENABLE' = [INTR_ENABLE EXCEPT ![c] = sie[c]]
          BY <1>3, <5>2 DEF Lock, cpu_critical_in
        <5> QED
          BY <1>0, <5>1, <5>3, Zenon
      <4>2. CASE held[c] # {}
        BY <1>0, <1>3, <3>4, <4>2, HeldCardinality DEF Lock, cpu_critical_in, ZoneAt
      <4> QED
        BY <4>1, <4>2
    <3> QED
      BY <3>1, <3>2, <3>3, <3>4, <3>5 DEF ZoneAt
  <2>3. ASSUME NEW d \in CPUS, d # c PROVE ZoneAt(d)'
    BY <1>0, <1>3, <2>3 DEF Lock, cpu_critical_in, ZoneAt
  <2> QED
    BY <1>0, <1>3, <2>1, <2>2, <2>3 DEF Lock, MutualExclusion
<1>4. ASSUME NEW c \in CPUS, Spin(c)
      PROVE TypeOK' /\ MutualExclusion' /\ \A d \in CPUS : ZoneAt(d)'
  <2>1. TypeOK'
    BY <1>0, <1>4 DEF Spin, criticalVars
  <2>2. ZoneAt(c)'
    <3>1. Cardinality(held[c] \cup {want[c]}) = Cardinality(held[c]) + 1
      BY <1>0, <1>4, HeldCardinality DEF Spin, ZoneAt
    <3> QED
      BY <1>0, <1>4, <3>1 DEF Spin, ZoneAt, criticalVars
  <2>3. ASSUME NEW d \in CPUS, d # c PROVE ZoneAt(d)'
    BY <1>0, <1>4, <2>3 DEF Spin, ZoneAt, criticalVars
  <2>4. MutualExclusion'
    BY <1>0, <1>4 DEF Spin, MutualExclusion
  <2> QED
    BY <2>1, <2>2, <2>3, <2>4
<1>5. ASSUME NEW c \in CPUS, NEW l \in LOCKS, Unlock(c, l)
      PROVE TypeOK' /\ MutualExclusion' /\ \A d \in CPUS : ZoneAt(d)'
  <2>1. TypeOK'
    BY <1>0, <1>5 DEF Unlock, criticalVars
  <2>2. ZoneAt(c)'
    <3>1. Cardinality(held[c] \ {l}) = Cardinality(held[c]) - 1 /\ Cardinality(held[c]) \in Nat
      BY <1>0, <1>5, HeldCardinality DEF Unlock
    <3> QED
      BY <1>0, <1>5, <3>1 DEF Unlock, ZoneAt, criticalVars
  <2>3. ASSUME NEW d \in CPUS, d # c PROVE ZoneAt(d)'
    BY <1>0, <1>5, <2>3 DEF Unlock, ZoneAt, criticalVars
  <2>4. MutualExclusion'
    BY <1>0, <1>5 DEF Unlock, MutualExclusion
  <2> QED
    BY <2>1, <2>2, <2>3, <2>4
<1>6. ASSUME NEW c \in CPUS, Release(c)
      PROVE TypeOK' /\ MutualExclusion' /\ \A d \in CPUS : ZoneAt(d)'
  <2>0. /\ Cardinality(held[c]) \in Nat
        /\ Cardinality(held[c]) = 0 <=> held[c] = {}
        /\ INTR_NEST[c] = Cardinality(held[c]) + 1 /\ INTR_ENABLE[c] = irq[c]
    BY <1>0, <1>6, HeldCardinality, LOCKSInt DEF Release, ZoneAt
  <2>1. INTR_NEST[c] # 0 /\ (INTR_NEST[c] = 1 <=> held[c] = {})
    BY <2>0
  <2>2. /\ CriticalTypeOK' /\ INTR_ENABLE' = INTR_ENABLE
        /\ INTR_NEST' = [INTR_NEST EXCEPT ![c] = @ - 1]
        /\ held[c] = {} => sie' = [sie EXCEPT ![c] = INTR_ENABLE[c]]
        /\ held[c] # {} => sie' = [sie EXCEPT ![c] = FALSE]
    BY <1>0, <1>6, <2>1, CriticalOut DEF Release
  <2>3. TypeOK'
    BY <1>0, <1>6, <2>2 DEF Release
  <2>4. ZoneAt(c)'
    <3>1. held'[c] = held[c] /\ irq'[c] = irq[c] /\ pc'[c] = "run"
      BY <1>0, <1>6 DEF Release
    <3>2. INTR_NEST'[c] = Cardinality(held[c])
      BY <1>0, <2>0, <2>2
    <3>3. held[c] = {} => sie'[c] = irq[c]
      BY <1>0, <2>0, <2>2
    <3>4. held[c] # {} => sie'[c] = FALSE
      BY <1>0, <2>2
    <3>5. INTR_ENABLE'[c] = irq'[c]
      BY <2>0, <2>2, <3>1
    <3>6. INTR_NEST'[c] = Cardinality(held'[c]) + (IF pc'[c] = "run" THEN 0 ELSE 1)
      BY <2>0, <3>1, <3>2
    <3> QED
      BY <3>1, <3>3, <3>4, <3>5, <3>6, Zenon DEF ZoneAt
  <2>5. ASSUME NEW d \in CPUS, d # c PROVE ZoneAt(d)'
    <3>1. /\ held'[d] = held[d] /\ irq'[d] = irq[d] /\ pc'[d] = pc[d] /\ want'[d] = want[d]
          /\ INTR_NEST'[d] = INTR_NEST[d] /\ INTR_ENABLE'[d] = INTR_ENABLE[d] /\ sie'[d] = sie[d]
      BY <1>0, <1>6, <2>2, <2>5 DEF Release
    <3> QED
      BY <1>0, <3>1 DEF ZoneAt
  <2> QED
    BY <1>0, <1>6, <2>3, <2>4, <2>5 DEF Release, MutualExclusion
<1> QED
  BY <1>1, <1>2, <1>3, <1>4, <1>5, <1>6 DEF Next

(* The inductive invariant holds in every state of every behaviour.        *)
THEOREM Invariant == Spec => []IInv
BY InitIInv, StepIInv, PTL DEF Spec

(* Nested locks exclude each other, the critical zone counts them exactly, *)
(* and the interrupts are off from the first to the last of them and then  *)
(* what the caller had chosen, for any number of harts and locks.          *)
THEOREM LocksAreExact == Spec => []LocksExact
<1>1. IInv => LocksExact
  BY DEF IInv
<1> QED
  BY <1>1, Invariant, PTL
=============================================================================
