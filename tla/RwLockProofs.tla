---------------------------- MODULE RwLockProofs ----------------------------
(***************************************************************************)
(* Proofs about RwLock, for any finite set of CPUs.                        *)
(*                                                                         *)
(* RwExclusion is not inductive: a writer inside excludes the others only  *)
(* because the counts are exact, because what the holder of the inner lock *)
(* has read of them cannot become wrong before it acts on it (the unlocks  *)
(* that run without the inner lock only ever lower a count), and because   *)
(* the inner lock has one holder.                                          *)
(***************************************************************************)
EXTENDS RwLock, FiniteSetTheorems, TLAPS

(* The inner spinlock: its word is 0 while some CPU is between Spin and    *)
(* InnerUnlock, and only one is.                                           *)
InnerLockInv ==
    /\ lk = 1 => \A c \in CPUS : pc[c] \notin InnerHeld
    /\ \A c, d \in CPUS : pc[c] \in InnerHeld /\ pc[d] \in InnerHeld => c = d

(* What the holder of the inner lock has read is still true.               *)
ReadsInv ==
    \A c \in CPUS :
        /\ pc[c] \in {"readers", "take"} => writers = 0
        /\ pc[c] = "readers" => op[c] = "w"
        /\ pc[c] = "take" /\ op[c] = "w" => readers = 0

(* A writer that is past its test of readers, or past the wait for them,   *)
(* has none beside it.                                                     *)
WriterInv ==
    \A c \in CPUS :
        /\ c \in Writers /\ (op[c] = "w" \/ pc[c] = "cs") => readers = 0
        /\ pc[c] = "drain" => op[c] = "wbr"

IInv == TypeOK /\ InnerLockInv /\ ReadsInv /\ CountsExact /\ WriterInv

-----------------------------------------------------------------------------
(* Cardinality of the readers when one enters, leaves, or none is inside.  *)
LEMMA ReadersCardinality ==
    ASSUME NEW S \in SUBSET CPUS, NEW c \in CPUS
    PROVE  /\ IsFiniteSet(S)
           /\ Cardinality(S) \in Nat
           /\ Cardinality(S) = 0 <=> S = {}
           /\ c \notin S => Cardinality(S \cup {c}) = Cardinality(S) + 1
           /\ c \in S => Cardinality(S \ {c}) = Cardinality(S) - 1
<1>1. IsFiniteSet(S)
  BY FS_Subset, CPUSFinite
<1> QED
  BY <1>1, FS_CardinalityType, FS_EmptySet, FS_AddElement, FS_RemoveElement

(* cpu_critical_out keeps the per-CPU arrays well formed.                  *)
LEMMA CriticalOutType ==
    ASSUME CriticalTypeOK, NEW c \in CPUS, cpu_critical_out(c)
    PROVE  CriticalTypeOK'
<1>1. INTR_ENABLE' \in [CPUS -> BOOLEAN]
  BY DEF CriticalTypeOK, cpu_critical_out
<1>2. INTR_NEST' \in [CPUS -> Nat]
  BY DEF CriticalTypeOK, cpu_critical_out
<1>3. sie' \in [CPUS -> BOOLEAN]
  <2>1. INTR_ENABLE[c] \in BOOLEAN
    BY DEF CriticalTypeOK
  <2>2. \/ sie' = sie
        \/ sie' = [sie EXCEPT ![c] = INTR_ENABLE[c]]
        \/ sie' = [sie EXCEPT ![c] = FALSE]
    BY DEF cpu_critical_out
  <2>3. ASSUME NEW b \in BOOLEAN PROVE [sie EXCEPT ![c] = b] \in [CPUS -> BOOLEAN]
    BY DEF CriticalTypeOK
  <2> QED
    BY <2>1, <2>2, <2>3, Zenon DEF CriticalTypeOK
<1> QED
  BY <1>1, <1>2, <1>3 DEF CriticalTypeOK

(* The state after rwlock_init satisfies the invariant.                    *)
LEMMA InitIInv == Init => IInv
<1> SUFFICES ASSUME Init PROVE IInv
  OBVIOUS
<1> USE DEF Init, CriticalInit
<1>1. TypeOK
  BY DEF TypeOK, CriticalTypeOK, PCS, OPS
<1>2. Readers = {} /\ Writers = {}
  BY DEF Readers, Writers, Counted
<1>3. CountsExact
  BY <1>2, FS_EmptySet DEF CountsExact
<1> QED
  BY <1>1, <1>2, <1>3 DEF IInv, InnerLockInv, ReadsInv, WriterInv, InnerHeld

(* Every step keeps the variables in their types; a decrement of an        *)
(* unsigned count needs the count to be exact.                             *)
LEMMA TypeStep == IInv /\ [Next]_vars => TypeOK'
<1> SUFFICES ASSUME IInv, [Next]_vars PROVE TypeOK'
  OBVIOUS
<1> USE DEF IInv, TypeOK, CriticalTypeOK, PCS, OPS, Goto
<1>1. CASE UNCHANGED vars
  BY <1>1 DEF vars, criticalVars
<1>2. ASSUME NEW c \in CPUS, Step(c) PROVE TypeOK'
  <2>1. CASE Enter(c)
    BY <2>1 DEF Enter, cpu_critical_in
  <2>2. CASE Spin(c) \/ TestWriters(c) \/ TestReaders(c) \/ InnerUnlock(c) \/ Drain(c)
    BY <2>2 DEF Spin, TestWriters, TestReaders, InnerUnlock, Drain, criticalVars
  <2>3. CASE Take(c)
    BY <2>3 DEF Take, criticalVars
  <2>4. CASE InnerOut(c) \/ Retry(c) \/ Leave(c)
    <3>1. CriticalTypeOK'
      BY <2>4, CriticalOutType DEF InnerOut, Retry, Leave
    <3> QED
      BY <3>1, <2>4 DEF InnerOut, Retry, Leave
  <2>5. CASE Release(c)
    <3>1. op[c] = "r" => c \in Readers
      BY <2>5 DEF Release, Readers, Counted
    <3>2. op[c] # "r" => c \in Writers
      BY <2>5 DEF Release, Writers, Counted
    <3>3. op[c] = "r" => readers # 0
      BY <3>1, ReadersCardinality DEF CountsExact, Readers
    <3>4. op[c] # "r" => writers # 0
      BY <3>2 DEF CountsExact
    <3> QED
      BY <2>5, <3>3, <3>4 DEF Release, criticalVars
  <2> QED
    BY <1>2, <2>1, <2>2, <2>3, <2>4, <2>5 DEF Step
<1>3. ASSUME NEW c \in CPUS, SetInterrupts(c) PROVE TypeOK'
  BY <1>3 DEF SetInterrupts
<1>4. ASSUME NEW c \in CPUS, NEW o \in OPS, Call(c, o) PROVE TypeOK'
  BY <1>4 DEF Call, criticalVars
<1> QED
  BY <1>1, <1>2, <1>3, <1>4 DEF Next

(* Every step keeps the invariant.                                         *)
LEMMA StepIInv == IInv /\ [Next]_vars => IInv'
<1> SUFFICES ASSUME IInv, [Next]_vars PROVE IInv'
  OBVIOUS
<1>0. TypeOK'
  BY TypeStep
<1> USE DEF IInv, TypeOK, CriticalTypeOK, Goto
<1>1. CASE UNCHANGED vars
  <2>1. Readers' = Readers /\ Writers' = Writers
    BY <1>1 DEF vars, Readers, Writers
  <2> QED
    BY <1>0, <1>1, <2>1 DEF vars, CountsExact, InnerLockInv, ReadsInv, WriterInv
<1>2. ASSUME NEW c \in CPUS, Step(c) PROVE IInv'
  <2>1. CASE Enter(c) \/ Retry(c) \/ Leave(c)
    <3>1. UNCHANGED <<lk, readers, writers, op>>
      BY <2>1 DEF Enter, Retry, Leave
    <3>2. \A d \in CPUS : d # c => pc'[d] = pc[d]
      BY <2>1 DEF Enter, Retry, Leave
    <3>3. pc'[c] \in {"lock", "spin", "enter", "idle"} /\ pc[c] \in {"enter", "lock", "retry", "leave"}
      BY <2>1 DEF Enter, Retry, Leave
    <3>4. Readers' = Readers /\ Writers' = Writers
      BY <3>1, <3>2, <3>3 DEF Readers, Writers, Counted
    <3> QED
      BY <1>0, <3>1, <3>2, <3>3, <3>4
      DEF CountsExact, InnerLockInv, ReadsInv, WriterInv, InnerHeld
  <2>2. CASE Spin(c) \/ TestWriters(c) \/ TestReaders(c)
    <3>1. UNCHANGED <<readers, writers, op>>
      BY <2>2 DEF Spin, TestWriters, TestReaders
    <3>2. \A d \in CPUS : d # c => pc'[d] = pc[d]
      BY <2>2 DEF Spin, TestWriters, TestReaders
    <3>3. pc'[c] \in {"writers", "readers", "take", "refused"} /\ pc[c] \in {"spin", "writers", "readers"}
      BY <2>2 DEF Spin, TestWriters, TestReaders
    <3>4. Readers' = Readers /\ Writers' = Writers
      BY <3>1, <3>2, <3>3 DEF Readers, Writers, Counted
    <3>5. InnerLockInv'
      BY <2>2 DEF Spin, TestWriters, TestReaders, InnerLockInv, InnerHeld
    <3>6. ReadsInv'
      BY <2>2 DEF Spin, TestWriters, TestReaders, ReadsInv
    <3> QED
      BY <1>0, <3>1, <3>2, <3>3, <3>4, <3>5, <3>6 DEF CountsExact, WriterInv
  <2>3. CASE Take(c)
    <3>1. InnerLockInv'
      BY <2>3 DEF Take, InnerLockInv, InnerHeld
    <3>2. writers = 0 /\ Writers = {}
      BY <2>3 DEF Take, ReadsInv, CountsExact
    <3>3. \A d \in CPUS : d # c => pc[d] \notin InnerHeld /\ pc'[d] = pc[d]
      BY <2>3 DEF Take, InnerLockInv, InnerHeld
    <3>4. ReadsInv'
      BY <2>3, <3>3 DEF Take, ReadsInv, InnerHeld
    <3>5. CASE op[c] = "r"
      <4>1. Readers' = Readers \cup {c} /\ c \notin Readers /\ Writers' = {}
        BY <2>3, <3>2, <3>5 DEF Take, Readers, Writers, Counted
      <4>2. readers' = readers + 1 /\ writers' = 0
        BY <2>3, <3>2, <3>5 DEF Take
      <4>3. CountsExact'
        BY <4>1, <4>2, ReadersCardinality DEF CountsExact, Readers
      <4>4. WriterInv'
        BY <2>3, <4>1 DEF Take, WriterInv
      <4> QED
        BY <1>0, <3>1, <3>4, <4>3, <4>4
    <3>6. CASE op[c] # "r"
      <4>1. Writers' = {c} /\ Readers' = Readers
        BY <2>3, <3>2, <3>6 DEF Take, Readers, Writers, Counted
      <4>2. readers' = readers /\ writers' = 1
        BY <2>3, <3>2, <3>6 DEF Take
      <4>3. CountsExact'
        BY <4>1, <4>2 DEF CountsExact
      <4>4. WriterInv'
        BY <2>3, <4>1, <4>2 DEF Take, WriterInv, ReadsInv
      <4> QED
        BY <1>0, <3>1, <3>4, <4>3, <4>4
    <3> QED
      BY <3>5, <3>6
  <2>4. CASE InnerUnlock(c) \/ InnerOut(c)
    <3>1. UNCHANGED <<readers, writers, op>>
      BY <2>4 DEF InnerUnlock, InnerOut
    <3>2. \A d \in CPUS : d # c => pc'[d] = pc[d]
      BY <2>4 DEF InnerUnlock, InnerOut
    <3>3. Readers' = Readers /\ Writers' = Writers
      BY <2>4, <3>1, <3>2 DEF InnerUnlock, InnerOut, Readers, Writers, Counted
    <3>4. InnerLockInv'
      BY <2>4 DEF InnerUnlock, InnerOut, InnerLockInv, InnerHeld
    <3>5. ReadsInv' /\ WriterInv'
      BY <2>4, <3>3 DEF InnerUnlock, InnerOut, ReadsInv, WriterInv, Writers, Counted, OPS
    <3> QED
      BY <1>0, <3>1, <3>3, <3>4, <3>5 DEF CountsExact
  <2>5. CASE Drain(c)
    <3>1. Readers' = Readers /\ Writers' = Writers
      BY <2>5 DEF Drain, Readers, Writers, Counted
    <3> QED
      BY <1>0, <2>5, <3>1 DEF Drain, CountsExact, InnerLockInv, ReadsInv, WriterInv, InnerHeld
  <2>6. CASE Release(c)
    <3>1. InnerLockInv'
      BY <2>6 DEF Release, InnerLockInv, InnerHeld
    <3>2. CASE op[c] = "r"
      <4>1. Readers' = Readers \ {c} /\ c \in Readers /\ Writers' = Writers
        BY <2>6, <3>2 DEF Release, Readers, Writers, Counted
      <4>2. readers' = readers - 1 /\ writers' = writers
        BY <2>6, <3>2 DEF Release
      <4>3. readers # 0
        BY <4>1, ReadersCardinality DEF CountsExact, Readers
      <4>4. CountsExact'
        BY <4>1, <4>2, ReadersCardinality DEF CountsExact, Readers
      <4>5. ReadsInv' /\ WriterInv'
        BY <2>6, <4>1, <4>2, <4>3 DEF Release, ReadsInv, WriterInv
      <4> QED
        BY <1>0, <3>1, <4>4, <4>5
    <3>3. CASE op[c] # "r"
      <4>1. Readers' = Readers /\ c \in Writers /\ Writers' = Writers \ {c}
        BY <2>6, <3>3 DEF Release, Readers, Writers, Counted
      <4>2. writers = 1 /\ Writers' = {} /\ writers' = 0 /\ readers' = readers
        BY <2>6, <3>3, <4>1 DEF Release, CountsExact
      <4>3. CountsExact'
        BY <4>1, <4>2 DEF CountsExact
      <4>4. ReadsInv' /\ WriterInv'
        BY <2>6, <4>2 DEF Release, ReadsInv, WriterInv
      <4> QED
        BY <1>0, <3>1, <4>3, <4>4
    <3> QED
      BY <3>2, <3>3
  <2> QED
    BY <1>2, <2>1, <2>2, <2>3, <2>4, <2>5, <2>6 DEF Step
<1>3. ASSUME NEW c \in CPUS, SetInterrupts(c) PROVE IInv'
  <2>1. Readers' = Readers /\ Writers' = Writers
    BY <1>3 DEF SetInterrupts, Readers, Writers
  <2> QED
    BY <1>0, <1>3, <2>1 DEF SetInterrupts, CountsExact, InnerLockInv, ReadsInv, WriterInv
<1>4. ASSUME NEW c \in CPUS, NEW o \in OPS, Call(c, o) PROVE IInv'
  <2>1. Readers' = Readers /\ Writers' = Writers
    BY <1>4 DEF Call, Readers, Writers, Counted
  <2>2. InnerLockInv'
    BY <1>4 DEF Call, InnerLockInv, InnerHeld
  <2>3. ReadsInv'
    BY <1>4 DEF Call, ReadsInv
  <2>4. WriterInv'
    BY <1>4, <2>1 DEF Call, WriterInv, Writers, Counted
  <2> QED
    BY <1>0, <1>4, <2>1, <2>2, <2>3, <2>4 DEF Call, CountsExact
<1> QED
  BY <1>1, <1>2, <1>3, <1>4 DEF Next

(* The inductive invariant holds in every reachable state.                 *)
THEOREM Invariant == Spec => []IInv
<1> QED
  BY InitIInv, StepIInv, PTL DEF Spec

(* Type correctness; in particular the unsigned counts of rwlock_t never   *)
(* wrap, whatever order the unlocks come in.                               *)
THEOREM TypeCorrect == Spec => []TypeOK
<1>1. IInv => TypeOK
  BY DEF IInv
<1> QED
  BY <1>1, Invariant, PTL

(* The counts are exact and there is one writer at most.                   *)
THEOREM CountsAreExact == Spec => []CountsExact
<1>1. IInv => CountsExact
  BY DEF IInv
<1> QED
  BY <1>1, Invariant, PTL

(* A writer inside excludes every other caller of r_lock, w_lock and       *)
(* w_lock_br.                                                              *)
THEOREM MutualExclusion == Spec => []RwExclusion
<1>1. IInv => RwExclusion
  <2> SUFFICES ASSUME IInv, NEW c \in CPUS, NEW d \in CPUS,
                      pc[c] = "cs", op[c] # "r", pc[d] = "cs"
               PROVE  c = d
    BY DEF RwExclusion
  <2>1. c \in Writers
    BY DEF Writers, Counted
  <2>2. Readers = {}
    BY <2>1, ReadersCardinality DEF IInv, WriterInv, CountsExact, Readers
  <2>3. d \in Writers
    BY <2>2 DEF Readers, Writers, Counted
  <2> QED
    BY <2>1, <2>3 DEF IInv, CountsExact
<1> QED
  BY <1>1, Invariant, PTL
(* No reader is let in while w_lock_br waits for those inside: its claim   *)
(* keeps writers at 1, and a reader about to increment has read 0 under    *)
(* the inner lock.                                                         *)
THEOREM ReadersStayBlocked == Spec => ReadersBlocked
<1>1. IInv /\ [Next]_vars =>
        [(\E c \in CPUS : pc[c] = "drain") => readers' <= readers]_vars
  <2> SUFFICES ASSUME IInv, [Next]_vars, NEW c \in CPUS, pc[c] = "drain"
               PROVE  readers' <= readers
    OBVIOUS
  <2> USE DEF IInv, TypeOK
  <2>1. writers = 1
    <3>1. c \in Writers
      BY DEF WriterInv, Writers, Counted
    <3> QED
      BY <3>1 DEF CountsExact
  <2>2. ASSUME NEW d \in CPUS, Step(d) PROVE readers' <= readers
    <3>1. ~ Take(d)
      BY <2>1 DEF Take, ReadsInv
    <3>2. CASE Release(d)
      BY <3>2 DEF Release
    <3> QED
      BY <2>2, <3>1, <3>2
      DEF Step, Enter, Spin, TestWriters, TestReaders, InnerUnlock, InnerOut, Retry,
          Drain, Leave
  <2>3. ASSUME NEW d \in CPUS, NEW o \in OPS, SetInterrupts(d) \/ Call(d, o)
        PROVE  readers' <= readers
    BY <2>3 DEF SetInterrupts, Call
  <2> QED
    BY <2>2, <2>3 DEF Next, vars, OPS
<1> QED
  BY <1>1, Invariant, PTL DEF Spec, ReadersBlocked

-----------------------------------------------------------------------------
(* The saved interrupt state is the caller's as long as a zone is open.    *)
ZoneInv ==
    /\ InterruptsFollowZone
    /\ \A c \in CPUS : Zones(pc[c]) # 0 => INTR_ENABLE[c] = irq[c]

(* ZoneInv for one CPU.                                                    *)
ZoneAt(c) ==
    /\ INTR_NEST[c] = Zones(pc[c])
    /\ Zones(pc[c]) = 0 => sie[c] = irq[c]
    /\ Zones(pc[c]) # 0 => sie[c] = FALSE /\ INTR_ENABLE[c] = irq[c]

LEMMA ZoneInvAt == ZoneInv <=> \A c \in CPUS : ZoneAt(c)
BY DEF ZoneInv, ZoneAt, InterruptsFollowZone

(* cpu_critical_in, when the call moves one zone deeper.                   *)
LEMMA ZoneIn ==
    ASSUME TypeOK, ZoneInv, NEW c \in CPUS, NEW label \in PCS, cpu_critical_in(c),
           Goto(c, label), irq' = irq, Zones(label) = Zones(pc[c]) + 1, Zones(pc[c]) \in Nat
    PROVE  ZoneInv'
<1> USE DEF TypeOK, CriticalTypeOK, Goto
<1>0. \A d \in CPUS : ZoneAt(d)
  BY ZoneInvAt
<1>1. ASSUME NEW d \in CPUS, d # c PROVE ZoneAt(d)'
  <2>1. /\ pc'[d] = pc[d] /\ INTR_NEST'[d] = INTR_NEST[d]
        /\ sie'[d] = sie[d] /\ INTR_ENABLE'[d] = INTR_ENABLE[d]
    BY <1>1 DEF cpu_critical_in
  <2> QED
    BY <1>0, <2>1 DEF ZoneAt
<1>2. ZoneAt(c)'
  <2>1. pc'[c] = label /\ INTR_NEST'[c] = Zones(label) /\ sie'[c] = FALSE
    BY <1>0 DEF cpu_critical_in, ZoneAt
  <2>2. INTR_ENABLE'[c] = irq[c]
    BY <1>0 DEF cpu_critical_in, ZoneAt
  <2> QED
    BY <2>1, <2>2 DEF ZoneAt
<1> QED
  BY <1>1, <1>2 DEF ZoneInv, ZoneAt, InterruptsFollowZone

(* cpu_critical_out, when the call moves one zone out.                     *)
LEMMA ZoneOut ==
    ASSUME TypeOK, ZoneInv, NEW c \in CPUS, NEW label \in PCS, cpu_critical_out(c),
           Goto(c, label), irq' = irq, Zones(pc[c]) = Zones(label) + 1, Zones(label) \in Nat
    PROVE  ZoneInv'
<1> USE DEF TypeOK, CriticalTypeOK, Goto
<1>0. \A d \in CPUS : ZoneAt(d)
  BY ZoneInvAt
<1>1. ASSUME NEW d \in CPUS, d # c PROVE ZoneAt(d)'
  <2>1. /\ pc'[d] = pc[d] /\ INTR_NEST'[d] = INTR_NEST[d]
        /\ sie'[d] = sie[d] /\ INTR_ENABLE'[d] = INTR_ENABLE[d]
    BY <1>1 DEF cpu_critical_out
  <2> QED
    BY <1>0, <2>1 DEF ZoneAt
<1>2. ZoneAt(c)'
  <2>1. INTR_NEST[c] = Zones(label) + 1 /\ INTR_ENABLE[c] = irq[c]
    BY <1>0 DEF ZoneAt
  <2>2. pc'[c] = label /\ INTR_NEST'[c] = Zones(label) /\ INTR_ENABLE'[c] = irq[c]
    BY <2>1 DEF cpu_critical_out
  <2>3. Zones(label) = 0 => sie'[c] = irq[c]
    BY <2>1 DEF cpu_critical_out
  <2>4. Zones(label) # 0 => sie'[c] = FALSE
    BY <2>1 DEF cpu_critical_out
  <2> QED
    BY <2>2, <2>3, <2>4 DEF ZoneAt
<1> QED
  BY <1>1, <1>2 DEF ZoneInv, ZoneAt, InterruptsFollowZone

(* Steps that neither enter nor leave a zone.                              *)
LEMMA ZoneSame ==
    ASSUME TypeOK, ZoneInv, NEW c \in CPUS, NEW label \in PCS, UNCHANGED criticalVars,
           Goto(c, label), irq' = irq, Zones(label) = Zones(pc[c])
    PROVE  ZoneInv'
BY DEF ZoneInv, TypeOK, CriticalTypeOK, InterruptsFollowZone, Goto, criticalVars

(* Every step keeps the nesting count at the position of the call, and the *)
(* interrupt state with it.                                                *)
LEMMA StepZoneInv == TypeOK /\ ZoneInv /\ [Next]_vars => ZoneInv'
<1> SUFFICES ASSUME TypeOK, ZoneInv, [Next]_vars PROVE ZoneInv'
  OBVIOUS
<1>1. CASE UNCHANGED vars
  BY <1>1 DEF vars, criticalVars, ZoneInv, InterruptsFollowZone
<1>2. ASSUME NEW c \in CPUS, Step(c) PROVE ZoneInv'
  <2>1. CASE Enter(c)
    <3>1. PICK label \in PCS : /\ Goto(c, label)
                               /\ Zones(label) = Zones(pc[c]) + 1 /\ Zones(pc[c]) \in Nat
      BY <2>1 DEF Enter, Zones, PCS
    <3> QED
      BY <2>1, <3>1, ZoneIn DEF Enter
  <2>2. CASE InnerOut(c) \/ Retry(c) \/ Leave(c)
    <3>1. PICK label \in PCS : /\ Goto(c, label)
                               /\ Zones(pc[c]) = Zones(label) + 1 /\ Zones(label) \in Nat
      BY <2>2 DEF InnerOut, Retry, Leave, Zones, PCS
    <3> QED
      BY <2>2, <3>1, ZoneOut DEF InnerOut, Retry, Leave
  <2>3. CASE \/ Spin(c) \/ TestWriters(c) \/ TestReaders(c) \/ Take(c)
             \/ InnerUnlock(c) \/ Drain(c) \/ Release(c)
    <3>1. PICK label \in PCS : Goto(c, label) /\ Zones(label) = Zones(pc[c])
      BY <2>3 DEF Spin, TestWriters, TestReaders, Take, InnerUnlock, Drain, Release, Zones, PCS
    <3> QED
      BY <2>3, <3>1, ZoneSame
      DEF Spin, TestWriters, TestReaders, Take, InnerUnlock, Drain, Release
  <2> QED
    BY <1>2, <2>1, <2>2, <2>3 DEF Step
<1>3. ASSUME NEW c \in CPUS, SetInterrupts(c) PROVE ZoneInv'
  <2>1. Zones(pc[c]) = 0 /\ pc' = pc /\ sie'[c] = irq'[c]
    BY <1>3 DEF SetInterrupts, Zones, TypeOK, CriticalTypeOK
  <2>2. \A d \in CPUS : d # c => sie'[d] = sie[d] /\ irq'[d] = irq[d]
    BY <1>3 DEF SetInterrupts, TypeOK, CriticalTypeOK
  <2>3. Zones(pc'[c]) = 0
    BY <2>1
  <2> QED
    BY <1>3, <2>1, <2>2, <2>3 DEF SetInterrupts, ZoneInv, InterruptsFollowZone
<1>4. ASSUME NEW c \in CPUS, NEW o \in OPS, Call(c, o) PROVE ZoneInv'
  <2>1. Goto(c, "enter") /\ Zones("enter") = Zones(pc[c]) /\ "enter" \in PCS
    BY <1>4 DEF Call, Zones, PCS
  <2> QED
    BY <1>4, <2>1, ZoneSame DEF Call
<1> QED
  BY <1>1, <1>2, <1>3, <1>4 DEF Next

(* Interrupts are off wherever the lock functions are inside a zone, and   *)
(* outside they are what the caller chose.                                 *)
THEOREM InterruptsRestored == Spec => []InterruptsFollowZone
<1>1. Init => ZoneInv
  BY DEF Init, CriticalInit, ZoneInv, InterruptsFollowZone, Zones
<1>2. ZoneInv => InterruptsFollowZone
  BY DEF ZoneInv
<1> QED
  BY <1>1, <1>2, StepZoneInv, TypeCorrect, PTL DEF Spec
=============================================================================
