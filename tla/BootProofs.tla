----------------------------- MODULE BootProofs -----------------------------
(***************************************************************************)
(* Proofs about Boot, for any number of harts and of modules.              *)
(***************************************************************************)
EXTENDS Boot, FiniteSetTheorems, TLAPS

Early  == {"head", "bss", "boot_harts"}
Waits  == {"stopped", "boot_harts", "secondary", "start_kernel", "wait"}
Landed == {"arrive", "barrier", "slfcheck", "parked"}

(* Only one hart is in _start's first part, and the harts its loop has not *)
(* come to are held by the firmware: it never restarts a running one.      *)
LoaderInv ==
    /\ \A c, d \in Harts : pc[c] \in Early /\ d # c /\ d >= hart => pc[d] = "stopped"
    /\ \A c, d \in Harts : pc[c] \in Early /\ pc[d] \in Early => c = d

(* Before the BSS is cleared nothing else has happened.                    *)
HeadInv ==
    \A c \in Harts : pc[c] \in {"head", "bss"} =>
        /\ hart = 0
        /\ \A d \in Harts : mod[d] = 1
        /\ \A m \in Modules : inits[m] = 0

(* Hart 0 initialises the modules one after the other, and nobody else is  *)
(* past the wait before it has published module_inited.                    *)
FirstInv ==
    /\ pc[0] \notin {"wait", "smp"}
    /\ pc[0] \in {"stopped", "boot_harts", "secondary", "start_kernel"} => mod[0] = 1
    /\ pc[0] \in {"test", "body", "set"} => mod[0] \in Modules
    /\ pc[0] = "inited" => mod[0] = MODULES + 1
    /\ pc[0] \in Landed => module_inited = 1
    /\ pc[0] \notin Landed \cup {"halted"} =>
         \A m \in Modules :
           /\ done[m] = IF m < mod[0] THEN 1 ELSE 0
           /\ inits[m] = IF m < mod[0] \/ (m = mod[0] /\ pc[0] \in {"body", "set"}) THEN 1 ELSE 0
    /\ \A m \in Modules : inits[m] <= 1

PublishedInv ==
    module_inited = 1 =>
        /\ pc[0] \in Landed \cup {"halted"}
        /\ \A m \in Modules : done[m] = 1

OthersInv ==
    \A c \in Harts \ {0} :
        /\ pc[c] \notin {"body", "set", "barrier", "slfcheck", "halted"}
        /\ pc[c] \notin Waits => module_inited = 1
        /\ pc[c] \in Waits => mod[c] = 1
        /\ pc[c] \in {"test", "smp"} => mod[c] \in Modules

(* The harts that have counted themselves.                                 *)
Arrived ==
    {c \in Harts : pc[c] \in {"barrier", "slfcheck", "parked"}
                     \/ (pc[c] = "halted" /\ module_inited = 1)}

CountInv ==
    /\ bootdone_cpus = Cardinality(Arrived)
    /\ pc[0] = "slfcheck" => bootdone_cpus = CPUS

Cleared == \A c \in Harts : pc[c] \notin {"head", "bss"}

ClearedInv == Cleared => cpu_boot = 0 /\ FirstInv /\ PublishedInv /\ OthersInv /\ CountInv

IInv == TypeOK /\ LoaderInv /\ HeadInv /\ ClearedInv

-----------------------------------------------------------------------------
LEMMA HartsFacts ==
    /\ 0 \in Harts /\ IsFiniteSet(Harts) /\ Cardinality(Harts) = CPUS
    /\ \A c \in Harts : c \in Nat /\ c < CPUS
<1>1. 0 \in Int /\ CPUS - 1 \in Int /\ CPUS >= 1
  BY BootAssumption
<1> QED
  BY <1>1, FS_Interval, BootAssumption DEF Harts

(* A finite count of harts: bounded by CPUS, and CPUS only for all.        *)
LEMMA Counting ==
    ASSUME NEW S \in SUBSET Harts
    PROVE  /\ IsFiniteSet(S) /\ Cardinality(S) \in 0 .. CPUS
           /\ Cardinality(S) = CPUS => S = Harts
           /\ \A c \in Harts \ S : Cardinality(S \cup {c}) = Cardinality(S) + 1
<1>1. IsFiniteSet(S) /\ Cardinality(S) <= CPUS /\ (Cardinality(S) = CPUS => S = Harts)
  BY HartsFacts, FS_Subset
<1>2. Cardinality(S) \in Nat
  BY <1>1, FS_CardinalityType
<1>3. \A c \in Harts \ S : Cardinality(S \cup {c}) = Cardinality(S) + 1
  BY <1>1, FS_AddElement
<1> QED
  BY <1>1, <1>2, <1>3, BootAssumption

(* A hart that runs after its start does so with the BSS cleared.          *)
LEMMA RunsCleared ==
    ASSUME LoaderInv, HeadInv, NEW c \in Harts, pc[c] \notin {"stopped", "head", "bss"}
    PROVE  Cleared
<1> SUFFICES ASSUME NEW d \in Harts, pc[d] \in {"head", "bss"} PROVE FALSE
  BY DEF Cleared
<1>1. hart = 0 /\ c >= hart /\ c # d /\ pc[d] \in Early
  BY HartsFacts DEF HeadInv, Early
<1> QED
  BY <1>1 DEF LoaderInv

(* A hart that is past _start leaves the loader's state alone.             *)
LEMMA LoaderKept ==
    ASSUME TypeOK, LoaderInv, HeadInv, NEW c \in Harts, NEW label \in PCS,
           pc[c] \notin Early \cup {"stopped"}, label \notin Early \cup {"stopped"},
           Goto(c, label), hart' = hart
    PROVE  LoaderInv' /\ HeadInv' /\ Cleared /\ Cleared'
<1>1. Cleared
  BY RunsCleared DEF Early
<1>2. \A d \in Harts : pc'[d] = IF d = c THEN label ELSE pc[d]
  BY DEF Goto, TypeOK
<1>3. Cleared'
  BY <1>1, <1>2 DEF Cleared, Early
<1>4. HeadInv'
  BY <1>3 DEF HeadInv, Cleared
<1>5. \A d \in Harts : (pc'[d] \in Early <=> pc[d] \in Early) /\ (pc'[d] = "stopped" <=> pc[d] = "stopped")
  BY <1>2
<1>6. LoaderInv'
  BY <1>5 DEF LoaderInv
<1> QED
  BY <1>1, <1>3, <1>4, <1>6

LEMMA InitIInv == Init => IInv
<1> SUFFICES ASSUME Init PROVE IInv
  OBVIOUS
<1>1. PICK b \in Harts : pc = [c \in Harts |-> IF c = b THEN "head" ELSE "stopped"]
  BY DEF Init
<1>2. TypeOK
  BY <1>1, BootAssumption DEF Init, TypeOK, PCS
<1>3. LoaderInv
  BY <1>1 DEF LoaderInv, Early
<1>4. HeadInv
  BY <1>1 DEF Init, HeadInv
<1>5. ClearedInv
  BY <1>1 DEF ClearedInv, Cleared
<1> QED
  BY <1>2, <1>3, <1>4, <1>5 DEF IInv

-----------------------------------------------------------------------------
(* The steps of _start.                                                    *)

LEMMA StoreCpuBootStep ==
    ASSUME IInv, NEW c \in Harts, StoreCpuBoot(c)
    PROVE  IInv'
<1>1. \A d \in Harts : pc'[d] = IF d = c THEN "bss" ELSE pc[d]
  BY DEF IInv, TypeOK, StoreCpuBoot, Goto
<1>2. TypeOK'
  BY HartsFacts, BootAssumption DEF IInv, TypeOK, StoreCpuBoot, Goto, PCS
<1>3. \A d \in Harts : (pc'[d] \in Early <=> pc[d] \in Early) /\ (pc'[d] = "stopped" <=> pc[d] = "stopped")
  BY <1>1 DEF StoreCpuBoot, Early
<1>4. LoaderInv'
  BY <1>3 DEF IInv, LoaderInv, StoreCpuBoot
<1>5. HeadInv'
  BY DEF IInv, HeadInv, StoreCpuBoot
<1>6. ClearedInv'
  BY <1>1 DEF ClearedInv, Cleared
<1> QED
  BY <1>2, <1>4, <1>5, <1>6 DEF IInv

LEMMA ClearBssStep ==
    ASSUME IInv, NEW c \in Harts, ClearBss(c)
    PROVE  IInv'
<1>1. \A d \in Harts : pc'[d] = IF d = c THEN "boot_harts" ELSE pc[d]
  BY DEF IInv, TypeOK, ClearBss, Goto
<1>2. TypeOK'
  BY BootAssumption DEF IInv, TypeOK, ClearBss, Goto, PCS
<1>3. \A d \in Harts : (pc'[d] \in Early <=> pc[d] \in Early) /\ (pc'[d] = "stopped" <=> pc[d] = "stopped")
  BY <1>1 DEF ClearBss, Early
<1>4. LoaderInv'
  BY <1>3 DEF IInv, LoaderInv, ClearBss
<1>5. hart = 0 /\ \A d \in Harts : d # c => pc[d] = "stopped"
  BY HartsFacts DEF IInv, HeadInv, LoaderInv, ClearBss, Early
<1>6. \A d \in Harts : pc'[d] \in {"stopped", "boot_harts"}
  BY <1>1, <1>5
<1>7. HeadInv'
  BY <1>6 DEF HeadInv
<1>8. /\ \A d \in Harts : mod'[d] = 1
      /\ \A m \in Modules : inits'[m] = 0 /\ done'[m] = 0
      /\ cpu_boot' = 0 /\ module_inited' = 0 /\ bootdone_cpus' = 0
  BY DEF IInv, HeadInv, ClearBss
<1>9. FirstInv'
  BY <1>6, <1>8, HartsFacts, BootAssumption DEF FirstInv, Landed, Modules
<1>10. PublishedInv' /\ OthersInv'
  BY <1>6, <1>8 DEF PublishedInv, OthersInv, Waits
<1>11. Arrived' = {}
  BY <1>6 DEF Arrived
<1>12. CountInv'
  BY <1>6, <1>8, <1>11, FS_EmptySet, HartsFacts DEF CountInv
<1> QED
  BY <1>2, <1>4, <1>7, <1>8, <1>9, <1>10, <1>12 DEF IInv, ClearedInv

LEMMA BootHartsStep ==
    ASSUME IInv, NEW c \in Harts, BootHarts(c)
    PROVE  IInv'
<1> USE HartsFacts
<1>0. TypeOK /\ LoaderInv /\ HeadInv /\ hart \in 0 .. CPUS /\ c \in Nat
  BY DEF IInv, TypeOK
<1>1. Cleared
  BY <1>0, RunsCleared DEF BootHarts
<1>2. cpu_boot = 0 /\ FirstInv /\ PublishedInv /\ OthersInv /\ CountInv
  BY <1>1 DEF IInv, ClearedInv
<1>3. CASE hart < CPUS /\ hart # c
  <2>1. hart \in Harts /\ pc[hart] = "stopped" /\ hart' = hart + 1
    BY <1>0, <1>3, BootAssumption DEF LoaderInv, BootHarts, Early, Harts
  <2>2. pc' = [pc EXCEPT ![hart] = "secondary"]
    BY <1>3 DEF BootHarts
  <2>3. \A d \in Harts : pc'[d] = IF d = hart THEN "secondary" ELSE pc[d]
    BY <2>1, <2>2, <1>0 DEF TypeOK
  <2>4. TypeOK'
    BY <1>0, <1>3, <2>1, <2>2, BootAssumption DEF TypeOK, BootHarts, PCS
  <2>5. LoaderInv'
    BY <1>0, <2>1, <2>3 DEF LoaderInv, Early
  <2>6. HeadInv' /\ Cleared'
    BY <1>1, <2>3 DEF HeadInv, Cleared
  <2>7. FirstInv' /\ PublishedInv' /\ OthersInv'
    BY <1>2, <2>1, <2>3 DEF FirstInv, PublishedInv, OthersInv, BootHarts, Waits, Landed
  <2>8. Arrived' = Arrived
    BY <2>1, <2>3 DEF Arrived, BootHarts
  <2>9. CountInv'
    BY <1>2, <2>1, <2>3, <2>8 DEF CountInv, BootHarts
  <2> QED
    BY <1>2, <2>4, <2>5, <2>6, <2>7, <2>9 DEF IInv, ClearedInv, BootHarts
<1>4. CASE hart < CPUS /\ hart = c
  <2>1. pc' = pc /\ hart' = hart + 1
    BY <1>4 DEF BootHarts
  <2>2. TypeOK'
    BY <1>0, <1>4, <2>1, BootAssumption DEF TypeOK, BootHarts
  <2>3. LoaderInv'
    BY <1>0, <2>1 DEF LoaderInv
  <2>4. HeadInv' /\ Cleared'
    BY <1>1, <2>1 DEF HeadInv, Cleared
  <2>5. FirstInv' /\ PublishedInv' /\ OthersInv'
    BY <1>2, <2>1 DEF FirstInv, PublishedInv, OthersInv, BootHarts
  <2>6. CountInv'
    BY <1>2, <2>1 DEF CountInv, Arrived, BootHarts
  <2> QED
    BY <1>2, <2>2, <2>3, <2>4, <2>5, <2>6 DEF IInv, ClearedInv, BootHarts
<1>5. CASE hart >= CPUS
  <2>1. Goto(c, "start_kernel") /\ hart' = hart /\ pc[c] = "boot_harts"
    BY <1>0, <1>5, BootAssumption DEF BootHarts
  <2>2. \A d \in Harts : pc'[d] = IF d = c THEN "start_kernel" ELSE pc[d]
    BY <1>0, <2>1 DEF TypeOK, Goto
  <2>3. TypeOK'
    BY <1>0, <2>1 DEF TypeOK, BootHarts, Goto, PCS
  <2>4. LoaderInv'
    BY <1>0, <2>1, <2>2 DEF LoaderInv, Early
  <2>5. HeadInv' /\ Cleared'
    BY <1>1, <2>2 DEF HeadInv, Cleared
  <2>6. FirstInv' /\ PublishedInv' /\ OthersInv'
    BY <1>2, <2>1, <2>2 DEF FirstInv, PublishedInv, OthersInv, BootHarts, Waits, Landed
  <2>7. Arrived' = Arrived
    BY <2>1, <2>2 DEF Arrived, BootHarts
  <2>8. CountInv'
    BY <1>2, <2>1, <2>2, <2>7 DEF CountInv, BootHarts
  <2> QED
    BY <1>2, <2>3, <2>4, <2>5, <2>6, <2>8 DEF IInv, ClearedInv, BootHarts
<1> QED
  BY <1>0, <1>3, <1>4, <1>5, BootAssumption

-----------------------------------------------------------------------------
(* The steps of start_kernel and aco_module_init.  Each moves its hart on  *)
(* to a label and disturbs the invariant of that hart, of the published    *)
(* flag, of the other harts, or the count.                                 *)

LEMMA TypeStep == ASSUME IInv, NEW c \in Harts, HartStep(c) PROVE TypeOK'
<1> USE DEF TypeOK, PCS, Goto
<1>0. TypeOK
  BY DEF IInv
<1>1. ASSUME pc[c] \notin {"stopped", "head", "bss"}
      PROVE  cpu_boot = 0 /\ FirstInv /\ PublishedInv /\ OthersInv /\ CountInv
  BY <1>1, RunsCleared DEF IInv, ClearedInv
<1>2. CASE StoreCpuBoot(c) \/ ClearBss(c) \/ BootHarts(c)
  BY <1>2, StoreCpuBootStep, ClearBssStep, BootHartsStep DEF IInv
<1>3. CASE Secondary(c) \/ StartKernel(c) \/ Wait(c) \/ Body(c) \/ Barrier(c) \/ Slfcheck(c)
  BY <1>0, <1>3 DEF Secondary, StartKernel, Wait, Body, Barrier, Slfcheck
<1>4. CASE TestDone(c) \/ SmpTest(c) \/ SetDone(c)
  <2>1. pc[c] \in {"test", "smp", "set"}
    BY <1>4 DEF TestDone, SmpTest, SetDone
  <2>2. mod[c] \in Modules
    BY <1>1, <2>1 DEF FirstInv, OthersInv
  <2>3. mod[c] + 1 \in 1 .. MODULES + 1
    BY <2>2, BootAssumption DEF Modules
  <2>4. CASE TestDone(c)
    BY <1>0, <2>2, <2>3, <2>4 DEF TestDone, Advance
  <2>5. CASE SmpTest(c)
    BY <1>0, <2>2, <2>3, <2>5 DEF SmpTest, Advance
  <2>6. CASE SetDone(c)
    <3>1. c = 0 /\ done[mod[c]] = 0
      BY <1>1, <2>2, <2>6, HartsFacts DEF SetDone, FirstInv, OthersInv, Landed, Modules
    <3>2. done' \in [Modules -> 0 .. 1]
      BY <1>0, <2>2, <2>6, <3>1 DEF SetDone
    <3> QED
      BY <1>0, <2>3, <2>6, <3>2 DEF SetDone, Advance
  <2> QED
    BY <1>4, <2>4, <2>5, <2>6
<1>5. CASE Inited(c)
  <2>1. c = 0 => module_inited = 0
    BY <1>0, <1>1, <1>5 DEF Inited, PublishedInv, Landed
  <2> QED
    BY <1>0, <1>1, <1>5, <2>1 DEF Inited, IsBoot
<1>6. CASE Arrive(c)
  <2>1. c \notin Arrived /\ Arrived \in SUBSET Harts
    BY <1>6 DEF Arrive, Arrived
  <2>2. Cardinality(Arrived) \in 0 .. CPUS /\ Cardinality(Arrived) # CPUS
    BY <2>1, Counting
  <2>3. bootdone_cpus' \in 0 .. CPUS
    BY <1>1, <1>6, <2>2, BootAssumption DEF Arrive, CountInv
  <2> QED
    BY <1>0, <1>6, <2>3 DEF Arrive
<1> QED
  BY <1>2, <1>3, <1>4, <1>5, <1>6 DEF HartStep

(* What the step of a hart past _start has to keep, given where it goes.   *)
LEMMA RunStep ==
    ASSUME IInv, NEW c \in Harts, NEW label \in PCS, HartStep(c), Goto(c, label),
           pc[c] \notin Early \cup {"stopped"}, label \notin Early \cup {"stopped"},
           hart' = hart, cpu_boot' = cpu_boot,
           cpu_boot = 0 /\ FirstInv /\ PublishedInv /\ OthersInv /\ CountInv
             => FirstInv' /\ PublishedInv' /\ OthersInv' /\ CountInv'
    PROVE  IInv'
<1>1. TypeOK /\ LoaderInv /\ HeadInv
  BY DEF IInv
<1>2. LoaderInv' /\ HeadInv' /\ Cleared /\ Cleared'
  BY <1>1, LoaderKept
<1>3. TypeOK'
  BY TypeStep
<1> QED
  BY <1>2, <1>3 DEF IInv, ClearedInv

(* A hart that neither counts itself nor halts keeps the count.            *)
LEMMA CountKept ==
    ASSUME TypeOK, CountInv, NEW c \in Harts, NEW label \in PCS, Goto(c, label),
           pc[c] \notin {"barrier", "slfcheck", "parked", "halted"},
           label \notin {"barrier", "slfcheck", "parked"},
           label = "halted" => module_inited = 0,
           module_inited' = module_inited, bootdone_cpus' = bootdone_cpus
    PROVE  CountInv'
<1>1. \A d \in Harts : pc'[d] = IF d = c THEN label ELSE pc[d]
  BY DEF TypeOK, Goto
<1>2. Arrived' = Arrived
  BY <1>1 DEF Arrived
<1> QED
  BY <1>1, <1>2, HartsFacts DEF CountInv

LEMMA HartStepIInv == ASSUME IInv, NEW c \in Harts, HartStep(c) PROVE IInv'
<1> USE DEF PCS, Early
<1>0. TypeOK /\ \A label : Goto(c, label) => \A d \in Harts : pc'[d] = IF d = c THEN label ELSE pc[d]
  BY DEF IInv, TypeOK, Goto
<1> DEFINE Hyp  == cpu_boot = 0 /\ FirstInv /\ PublishedInv /\ OthersInv /\ CountInv
           Goal == FirstInv' /\ PublishedInv' /\ OthersInv' /\ CountInv'
<1>1. CASE Secondary(c)
  <2>1. Goto(c, "start_kernel") /\ pc[c] = "secondary"
    BY <1>1 DEF Secondary
  <2>2. ASSUME Hyp PROVE Goal
    <3>1. FirstInv' /\ PublishedInv' /\ OthersInv'
      BY <1>0, <1>1, <2>1, <2>2, HartsFacts DEF Secondary, FirstInv, PublishedInv, OthersInv, Waits, Landed
    <3>2. CountInv'
      BY <1>0, <1>1, <2>1, <2>2, CountKept DEF Secondary
    <3> QED
      BY <3>1, <3>2
  <2> QED
    BY <1>1, <2>1, <2>2, RunStep DEF Secondary
<1>2. CASE StartKernel(c)
  <2>1. pc[c] = "start_kernel"
    BY <1>2 DEF StartKernel
  <2>2. PICK label \in {"test", "wait"} : Goto(c, label) /\ (label = "test" <=> c = cpu_boot)
    BY <1>2 DEF StartKernel, IsBoot
  <2>3. ASSUME Hyp PROVE Goal
    <3>1. FirstInv' /\ PublishedInv'
      BY <1>0, <1>2, <2>1, <2>2, <2>3, HartsFacts, BootAssumption
      DEF StartKernel, FirstInv, PublishedInv, Landed, Modules
    <3>2. OthersInv'
      BY <1>0, <1>2, <2>1, <2>2, <2>3 DEF StartKernel, OthersInv, Waits
    <3>3. CountInv'
      BY <1>0, <1>2, <2>1, <2>2, <2>3, CountKept DEF StartKernel
    <3> QED
      BY <3>1, <3>2, <3>3
  <2> QED
    BY <1>2, <2>1, <2>2, <2>3, RunStep DEF StartKernel
<1>3. CASE Wait(c)
  <2>1. pc[c] = "wait" /\ Goto(c, "test") /\ module_inited # 0
    BY <1>3 DEF Wait
  <2>2. ASSUME Hyp PROVE Goal
    <3>1. c # 0 /\ module_inited = 1
      BY <1>0, <2>1, <2>2 DEF FirstInv, TypeOK
    <3>2. FirstInv' /\ PublishedInv'
      BY <1>0, <1>3, <2>1, <2>2, <3>1, HartsFacts DEF Wait, FirstInv, PublishedInv, Landed
    <3>3. OthersInv'
      BY <1>0, <1>3, <2>1, <2>2, <3>1, BootAssumption DEF Wait, OthersInv, Waits, Modules
    <3>4. CountInv'
      BY <1>0, <1>3, <2>1, <2>2, CountKept DEF Wait
    <3> QED
      BY <3>2, <3>3, <3>4
  <2> QED
    BY <1>3, <2>1, <2>2, RunStep DEF Wait
<1>4. CASE TestDone(c) \/ SmpTest(c) \/ Body(c) \/ SetDone(c)
  <2>1. /\ pc[c] \in {"test", "smp", "body", "set"}
        /\ hart' = hart /\ cpu_boot' = cpu_boot
        /\ module_inited' = module_inited /\ bootdone_cpus' = bootdone_cpus
    BY <1>4 DEF TestDone, SmpTest, Body, SetDone
  <2>2. PICK label \in {"test", "smp", "body", "set", "inited", "halted"} : Goto(c, label)
    BY <1>4 DEF TestDone, SmpTest, Body, SetDone, Advance
  <2>3. ASSUME Hyp PROVE Goal
    <3>0. /\ mod[c] \in Modules /\ mod[c] \in Nat /\ MODULES \in Nat
          /\ pc'[c] = label
          /\ \A d \in Harts : d # c => pc'[d] = pc[d]
      BY <1>0, <2>1, <2>2, <2>3, BootAssumption DEF FirstInv, OthersInv, Modules
    <3>1. CASE c = 0
      <4>1. /\ module_inited = 0 /\ pc[0] # "smp" /\ done[mod[0]] = 0
            /\ \A m \in Modules :
                 /\ done[m] = IF m < mod[0] THEN 1 ELSE 0
                 /\ inits[m] = IF m < mod[0] \/ (m = mod[0] /\ pc[0] \in {"body", "set"}) THEN 1 ELSE 0
        BY <1>0, <2>1, <2>3, <3>0, <3>1 DEF FirstInv, PublishedInv, Landed, TypeOK
      <4>2. ASSUME TestDone(c) PROVE FirstInv'
        <5>1. /\ pc[0] = "test" /\ pc'[0] = "body" /\ mod' = mod /\ done' = done
              /\ inits' = [inits EXCEPT ![mod[0]] = @ + 1]
          BY <1>0, <3>1, <4>1, <4>2, HartsFacts DEF TestDone
        <5>2. \A m \in Modules : inits'[m] = IF m < mod[0] \/ m = mod[0] THEN 1 ELSE 0
          BY <1>0, <3>0, <3>1, <4>1, <5>1 DEF TypeOK, Modules
        <5> QED
          BY <3>0, <3>1, <4>1, <5>1, <5>2 DEF FirstInv, Landed
      <4>3. ASSUME Body(c) PROVE FirstInv'
        <5>1. /\ pc[0] = "body" /\ pc'[0] \in {"set", "halted"}
              /\ mod' = mod /\ done' = done /\ inits' = inits
          BY <1>0, <3>1, <4>3, HartsFacts DEF Body
        <5> QED
          BY <3>0, <3>1, <4>1, <5>1 DEF FirstInv, Landed
      <4>4. ASSUME SetDone(c) PROVE FirstInv'
        <5>1. /\ pc[0] = "set" /\ inits' = inits
              /\ done' = [done EXCEPT ![mod[0]] = @ + 1]
          BY <3>1, <4>4 DEF SetDone
        <5>2. \A m \in Modules : done'[m] = IF m < mod[0] \/ m = mod[0] THEN 1 ELSE 0
          BY <1>0, <3>0, <3>1, <4>1, <5>1 DEF TypeOK, Modules
        <5>3. CASE pc'[0] = "halted"
          BY <4>1, <5>1, <5>3 DEF FirstInv, Landed
        <5>4. CASE Advance(c)
          <6>1. /\ mod'[0] = mod[0] + 1
                /\ pc'[0] = IF mod[0] = MODULES THEN "inited" ELSE "test"
            BY <1>0, <3>1, <5>4, HartsFacts DEF Advance, TypeOK
          <6>2. \A m \in Modules : m < mod'[0] <=> (m < mod[0] \/ m = mod[0])
            BY <3>0, <3>1, <6>1 DEF Modules
          <6>3. pc'[0] = "test" => mod'[0] \in Modules
            BY <3>0, <3>1, <6>1 DEF Modules
          <6> QED
            BY <4>1, <5>1, <5>2, <6>1, <6>2, <6>3 DEF FirstInv, Landed
        <5>5. pc'[0] = "halted" \/ Advance(c)
          BY <1>0, <3>1, <4>4, HartsFacts DEF SetDone
        <5> QED
          BY <5>3, <5>4, <5>5
      <4>5. FirstInv'
        BY <1>4, <3>1, <4>1, <4>2, <4>3, <4>4 DEF SmpTest
      <4>6. PublishedInv'
        BY <2>1, <4>1 DEF PublishedInv
      <4>7. \A d \in Harts \ {0} : mod'[d] = mod[d]
        BY <1>0, <1>4, <3>1 DEF TestDone, SmpTest, Body, SetDone, Advance, TypeOK
      <4>8. OthersInv'
        BY <2>1, <2>3, <3>0, <3>1, <4>7 DEF OthersInv
      <4>9. CountInv'
        BY <1>0, <2>1, <2>2, <2>3, <4>1, CountKept
      <4> QED
        BY <4>5, <4>6, <4>8, <4>9
    <3>2. CASE c # 0
      <4>1. /\ module_inited = 1 /\ pc[c] \in {"test", "smp"} /\ done[mod[c]] = 1
        BY <2>1, <2>3, <3>0, <3>2 DEF OthersInv, PublishedInv, Waits
      <4>2. done' = done /\ inits' = inits
        BY <1>4, <4>1 DEF TestDone, SmpTest, Body, SetDone
      <4>3. /\ \A d \in Harts \ {c} : mod'[d] = mod[d]
            /\ \/ pc'[c] = "smp" /\ mod'[c] = mod[c]
               \/ pc'[c] = "inited"
               \/ pc'[c] = "test" /\ mod'[c] = mod[c] + 1 /\ mod[c] # MODULES
        BY <1>0, <1>4, <4>1, <2>1 DEF TestDone, SmpTest, Body, SetDone, Advance, TypeOK
      <4>4. pc'[c] \in {"smp", "test"} => mod'[c] \in Modules
        BY <3>0, <4>3 DEF Modules
      <4>5. FirstInv' /\ PublishedInv'
        BY <2>1, <2>3, <3>0, <3>2, <4>2, <4>3, HartsFacts DEF FirstInv, PublishedInv
      <4>6. OthersInv'
        BY <2>1, <2>3, <3>0, <3>2, <4>1, <4>3, <4>4 DEF OthersInv, Waits
      <4>7. CountInv'
        BY <1>0, <2>1, <2>2, <2>3, <3>0, <4>3, CountKept
      <4> QED
        BY <4>5, <4>6, <4>7
    <3> QED
      BY <3>1, <3>2
  <2> QED
    BY <2>1, <2>2, <2>3, RunStep
<1>5. CASE Inited(c)
  <2>1. pc[c] = "inited" /\ Goto(c, "arrive")
    BY <1>5 DEF Inited
  <2>2. ASSUME Hyp PROVE Goal
    <3>1. CASE c = 0
      <4>1. module_inited = 0 /\ module_inited' = 1
        BY <1>0, <1>5, <2>1, <2>2, <3>1 DEF Inited, IsBoot, PublishedInv, Landed, TypeOK
      <4>2. \A m \in Modules : done[m] = 1 /\ inits[m] <= 1
        BY <2>1, <2>2, <3>1, BootAssumption DEF FirstInv, Landed, Modules
      <4>3. FirstInv' /\ PublishedInv'
        BY <1>0, <1>5, <2>1, <2>2, <3>1, <4>1, <4>2, HartsFacts DEF Inited, FirstInv, PublishedInv, Landed
      <4>4. OthersInv'
        BY <1>0, <1>5, <2>1, <2>2, <3>1, <4>1 DEF Inited, OthersInv, Waits
      <4>5. Arrived' = Arrived
        <5>1. \A d \in Harts : /\ pc[d] # "halted" /\ pc'[d] # "halted"
                               /\ pc'[d] = IF d = 0 THEN "arrive" ELSE pc[d]
          BY <1>0, <2>1, <2>2, <3>1 DEF OthersInv
        <5> QED
          BY <2>1, <3>1, <5>1 DEF Arrived
      <4>6. pc'[0] # "slfcheck" /\ bootdone_cpus' = bootdone_cpus
        BY <1>0, <1>5, <2>1, <3>1, HartsFacts DEF Inited
      <4>7. CountInv'
        BY <2>2, <4>5, <4>6 DEF CountInv
      <4> QED
        BY <4>3, <4>4, <4>7
    <3>2. CASE c # 0
      <4>1. module_inited' = module_inited
        BY <1>5, <2>2, <3>2 DEF Inited, IsBoot
      <4>2. FirstInv' /\ PublishedInv' /\ OthersInv'
        BY <1>0, <1>5, <2>1, <2>2, <3>2, <4>1, HartsFacts DEF Inited, FirstInv, PublishedInv, OthersInv, Waits, Landed
      <4>3. CountInv'
        BY <1>0, <1>5, <2>1, <2>2, <4>1, CountKept DEF Inited
      <4> QED
        BY <4>2, <4>3
    <3> QED
      BY <3>1, <3>2
  <2> QED
    BY <1>5, <2>1, <2>2, RunStep DEF Inited
<1>6. CASE Arrive(c)
  <2>1. pc[c] = "arrive" /\ module_inited' = module_inited /\ bootdone_cpus' = bootdone_cpus + 1
    BY <1>6 DEF Arrive
  <2>2. PICK label \in {"barrier", "parked"} : Goto(c, label) /\ (label = "barrier" <=> c = cpu_boot)
    BY <1>6 DEF Arrive, IsBoot
  <2>3. ASSUME Hyp PROVE Goal
    <3>1. FirstInv' /\ PublishedInv' /\ OthersInv'
      BY <1>0, <1>6, <2>1, <2>2, <2>3, HartsFacts DEF Arrive, FirstInv, PublishedInv, OthersInv, Waits, Landed
    <3>2. c \in Harts \ Arrived /\ Arrived \in SUBSET Harts /\ Arrived' = Arrived \cup {c}
      BY <1>0, <2>1, <2>2 DEF Arrived
    <3>3. bootdone_cpus' = Cardinality(Arrived')
      BY <2>1, <2>3, <3>2, Counting DEF CountInv
    <3>4. pc'[0] # "slfcheck"
      <4>1. CASE c = 0
        BY <1>0, <2>2, <4>1, HartsFacts
      <4>2. CASE c # 0
        <5>1. Arrived # Harts
          BY <3>2
        <5>2. bootdone_cpus # CPUS
          BY <2>3, <3>2, <5>1, Counting DEF CountInv
        <5> QED
          BY <1>0, <2>2, <2>3, <4>2, <5>2, HartsFacts DEF CountInv
      <4> QED
        BY <4>1, <4>2
    <3>5. CountInv'
      BY <3>3, <3>4 DEF CountInv
    <3> QED
      BY <3>1, <3>5
  <2> QED
    BY <1>6, <2>1, <2>2, <2>3, RunStep DEF Arrive
<1>7. CASE Barrier(c)
  <2>1. /\ pc[c] = "barrier" /\ Goto(c, "slfcheck") /\ bootdone_cpus = CPUS
        /\ module_inited' = module_inited /\ bootdone_cpus' = bootdone_cpus
    BY <1>7 DEF Barrier
  <2>2. ASSUME Hyp PROVE Goal
    <3>1. FirstInv' /\ PublishedInv' /\ OthersInv'
      BY <1>0, <1>7, <2>1, <2>2, HartsFacts DEF Barrier, FirstInv, PublishedInv, OthersInv, Waits, Landed
    <3>2. Arrived' = Arrived
      BY <1>0, <2>1 DEF Arrived
    <3> QED
      BY <2>1, <2>2, <3>1, <3>2 DEF CountInv
  <2> QED
    BY <1>7, <2>1, <2>2, RunStep DEF Barrier
<1>8. CASE Slfcheck(c)
  <2>1. /\ pc[c] = "slfcheck"
        /\ module_inited' = module_inited /\ bootdone_cpus' = bootdone_cpus
    BY <1>8 DEF Slfcheck
  <2>2. PICK label \in {"parked", "halted"} : Goto(c, label)
    BY <1>8 DEF Slfcheck
  <2>3. ASSUME Hyp PROVE Goal
    <3>1. c = 0 /\ module_inited = 1
      BY <2>1, <2>3 DEF OthersInv, FirstInv, Landed
    <3>2. FirstInv' /\ PublishedInv' /\ OthersInv'
      BY <1>0, <1>8, <2>1, <2>2, <2>3, <3>1, HartsFacts DEF Slfcheck, FirstInv, PublishedInv, OthersInv, Waits, Landed
    <3>3. Arrived' = Arrived
      BY <1>0, <2>1, <2>2, <3>1 DEF Arrived
    <3>4. pc'[0] # "slfcheck"
      BY <1>0, <2>2, <3>1, HartsFacts
    <3> QED
      BY <2>1, <2>3, <3>2, <3>3, <3>4 DEF CountInv
  <2> QED
    BY <1>8, <2>1, <2>2, <2>3, RunStep DEF Slfcheck
<1> QED
  BY <1>1, <1>2, <1>3, <1>4, <1>5, <1>6, <1>7, <1>8,
     StoreCpuBootStep, ClearBssStep, BootHartsStep DEF HartStep

-----------------------------------------------------------------------------
(* The inductive invariant holds in every state of the boot.               *)
THEOREM Invariant == Spec => []IInv
<1>1. IInv /\ [Next]_vars => IInv'
  <2> SUFFICES ASSUME IInv, [Next]_vars PROVE IInv'
    OBVIOUS
  <2>1. CASE UNCHANGED vars
    BY <2>1 DEF vars, IInv, TypeOK, LoaderInv, HeadInv, ClearedInv, Cleared, FirstInv,
       PublishedInv, OthersInv, CountInv, Arrived
  <2>2. CASE Next
    BY <2>2, HartStepIInv DEF Next
  <2> QED
    BY <2>1, <2>2
<1> QED
  BY <1>1, InitIInv, PTL DEF Spec

(* Type correctness; in particular a done flag, module_inited and          *)
(* bootdone_cpus are never incremented beyond 1, 1 and the number of harts.*)
THEOREM TypeCorrect == Spec => []TypeOK
<1>1. IInv => TypeOK
  BY DEF IInv
<1> QED
  BY <1>1, Invariant, PTL

(* No init function's body runs twice, on any number of harts, although    *)
(* the done flag is tested and set by two separate operations.             *)
THEOREM InitialisedOnce == Spec => []InitOnce
<1>1. IInv => InitOnce
  <2> SUFFICES ASSUME IInv, NEW m \in Modules PROVE inits[m] <= 1
    BY DEF InitOnce
  <2>1. CASE Cleared
    BY <2>1 DEF IInv, ClearedInv, FirstInv
  <2>2. CASE ~Cleared
    BY <2>2 DEF IInv, HeadInv, Cleared
  <2> QED
    BY <2>1, <2>2
<1> QED
  BY <1>1, Invariant, PTL

(* A module is initialised with all earlier ones complete, and the tests   *)
(* on several harts run with every module complete.                        *)
THEOREM InitialisedInOrder == Spec => []InitInOrder
<1>1. IInv => InitInOrder
  <2> SUFFICES ASSUME IInv, NEW c \in Harts, pc[c] \in {"body", "set", "smp"}
               PROVE  /\ pc[c] \in {"body", "set"} => \A m \in 1 .. mod[c] - 1 : done[m] = 1
                      /\ pc[c] = "smp" => \A m \in Modules : done[m] = 1
    BY DEF InitInOrder
  <2>1. FirstInv /\ PublishedInv /\ OthersInv
    BY RunsCleared DEF IInv, ClearedInv
  <2>2. CASE pc[c] = "smp"
    BY <2>1, <2>2 DEF FirstInv, PublishedInv, OthersInv, Waits
  <2>3. CASE pc[c] \in {"body", "set"}
    <3>1. c = 0 /\ mod[0] \in Modules
      BY <2>1, <2>3 DEF OthersInv, FirstInv
    <3>2. \A m \in 1 .. mod[0] - 1 : m \in Modules /\ m < mod[0]
      BY <3>1, BootAssumption DEF Modules
    <3> QED
      BY <2>1, <2>3, <3>1, <3>2 DEF FirstInv, Landed
  <2> QED
    BY <2>2, <2>3
<1> QED
  BY <1>1, Invariant, PTL

(* pages_slfcheck runs when every other hart has left start_kernel.        *)
THEOREM SlfcheckRunsAlone == Spec => []SlfcheckAlone
<1>1. IInv => SlfcheckAlone
  <2> SUFFICES ASSUME IInv, NEW c \in Harts, pc[c] = "slfcheck", NEW d \in Harts \ {c}
               PROVE  pc[d] = "parked"
    BY DEF SlfcheckAlone
  <2>1. OthersInv /\ CountInv
    BY RunsCleared DEF IInv, ClearedInv
  <2>2. c = 0
    BY <2>1 DEF OthersInv
  <2>3. Cardinality(Arrived) = CPUS /\ Arrived \in SUBSET Harts
    BY <2>1, <2>2 DEF CountInv, Arrived
  <2>4. d \in Arrived
    BY <2>3, Counting
  <2> QED
    BY <2>1, <2>2, <2>4 DEF OthersInv, Arrived
<1> QED
  BY <1>1, Invariant, PTL
=============================================================================
