----------------------------- MODULE SyncProofs -----------------------------
(* The primitives of sync.rs, for every number of CPUs, threads and permits:    *)
(* exclusion, freedom from self-deadlock and the interrupt flag of the spin     *)
(* locks; exclusion of writers, which nothing that the racy reader count does   *)
(* can reach; the permits of the semaphore.                                     *)
EXTENDS SpinLock, RwLock, Semaphore, FiniteSetTheorems, TLAPS

LEMMA SpinInit == Init => SpinInv
  BY DEF Init, SpinInv, TypeOK, MutualExclusion, InterruptsOff,
     HandlerBeforeCli, Contexts, Threads, Handlers

LEMMA SpinStep == SpinInv /\ [Next]_vars => SpinInv'
<1> SUFFICES ASSUME SpinInv, [Next]_vars PROVE SpinInv'
  OBVIOUS
<1> USE DEF SpinInv, Contexts, Threads, Handlers, Goto, Preempted
<1>1. ASSUME NEW c \in Contexts, Enter(c) PROVE SpinInv'
  BY <1>1 DEF Enter, TypeOK, MutualExclusion, InterruptsOff, HandlerBeforeCli
<1>2. ASSUME NEW c \in Contexts, Cli(c) PROVE SpinInv'
  BY <1>2 DEF Cli, TypeOK, MutualExclusion, InterruptsOff, HandlerBeforeCli
<1>3. ASSUME NEW c \in Contexts, Swap(c) PROVE SpinInv'
  BY <1>3 DEF Swap, TypeOK, MutualExclusion, InterruptsOff, HandlerBeforeCli
<1>4. ASSUME NEW c \in Contexts, Spin(c) PROVE SpinInv'
  BY <1>4 DEF Spin, TypeOK, MutualExclusion, InterruptsOff, HandlerBeforeCli
<1>5. ASSUME NEW c \in Contexts, Release(c) PROVE SpinInv'
  <2>1. TypeOK'
    BY <1>5 DEF Release, TypeOK
  <2>2. MutualExclusion'
    BY <1>5 DEF Release, TypeOK, MutualExclusion
  <2>3. HandlerBeforeCli'
    BY <1>5 DEF Release, TypeOK, HandlerBeforeCli, InterruptsOff
  <2>4. InterruptsOff'
    BY <1>5 DEF Release, TypeOK, InterruptsOff, HandlerBeforeCli
  <2> QED BY <2>1, <2>2, <2>3, <2>4
<1>6. ASSUME NEW c \in Contexts, Restore(c) PROVE SpinInv'
  <2>1. TypeOK'
    BY <1>6 DEF Restore, TypeOK
  <2>2. MutualExclusion'
    BY <1>6 DEF Restore, TypeOK, MutualExclusion
  <2>3. HandlerBeforeCli'
    BY <1>6 DEF Restore, TypeOK, HandlerBeforeCli
  <2>4. InterruptsOff'
    <3>1. CASE c \in Handlers
      <4>1. ~saved[c] /\ flag' = flag
        <5>1. PICK x \in Cpus : c = <<x, "irq">>
          BY <3>1
        <5>2. pc[c] = "drop"
          BY <1>6 DEF Restore
        <5>3. ~saved[c]
          BY <5>1, <5>2 DEF HandlerBeforeCli
        <5>4. flag' = [flag EXCEPT ![x] = flag[x] \/ saved[c]]
          BY <1>6, <5>1 DEF Restore
        <5>5. flag[x] \in BOOLEAN /\ (flag[x] \/ saved[c]) = flag[x]
          BY <5>3 DEF TypeOK
        <5> QED BY <5>1, <5>3, <5>4, <5>5 DEF TypeOK
      <4> QED BY <1>6, <3>1, <4>1 DEF Restore, TypeOK, InterruptsOff
    <3>2. CASE c \in Threads
      <4>1. pc[<<c[1], "irq">>] = "out" /\ pc' = [pc EXCEPT ![c] = "out"]
        BY <1>6, <3>2 DEF Restore
      <4>2. \A x \in Cpus : x # c[1] => flag'[x] = flag[x]
        BY <1>6 DEF Restore, TypeOK
      <4>3. \A d \in Contexts : d[1] = c[1] => pc'[d] = "out"
        BY <3>2, <4>1 DEF TypeOK
      <4>4. irqSave' = irqSave
        BY <1>6 DEF Restore
      <4> QED BY <3>2, <4>1, <4>2, <4>3, <4>4 DEF TypeOK, InterruptsOff
    <3> QED BY <3>1, <3>2
  <2> QED BY <2>1, <2>2, <2>3, <2>4
<1>7. ASSUME NEW c \in Contexts, TryLock(c) PROVE SpinInv'
  <2>1. TypeOK'
    BY <1>7 DEF TryLock, TypeOK
  <2>2. MutualExclusion'
    BY <1>7 DEF TryLock, TypeOK, MutualExclusion
  <2>3. HandlerBeforeCli'
    BY <1>7 DEF TryLock, TypeOK, HandlerBeforeCli
  <2>4. InterruptsOff'
    BY <1>7 DEF TryLock, TypeOK, InterruptsOff, HandlerBeforeCli
  <2> QED BY <2>1, <2>2, <2>3, <2>4
<1>8. ASSUME NEW cpu \in Cpus, Interrupt(cpu) PROVE SpinInv'
  <2>1. TypeOK'
    BY <1>8 DEF Interrupt, TypeOK
  <2>2. MutualExclusion'
    BY <1>8 DEF Interrupt, TypeOK, MutualExclusion
  <2>3. HandlerBeforeCli'
    BY <1>8 DEF Interrupt, TypeOK, HandlerBeforeCli, InterruptsOff
  <2>4. InterruptsOff'
    BY <1>8 DEF Interrupt, TypeOK, InterruptsOff, HandlerBeforeCli
  <2> QED BY <2>1, <2>2, <2>3, <2>4
<1>9. ASSUME NEW cpu \in Cpus, Iret(cpu) PROVE SpinInv'
  <2>1. TypeOK'
    BY <1>9 DEF Iret, TypeOK
  <2>2. MutualExclusion'
    BY <1>9 DEF Iret, TypeOK, MutualExclusion
  <2>3. HandlerBeforeCli'
    BY <1>9 DEF Iret, TypeOK, HandlerBeforeCli
  <2>4. InterruptsOff'
    BY <1>9 DEF Iret, TypeOK, InterruptsOff, HandlerBeforeCli
  <2> QED BY <2>1, <2>2, <2>3, <2>4
<1>10. CASE UNCHANGED vars
  BY <1>10 DEF vars, TypeOK, MutualExclusion, InterruptsOff, HandlerBeforeCli
<1> QED BY <1>1, <1>2, <1>3, <1>4, <1>5, <1>6, <1>7, <1>8, <1>9, <1>10 DEF Next, Step

(* The inductive invariant of SpinLock and IrqSaveSpinlock: the lock word is set
   while a guard exists, and interrupts are off from cli to the guard's end. *)
THEOREM SpinInvariant == Spec => []SpinInv
<1> QED BY SpinInit, SpinStep, PTL DEF Spec

(* At most one guard of a SpinLock or IrqSaveSpinlock exists at a time, for
   any number of CPUs, try_lock and interrupt handlers included. *)
THEOREM SpinMutualExclusion == Spec => []MutualExclusion
<1>1. SpinInv => MutualExclusion
  BY DEF SpinInv
<1> QED BY <1>1, SpinInvariant, PTL

(* An interrupt handler never spins on a lock its own CPU's thread holds, for
   any number of CPUs: cli comes before the swap in IrqSaveSpinlock::lock. *)
THEOREM SpinNoSelfDeadlock == Spec => []NoSelfDeadlock
<1>1. SpinInv => NoSelfDeadlock
  BY DEF SpinInv, HandlerBeforeCli, NoSelfDeadlock
<1> QED BY <1>1, SpinInvariant, PTL

(* While an IrqSaveSpinlock is held the interrupt flag of its CPU is off, for any
   number of CPUs: no guard's drop enables interrupts under another guard. *)
THEOREM SpinInterruptsOff == Spec => []InterruptsOff
<1>1. SpinInv => InterruptsOff
  BY DEF SpinInv
<1> QED BY <1>1, SpinInvariant, PTL

(* Dropping the guard of an IrqSaveSpinlock leaves the interrupt flag as lock()
   found it, for any number of CPUs and handlers that come in between: until the
   drop the flag is off, so the drop sets it exactly if it was set before. *)
THEOREM SpinFlagRestored == Spec => FlagRestored
<1> DEFINE Restored == \A c \in Threads :
                pc[c] # "out" /\ pc'[c] = "out" /\ irqSave => flag'[c[1]] = saved[c]
<1>1. SpinInv /\ [Next]_vars => [Restored]_vars
  <2> SUFFICES ASSUME SpinInv, Next, NEW c \in Threads,
                      pc[c] # "out", pc'[c] = "out", irqSave
               PROVE  flag'[c[1]] = saved[c]
    BY DEF Restored
  <2> USE DEF Goto
  <2>1. c \in Contexts /\ pc \in [Contexts -> {"out", "save", "swap", "spin", "cs", "drop", "iret"}]
    BY DEF SpinInv, TypeOK, Contexts
  <2>2. ASSUME NEW d \in Contexts, Enter(d) \/ TryLock(d) \/ Cli(d) \/ Swap(d) \/ Spin(d) \/ Release(d)
        PROVE  FALSE
    <3>1. pc'[d] # "out" /\ pc' = [pc EXCEPT ![d] = pc'[d]]
      BY <2>1, <2>2 DEF Enter, TryLock, Cli, Swap, Spin, Release
    <3> QED BY <2>1, <3>1
  <2>3. ASSUME NEW d \in Contexts, Restore(d) PROVE flag'[c[1]] = saved[c]
    <3>1. d = c /\ pc[c] = "drop"
      BY <2>1, <2>3 DEF Restore
    <3>2. c[1] \in Cpus /\ flag \in [Cpus -> BOOLEAN] /\ saved[c] \in BOOLEAN
      BY <2>1 DEF SpinInv, TypeOK, Threads
    <3>3. ~flag[c[1]]
      BY <2>1, <3>1 DEF SpinInv, InterruptsOff
    <3>4. flag' = [flag EXCEPT ![c[1]] = flag[c[1]] \/ saved[c]]
      BY <2>3, <3>1 DEF Restore
    <3> QED BY <3>2, <3>3, <3>4
  <2>4. ASSUME NEW cpu \in Cpus, Interrupt(cpu) \/ Iret(cpu) PROVE FALSE
    <3>1. <<cpu, "irq">> \in Contexts /\ c # <<cpu, "irq">>
      BY DEF Contexts, Threads, Handlers
    <3>2. pc'[c] = pc[c]
      BY <2>1, <2>4, <3>1 DEF Interrupt, Iret
    <3> QED BY <3>2
  <2> QED BY <2>2, <2>3, <2>4 DEF Next, Step
<1> QED BY <1>1, SpinInvariant, PTL DEF Spec, FlagRestored
-----------------------------------------------------------------------------
(* RwLock *)

RwPoints == {"out", "rwait", "rload", "radd", "rcheck", "reading", "bload", "bsub", "dsub",
           "wswap", "wspin", "wdrain", "writing"}

Writers == {"wdrain", "writing"}

(* The inductive invariant: OneWriter and the types it needs. *)
RwInv == rwPc \in [RwThreads -> RwPoints] /\ rwLock \in BOOLEAN /\ OneWriter

(* A step of one thread between two points outside the writer's section. *)
LEMMA OutsideMove ==
    ASSUME NEW t \in RwThreads, NEW from \in RwPoints \ Writers, NEW to \in RwPoints \ Writers,
           RwInv, RwGoto(t, from, to), rwLock' = rwLock
    PROVE  RwInv'
<1>1. rwPc' \in [RwThreads -> RwPoints] /\ rwLock' \in BOOLEAN
  BY DEF RwInv, RwGoto
<1>2. \A u \in RwThreads : rwPc'[u] \in Writers <=> rwPc[u] \in Writers
  BY DEF RwInv, RwGoto
<1>3. OneWriter'
  BY <1>2 DEF RwInv, OneWriter, Writers
<1> QED BY <1>1, <1>3 DEF RwInv

LEMMA RwInitially == RwInit => RwInv
  BY DEF RwInit, RwInv, OneWriter, RwPoints

LEMMA RwStep == RwInv /\ [RwNext]_rwVars => RwInv'
<1> SUFFICES ASSUME RwInv, [RwNext]_rwVars PROVE RwInv'
  OBVIOUS
<1>1. CASE UNCHANGED rwVars
  BY <1>1 DEF rwVars, RwInv, OneWriter
<1>2. ASSUME NEW t \in RwThreads, ReadLock(t) PROVE RwInv'
  <2>1. \E from, to \in RwPoints \ Writers : RwGoto(t, from, to) /\ rwLock' = rwLock
    <3>1. CASE ReadEnter(t)
      BY <3>1 DEF ReadEnter, RwPoints, Writers
    <3>2. CASE ReadWait(t)
      BY <3>2 DEF ReadWait, RwPoints, Writers
    <3>3. CASE LoadCount(t, "rload", "radd")
      BY <3>3 DEF LoadCount, RwPoints, Writers
    <3>4. CASE StoreCount(t, "radd", "rcheck", 1)
      BY <3>4 DEF StoreCount, RwPoints, Writers
    <3>5. CASE ReadCheck(t)
      BY <3>5 DEF ReadCheck, RwPoints, Writers
    <3>6. CASE LoadCount(t, "bload", "bsub")
      BY <3>6 DEF LoadCount, RwPoints, Writers
    <3>7. CASE StoreCount(t, "bsub", "rwait", -1)
      BY <3>7 DEF StoreCount, RwPoints, Writers
    <3> QED BY <1>2, <3>1, <3>2, <3>3, <3>4, <3>5, <3>6, <3>7 DEF ReadLock
  <2> QED BY <2>1, OutsideMove
<1>3. ASSUME NEW t \in RwThreads, ReadUnlock(t) PROVE RwInv'
  <2>1. \E from, to \in RwPoints \ Writers : RwGoto(t, from, to) /\ rwLock' = rwLock
    <3>1. CASE LoadCount(t, "reading", "dsub")
      BY <3>1 DEF LoadCount, RwPoints, Writers
    <3>2. CASE StoreCount(t, "dsub", "out", -1)
      BY <3>2 DEF StoreCount, RwPoints, Writers
    <3> QED BY <1>3, <3>1, <3>2 DEF ReadUnlock
  <2> QED BY <2>1, OutsideMove
<1>4. ASSUME NEW t \in RwThreads, WriteLock(t) PROVE RwInv'
  <2>1. CASE RwGoto(t, "out", "wswap") /\ rwLock' = rwLock
    BY <2>1, OutsideMove DEF RwPoints, Writers
  <2>2. CASE WriteSwap(t)
    <3>1. CASE rwLock
      <4>1. RwGoto(t, "wswap", "wspin") /\ rwLock' = rwLock
        BY <2>2, <3>1 DEF WriteSwap, RwInv
      <4> QED BY <4>1, OutsideMove DEF RwPoints, Writers
    <3>2. CASE ~rwLock
      <4>1. rwPc' = [rwPc EXCEPT ![t] = "wdrain"] /\ rwLock' = TRUE
        BY <2>2, <3>2 DEF WriteSwap, RwGoto
      <4>2. \A u \in RwThreads : rwPc[u] \notin {"wdrain", "writing"}
        BY <3>2 DEF RwInv, OneWriter
      <4>3. OneWriter'
        BY <4>1, <4>2 DEF RwInv, OneWriter
      <4> QED BY <4>1, <4>3 DEF RwInv, RwPoints
    <3> QED BY <3>1, <3>2
  <2>3. CASE RwGoto(t, "wspin", "wswap") /\ rwLock' = rwLock
    BY <2>3, OutsideMove DEF RwPoints, Writers
  <2>4. CASE RwGoto(t, "wdrain", "writing") /\ rwLock' = rwLock
    <3>1. \A u \in RwThreads : rwPc'[u] \in Writers <=> rwPc[u] \in Writers
      BY <2>4 DEF RwInv, RwGoto, Writers
    <3>2. OneWriter'
      BY <2>4, <3>1 DEF RwInv, OneWriter, Writers
    <3> QED BY <2>4, <3>2 DEF RwInv, RwGoto, RwPoints
  <2> QED BY <1>4, <2>1, <2>2, <2>3, <2>4 DEF WriteLock
<1>5. ASSUME NEW t \in RwThreads, WriteUnlock(t) PROVE RwInv'
  <2>1. rwPc[t] = "writing" /\ rwPc' = [rwPc EXCEPT ![t] = "out"] /\ rwLock' = FALSE
    BY <1>5 DEF WriteUnlock, RwGoto
  <2>2. \A u \in RwThreads : rwPc'[u] \notin {"wdrain", "writing"}
    BY <2>1 DEF RwInv, OneWriter
  <2> QED BY <2>1, <2>2 DEF RwInv, OneWriter, RwPoints
<1>6. ASSUME NEW t \in RwThreads, Drain(t) PROVE RwInv'
  BY <1>6 DEF Drain, RwInv, OneWriter
<1> QED BY <1>1, <1>2, <1>3, <1>4, <1>5, <1>6 DEF RwNext

(* At most one thread is between the swap of the flag and the drop of its
   WriteGuard, and the flag is set exactly then, whatever the readers' racy count
   does, for any number of threads. *)
THEOREM RwOneWriter == RwSpec => []OneWriter
<1>1. RwInv => OneWriter
  BY DEF RwInv
<1> QED BY <1>1, RwInitially, RwStep, PTL DEF RwSpec
-----------------------------------------------------------------------------
(* Semaphore *)

SemPoints == {"out", "load", "cas", "try", "held"}

Held == {t \in SemThreads : semPc[t] = "held"}

(* A thread goes for an exchange only with the count it loaded above zero. *)
SemInv ==
    /\ semPc \in [SemThreads -> SemPoints]
    /\ semReg \in [SemThreads -> Int]
    /\ \A t \in SemThreads : semPc[t] \in {"cas", "try"} => semReg[t] > 0
    /\ PermitsConserved

(* A thread that gets a permit, gives one back, or does neither. *)
LEMMA HeldGrows ==
    ASSUME NEW t \in SemThreads, IsFiniteSet(SemThreads), semPc \in [SemThreads -> SemPoints],
           semPc[t] # "held", semPc' = [semPc EXCEPT ![t] = "held"]
    PROVE  Cardinality(Held') = Cardinality(Held) + 1
<1>1. Held' = Held \cup {t} /\ t \notin Held
  BY DEF Held
<1>2. IsFiniteSet(Held)
  BY FS_Subset DEF Held
<1> QED BY <1>1, <1>2, FS_AddElement

LEMMA HeldShrinks ==
    ASSUME NEW t \in SemThreads, IsFiniteSet(SemThreads), semPc \in [SemThreads -> SemPoints],
           semPc[t] = "held", semPc' = [semPc EXCEPT ![t] = "out"]
    PROVE  Cardinality(Held') = Cardinality(Held) - 1
<1>1. Held' = Held \ {t} /\ t \in Held
  BY DEF Held
<1>2. IsFiniteSet(Held)
  BY FS_Subset DEF Held
<1> QED BY <1>1, <1>2, FS_RemoveElement

LEMMA HeldSame ==
    ASSUME NEW t \in SemThreads, semPc \in [SemThreads -> SemPoints], NEW p \in SemPoints \ {"held"},
           semPc[t] # "held", semPc' = [semPc EXCEPT ![t] = p]
    PROVE  Held' = Held
  BY DEF Held

LEMMA SemInitially ==
    ASSUME Permits \in Nat
    PROVE  SemInit => SemInv
<1> SUFFICES ASSUME SemInit PROVE SemInv
  OBVIOUS
<1>1. Held = {}
  BY DEF SemInit, Held
<1>2. Cardinality({t \in SemThreads : semPc[t] = "held"}) = 0
  BY <1>1, FS_EmptySet DEF Held
<1> QED BY <1>2 DEF SemInit, SemInv, PermitsConserved, SemPoints

LEMMA SemStep ==
    ASSUME IsFiniteSet(SemThreads), Permits \in Nat
    PROVE  SemInv /\ [SemNext]_semVars => SemInv'
<1> SUFFICES ASSUME SemInv, [SemNext]_semVars PROVE SemInv'
  OBVIOUS
<1>0. /\ count \in Nat /\ Cardinality(Held) \in Nat
      /\ count + Cardinality(Held) = Permits
  <2>1. IsFiniteSet(Held)
    BY FS_Subset DEF Held
  <2> QED BY <2>1, FS_CardinalityType DEF SemInv, PermitsConserved, Held
<1>a. ASSUME count' \in Nat, count' + Cardinality(Held') = Permits PROVE PermitsConserved'
  BY <1>a DEF PermitsConserved, Held
<1>1. CASE UNCHANGED semVars
  BY <1>1 DEF semVars, SemInv, PermitsConserved
<1>2. ASSUME NEW t \in SemThreads, WaitEnter(t) PROVE SemInv'
  <2>1. semPc[t] = "out" /\ semPc' = [semPc EXCEPT ![t] = "load"] /\ count' = count /\ semReg' = semReg
    BY <1>2 DEF WaitEnter, SemGoto
  <2>2. Held' = Held
    BY <2>1, HeldSame DEF SemInv, SemPoints
  <2> QED BY <1>0, <1>a, <2>1, <2>2 DEF SemInv, SemPoints
<1>3. ASSUME NEW t \in SemThreads, WaitLoad(t) PROVE SemInv'
  <2>1. /\ semPc[t] = "load" /\ count' = count /\ semReg' = [semReg EXCEPT ![t] = count]
        /\ semPc' = [semPc EXCEPT ![t] = IF count > 0 THEN "cas" ELSE "load"]
    BY <1>3 DEF WaitLoad, SemGoto
  <2>2. Held' = Held
    BY <2>1, HeldSame DEF SemInv, SemPoints
  <2> QED BY <1>0, <1>a, <2>1, <2>2 DEF SemInv, SemPoints
<1>4. ASSUME NEW t \in SemThreads, TryLoad(t) PROVE SemInv'
  <2>1. /\ semPc[t] = "out" /\ count > 0 /\ count' = count /\ semReg' = [semReg EXCEPT ![t] = count]
        /\ semPc' = [semPc EXCEPT ![t] = "try"]
    BY <1>4 DEF TryLoad, SemGoto
  <2>2. Held' = Held
    BY <2>1, HeldSame DEF SemInv, SemPoints
  <2> QED BY <1>0, <1>a, <2>1, <2>2 DEF SemInv, SemPoints
<1>5. ASSUME NEW t \in SemThreads, NEW from \in {"cas", "try"}, NEW failed \in {"load", "out"},
             Exchange(t, from, failed)
      PROVE  SemInv'
  <2>1. CASE count = semReg[t]
    <3>1. /\ semPc[t] = from /\ semPc' = [semPc EXCEPT ![t] = "held"] /\ semReg' = semReg
          /\ count' = semReg[t] - 1
      BY <1>5, <2>1 DEF Exchange, SemGoto
    <3>2. Cardinality(Held') = Cardinality(Held) + 1
      BY <3>1, HeldGrows DEF SemInv
    <3>3. count' \in Nat /\ count' + Cardinality(Held') = Permits
      BY <1>0, <2>1, <3>1, <3>2 DEF SemInv
    <3> QED BY <1>a, <3>1, <3>3 DEF SemInv, SemPoints
  <2>2. CASE count # semReg[t]
    <3>1. /\ semPc[t] = from /\ semPc' = [semPc EXCEPT ![t] = failed] /\ semReg' = semReg
          /\ count' = count
      BY <1>5, <2>2 DEF Exchange, SemGoto
    <3>2. Held' = Held
      BY <3>1, HeldSame DEF SemInv, SemPoints
    <3> QED BY <1>0, <1>a, <3>1, <3>2 DEF SemInv, SemPoints
  <2> QED BY <2>1, <2>2
<1>6. ASSUME NEW t \in SemThreads, WaitExchange(t) PROVE SemInv'
  <2>1. CASE Exchange(t, "cas", "load")
    BY <1>5, <2>1
  <2>2. CASE SemGoto(t, "cas", "load") /\ UNCHANGED <<count, semReg>>
    <3>1. /\ semPc[t] = "cas" /\ semPc' = [semPc EXCEPT ![t] = "load"] /\ semReg' = semReg
          /\ count' = count
      BY <2>2 DEF SemGoto
    <3>2. Held' = Held
      BY <3>1, HeldSame DEF SemInv, SemPoints
    <3> QED BY <1>0, <1>a, <3>1, <3>2 DEF SemInv, SemPoints
  <2> QED BY <1>6, <2>1, <2>2 DEF WaitExchange
<1>7. ASSUME NEW t \in SemThreads, TryExchange(t) PROVE SemInv'
  BY <1>5, <1>7 DEF TryExchange
<1>8. ASSUME NEW t \in SemThreads, Post(t) PROVE SemInv'
  <2>1. semPc[t] = "held" /\ semPc' = [semPc EXCEPT ![t] = "out"] /\ count' = count + 1 /\ semReg' = semReg
    BY <1>8 DEF Post, SemGoto
  <2>2. Cardinality(Held') = Cardinality(Held) - 1
    BY <2>1, HeldShrinks DEF SemInv
  <2> QED BY <1>0, <1>a, <2>1, <2>2 DEF SemInv, SemPoints
<1> QED BY <1>1, <1>2, <1>3, <1>4, <1>6, <1>7, <1>8 DEF SemNext

(* No permit is lost or granted twice, for any number of threads and permits:
   the compare_exchange of wait and try_wait only takes one off the count it
   replaces. *)
THEOREM SemPermitsConserved ==
    ASSUME IsFiniteSet(SemThreads), Permits \in Nat
    PROVE  SemSpec => []PermitsConserved
<1>1. SemInv => PermitsConserved
  BY DEF SemInv
<1>2. SemInit => SemInv
  BY SemInitially
<1>3. SemInv /\ [SemNext]_semVars => SemInv'
  BY SemStep
<1> QED BY <1>1, <1>2, <1>3, PTL DEF SemSpec
=============================================================================
