------------------------------ MODULE SpinLock ------------------------------
(***************************************************************************)
(* SpinLock and IrqSaveSpinlock of sync.rs.                                *)
(*                                                                         *)
(* Every CPU has a thread and an interrupt handler.  The handler preempts  *)
(* the thread of its CPU whenever that CPU's interrupt flag is set, and    *)
(* runs to its end before the thread goes on.  An IrqSaveSpinlock          *)
(* (irqSave = TRUE) is taken by both, a SpinLock (irqSave = FALSE) by      *)
(* threads only.  The interrupt gate clears the flag, iretq restores it.   *)
(* Which of the two it is, is chosen once.                                 *)
(*                                                                         *)
(* A context c is <<cpu, "thread">> or <<cpu, "irq">>; pc[c] is            *)
(*   "out"   not using the lock (for a handler: not running)               *)
(*   "save"  IrqSave: RFLAGS saved, cli not executed yet                   *)
(*   "swap"  about to execute lock.swap(true)                              *)
(*   "spin"  in the inner loop of loads                                    *)
(*   "cs"    holding the guard                                             *)
(*   "drop"  lock.store(false) done, flag not restored yet                 *)
(*   "iret"  handler only: body done                                       *)
(***************************************************************************)
EXTENDS Integers, FiniteSets

CONSTANT Cpus

Threads == Cpus \X {"thread"}
Handlers == Cpus \X {"irq"}
Contexts == Threads \cup Handlers

VARIABLES
    irqSave,   \* the lock is an IrqSaveSpinlock
    lock,   \* the AtomicBool
    pc,
    flag,   \* IF of each CPU
    saved   \* irq_state & 0x200 of the guard of each context

vars == <<irqSave, lock, pc, flag, saved>>

(* The handler of the CPU of c has preempted c. *)
Preempted(c) == c[2] = "thread" /\ pc[<<c[1], "irq">>] # "out"

Init ==
    /\ irqSave \in BOOLEAN
    /\ lock = FALSE
    /\ pc = [c \in Contexts |-> "out"]
    /\ flag \in [Cpus -> BOOLEAN]
    /\ saved = [c \in Contexts |-> FALSE]

Goto(c, from, to) ==
    /\ pc[c] = from /\ ~Preempted(c)
    /\ pc' = [pc EXCEPT ![c] = to]
    /\ UNCHANGED irqSave

(* lock(): the plain lock starts with the swap; IrqSaveSpinlock first saves
   RFLAGS and then clears the flag, two instructions. *)
Enter(c) ==
    /\ c \in Threads
    /\ Goto(c, "out", IF irqSave THEN "save" ELSE "swap")
    /\ saved' = [saved EXCEPT ![c] = flag[c[1]]]
    /\ UNCHANGED <<lock, flag>>

(* Mutant: interrupts are left enabled. *)
NoCli(c) == Goto(c, "save", "swap") /\ UNCHANGED <<lock, flag, saved>>

Cli(c) ==
    /\ Goto(c, "save", "swap")
    /\ flag' = [flag EXCEPT ![c[1]] = FALSE]
    /\ UNCHANGED <<lock, saved>>

(* An interrupt: only with the flag set; the gate clears it. *)
Interrupt(cpu) ==
    /\ irqSave /\ flag[cpu] /\ pc[<<cpu, "irq">>] = "out"
    /\ pc' = [pc EXCEPT ![<<cpu, "irq">>] = "save"]
    /\ flag' = [flag EXCEPT ![cpu] = FALSE]
    /\ saved' = [saved EXCEPT ![<<cpu, "irq">>] = FALSE]
    /\ UNCHANGED <<irqSave, lock>>

(* while lock.swap(true): true sends the caller to the inner loop. *)
Swap(c) ==
    /\ Goto(c, "swap", IF lock THEN "spin" ELSE "cs")
    /\ lock' = TRUE
    /\ UNCHANGED <<flag, saved>>

(* while lock.load(): back to the swap once it reads false. *)
Spin(c) ==
    /\ ~lock
    /\ Goto(c, "spin", "swap")
    /\ UNCHANGED <<lock, flag, saved>>

(* Mutant: a failed try_lock releases the lock it did not get. *)
TryLockReleases(c) ==
    /\ ~irqSave /\ c \in Threads
    /\ Goto(c, "out", IF lock THEN "out" ELSE "cs")
    /\ lock' = ~lock
    /\ UNCHANGED <<flag, saved>>

(* try_lock, of the plain lock: one swap, no waiting. *)
TryLock(c) ==
    /\ ~irqSave /\ c \in Threads
    /\ Goto(c, "out", IF lock THEN "out" ELSE "cs")
    /\ lock' = TRUE
    /\ UNCHANGED <<flag, saved>>

(* Mutant: the guard is dropped without the store. *)
ReleaseForgets(c) ==
    /\ Goto(c, "cs", IF irqSave THEN "drop" ELSE "out")
    /\ UNCHANGED <<lock, flag, saved>>

(* Dropping the guard: the store, then the flag if it was set before. *)
Release(c) ==
    /\ Goto(c, "cs", IF irqSave THEN "drop" ELSE "out")
    /\ lock' = FALSE
    /\ UNCHANGED <<flag, saved>>

(* Mutant: sti without looking at the saved RFLAGS. *)
AlwaysSti(c) ==
    /\ Goto(c, "drop", IF c \in Handlers THEN "iret" ELSE "out")
    /\ flag' = [flag EXCEPT ![c[1]] = TRUE]
    /\ UNCHANGED <<lock, saved>>

Restore(c) ==
    /\ Goto(c, "drop", IF c \in Handlers THEN "iret" ELSE "out")
    /\ flag' = [flag EXCEPT ![c[1]] = @ \/ saved[c]]
    /\ UNCHANGED <<lock, saved>>

Iret(cpu) ==
    /\ Goto(<<cpu, "irq">>, "iret", "out")
    /\ flag' = [flag EXCEPT ![cpu] = TRUE]
    /\ UNCHANGED <<lock, saved>>

Step(c) == Cli(c) \/ Swap(c) \/ Spin(c) \/ Release(c) \/ Restore(c)

Next ==
    \/ \E c \in Contexts : Enter(c) \/ TryLock(c) \/ Step(c)
    \/ \E cpu \in Cpus : Interrupt(cpu) \/ Iret(cpu)

Spec == Init /\ [][Next]_vars

(* Code that has entered lock() keeps executing, and a guard is dropped; no
   assumption that a thread asks for the lock or that interrupts come. *)
Fairness ==
    /\ \A c \in Contexts : WF_vars(Step(c))
    /\ \A cpu \in Cpus : WF_vars(Iret(cpu))

FairSpec == Spec /\ Fairness
-----------------------------------------------------------------------------
(* Every variable has its type. *)
TypeOK ==
    /\ irqSave \in BOOLEAN /\ lock \in BOOLEAN
    /\ pc \in [Contexts -> {"out", "save", "swap", "spin", "cs", "drop", "iret"}]
    /\ \A c \in Threads : pc[c] # "iret"
    /\ flag \in [Cpus -> BOOLEAN]
    /\ saved \in [Contexts -> BOOLEAN]

(* At most one guard exists, and while it exists the lock is set: a failed
   try_lock or an overtaken swap never opens the lock. *)
MutualExclusion ==
    /\ \A c, d \in Contexts : pc[c] = "cs" /\ pc[d] = "cs" => c = d
    /\ lock <=> \E c \in Contexts : pc[c] = "cs"

(* The reason for IrqSaveSpinlock: a handler never waits for a lock held by
   the thread it interrupted, which could not release it any more. *)
NoSelfDeadlock ==
    \A cpu \in Cpus :
        ~ /\ pc[<<cpu, "irq">>] \in {"swap", "spin"}
          /\ pc[<<cpu, "thread">>] = "cs"

(* Interrupts stay off from cli to the end of the guard, also when the caller
   had them off already: nested guards must not enable them. *)
InterruptsOff ==
    \A c \in Contexts :
        /\ irqSave /\ pc[c] \in {"swap", "spin", "cs", "drop"} => ~flag[c[1]]
        /\ pc[c] # "out" /\ c \in Handlers => ~flag[c[1]]

(* What InterruptsOff rests on: a handler runs only over a thread that has
   not executed its cli yet, and a plain lock is never taken by a handler. *)
HandlerBeforeCli ==
    \A cpu \in Cpus :
        pc[<<cpu, "irq">>] # "out" =>
            /\ irqSave /\ ~saved[<<cpu, "irq">>]
            /\ pc[<<cpu, "thread">>] \in {"out", "save"}

SpinInv == TypeOK /\ MutualExclusion /\ InterruptsOff /\ HandlerBeforeCli

(* lock() followed by the drop leaves the interrupt flag as it was. *)
FlagRestored ==
    [][\A c \in Threads :
         pc[c] # "out" /\ pc'[c] = "out" /\ irqSave => flag'[c[1]] = saved[c]]_vars

(* Somebody who wants the lock gets it: the lock as a whole makes progress
   (a single waiter may starve, the lock is not a queue). *)
Progress ==
    (\E c \in Contexts : pc[c] \in {"swap", "spin"}) ~> (\E c \in Contexts : pc[c] = "cs")
=============================================================================
