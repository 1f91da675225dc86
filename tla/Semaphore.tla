----------------------------- MODULE Semaphore -----------------------------
(***************************************************************************)
(* The counting semaphore of sync.rs: wait and try_wait load the count and *)
(* then compare-and-exchange it, post adds one.  A thread posts the permit *)
(* it got.                                                                 *)
(***************************************************************************)
EXTENDS Integers, FiniteSets

CONSTANTS SemThreads, Permits

VARIABLES
    count,    \* Semaphore.count
    semReg,   \* the value loaded
    semPc     \* "out", "load" and "cas" of wait, "try" of try_wait, "held"

semVars == <<count, semReg, semPc>>

SemInit ==
    /\ count = Permits
    /\ semReg = [t \in SemThreads |-> 0]
    /\ semPc = [t \in SemThreads |-> "out"]

SemGoto(t, from, to) == semPc[t] = from /\ semPc' = [semPc EXCEPT ![t] = to]

WaitEnter(t) == SemGoto(t, "out", "load") /\ UNCHANGED <<count, semReg>>

(* The load of wait, and of try_wait, which gives up on a zero. *)
WaitLoad(t) ==
    /\ SemGoto(t, "load", IF count > 0 THEN "cas" ELSE "load")
    /\ semReg' = [semReg EXCEPT ![t] = count]
    /\ UNCHANGED count

TryLoad(t) ==
    /\ count > 0
    /\ SemGoto(t, "out", "try")
    /\ semReg' = [semReg EXCEPT ![t] = count]
    /\ UNCHANGED count

(* Mutant: the count is stored without comparing it to the loaded value. *)
BlindExchange(t, from, failed) ==
    /\ count' = semReg[t] - 1
    /\ SemGoto(t, from, "held")
    /\ UNCHANGED semReg

(* compare_exchange: it succeeds only if the count is still the one loaded. *)
Exchange(t, from, failed) ==
    /\ IF count = semReg[t]
       THEN count' = semReg[t] - 1 /\ SemGoto(t, from, "held")
       ELSE UNCHANGED count /\ SemGoto(t, from, failed)
    /\ UNCHANGED semReg

(* wait uses the weak form, which may fail without a reason. *)
WaitExchange(t) ==
    \/ Exchange(t, "cas", "load")
    \/ SemGoto(t, "cas", "load") /\ UNCHANGED <<count, semReg>>

TryExchange(t) == Exchange(t, "try", "out")

Post(t) ==
    /\ SemGoto(t, "held", "out")
    /\ count' = count + 1
    /\ UNCHANGED semReg

SemNext == \E t \in SemThreads :
            \/ WaitEnter(t) \/ WaitLoad(t) \/ WaitExchange(t)
            \/ TryLoad(t) \/ TryExchange(t) \/ Post(t)

SemSpec == SemInit /\ [][SemNext]_semVars
-----------------------------------------------------------------------------
(* No permit is lost or granted twice by threads that load the same count:
   permits in the count and permits held always add up, so at most Permits
   threads hold one. *)
PermitsConserved ==
    count \in Nat /\ count + Cardinality({t \in SemThreads : semPc[t] = "held"}) = Permits
=============================================================================
