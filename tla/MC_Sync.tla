------------------------------ MODULE MC_Sync ------------------------------
(* The primitives of sync.rs share no state, so nothing is lost by checking   *)
(* them one at a time: which of them the threads use is chosen initially.     *)
EXTENDS SpinLock, RwLock, Semaphore

VARIABLE used    \* the primitive in use

SyncVars == <<vars, rwVars, semVars, used>>

SyncInit ==
    /\ Init /\ RwInit /\ SemInit
    /\ used \in {"SpinLock", "RwLock", "Semaphore"}
    /\ used # "SpinLock" => irqSave /\ \A c \in Cpus : flag[c]

SyncNext ==
    \/ used = "SpinLock" /\ Next /\ UNCHANGED <<rwVars, semVars, used>>
    \/ used = "RwLock" /\ RwNext /\ UNCHANGED <<vars, semVars, used>>
    \/ used = "Semaphore" /\ SemNext /\ UNCHANGED <<vars, rwVars, used>>

(* Fairness is that of SpinLock; it asks nothing while another one is in use,
   since then no context is inside the lock. *)
SyncSpec == SyncInit /\ [][SyncNext]_SyncVars /\ Fairness
=============================================================================
