------------------------------- MODULE RwLock -------------------------------
(***************************************************************************)
(* The reader-writer lock of sync.rs.                                      *)
(*                                                                         *)
(* The write flag is an AtomicBool; the reader count is a plain u32 in an  *)
(* UnsafeCell, updated with += and -=: a load, an addition and a store that*)
(* waits in the store buffer of its CPU until it drains.  The data race is *)
(* thus modelled by the orders an x86-64 build can show.                   *)
(*                                                                         *)
(* rwPc[t]: "out"; reader "rwait" -> "rload" -> "radd" -> "rcheck" ->      *)
(* "reading", or back through "bload" -> "bsub"; "dload" -> "dsub" drop the*)
(* ReadGuard; writer "wswap", "wspin" -> "wdrain" -> "writing".            *)
(***************************************************************************)
EXTENDS Integers

CONSTANTS
    RwThreads,
    CounterMod,   \* 2^32: the count wraps
    NoStore       \* an empty store buffer

VARIABLES
    rwLock,    \* RwLock.lock
    readers,   \* RwLock.readers, in memory
    buffer,    \* a store to readers that has not reached memory, per thread
    rwReg,     \* the loaded count, per thread; 0 once it is dead
    rwPc

rwVars == <<rwLock, readers, buffer, rwReg, rwPc>>

RwInit ==
    /\ rwLock = FALSE /\ readers = 0
    /\ buffer = [t \in RwThreads |-> NoStore]
    /\ rwReg = [t \in RwThreads |-> 0]
    /\ rwPc = [t \in RwThreads |-> "out"]

RwGoto(t, from, to) == rwPc[t] = from /\ rwPc' = [rwPc EXCEPT ![t] = to]

(* *readers.get(), and the two halves of += and -=. *)
Load(t) == IF buffer[t] = NoStore THEN readers ELSE buffer[t]

LoadCount(t, from, to) ==
    /\ RwGoto(t, from, to)
    /\ rwReg' = [rwReg EXCEPT ![t] = Load(t)]
    /\ UNCHANGED <<rwLock, readers, buffer>>

StoreCount(t, from, to, delta) ==
    /\ buffer[t] = NoStore
    /\ RwGoto(t, from, to)
    /\ buffer' = [buffer EXCEPT ![t] = (rwReg[t] + delta) % CounterMod]
    /\ rwReg' = [rwReg EXCEPT ![t] = 0]
    /\ UNCHANGED <<rwLock, readers>>

Drain(t) ==
    /\ buffer[t] # NoStore
    /\ readers' = buffer[t]
    /\ buffer' = [buffer EXCEPT ![t] = NoStore]
    /\ UNCHANGED <<rwLock, rwReg, rwPc>>

(* read() *)
ReadEnter(t) == RwGoto(t, "out", "rwait") /\ UNCHANGED <<rwLock, readers, buffer, rwReg>>
ReadWait(t) == ~rwLock /\ RwGoto(t, "rwait", "rload") /\ UNCHANGED <<rwLock, readers, buffer, rwReg>>
ReadCheck(t) ==
    /\ RwGoto(t, "rcheck", IF rwLock THEN "bload" ELSE "reading")
    /\ UNCHANGED <<rwLock, readers, buffer, rwReg>>

ReadLock(t) ==
    \/ ReadEnter(t) \/ ReadWait(t)
    \/ LoadCount(t, "rload", "radd") \/ StoreCount(t, "radd", "rcheck", 1)
    \/ ReadCheck(t)
    \/ LoadCount(t, "bload", "bsub") \/ StoreCount(t, "bsub", "rwait", -1)

(* Dropping the ReadGuard. *)
ReadUnlock(t) ==
    \/ LoadCount(t, "reading", "dsub")
    \/ StoreCount(t, "dsub", "out", -1)

(* Mutant: the flag is tested and then set, not swapped. *)
WriteBlindSwap(t) ==
    /\ buffer[t] = NoStore
    /\ RwGoto(t, "wswap", "wdrain")
    /\ rwLock' = TRUE
    /\ UNCHANGED <<readers, buffer, rwReg>>

(* write(): the swap is a locked instruction and drains the store buffer. *)
WriteSwap(t) ==
    /\ buffer[t] = NoStore
    /\ RwGoto(t, "wswap", IF rwLock THEN "wspin" ELSE "wdrain")
    /\ rwLock' = TRUE
    /\ UNCHANGED <<readers, buffer, rwReg>>

WriteLock(t) ==
    \/ RwGoto(t, "out", "wswap") /\ UNCHANGED <<rwLock, readers, buffer, rwReg>>
    \/ WriteSwap(t)
    \/ ~rwLock /\ RwGoto(t, "wspin", "wswap") /\ UNCHANGED <<rwLock, readers, buffer, rwReg>>
    \/ Load(t) = 0 /\ RwGoto(t, "wdrain", "writing") /\ UNCHANGED <<rwLock, readers, buffer, rwReg>>

WriteUnlock(t) ==
    /\ RwGoto(t, "writing", "out")
    /\ rwLock' = FALSE
    /\ UNCHANGED <<readers, buffer, rwReg>>

RwNext == \E t \in RwThreads :
            ReadLock(t) \/ ReadUnlock(t) \/ WriteLock(t) \/ WriteUnlock(t) \/ Drain(t)

RwSpec == RwInit /\ [][RwNext]_rwVars
-----------------------------------------------------------------------------
(* Writers exclude each other from the moment the flag is swapped until the
   WriteGuard is dropped, whatever the reader count says. *)
OneWriter ==
    /\ \A t, u \in RwThreads :
         rwPc[t] \in {"wdrain", "writing"} /\ rwPc[u] \in {"wdrain", "writing"} => t = u
    /\ rwLock <=> \E t \in RwThreads : rwPc[t] \in {"wdrain", "writing"}

(* sync.rs:245: a writer excludes all readers. *)
WriterExcludesReaders ==
    \A t, u \in RwThreads : ~(rwPc[t] = "writing" /\ rwPc[u] = "reading")
=============================================================================
