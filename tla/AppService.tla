------------------------------ MODULE AppService ------------------------------
(* The application services (service/app.rs): a table of slots, a host thread *)
(* per application, and the hand-over of the slot to its thread through the   *)
(* global BOOT_SLOT.  Threads run until they yield, so each call below is one *)
(* step, except cooperative_point, which yields in its middle.                *)
EXTENDS Naturals, FiniteSets

CONSTANTS
    MaxApps,     \* MAX_APPS
    MaxStarts,   \* bound: attempts to start an application
    Names,       \* names applications are started and stopped under
    Quantum      \* cpu_quantum of the quota

VARIABLES
    slots,       \* name, state, tid and slice_used of each slot
    count,       \* slots in use
    starts,      \* attempts so far; also numbers the threads
    bootSlot,    \* BOOT_SLOT
    thread,      \* state of each host thread: none, ready, run or yield
    runs         \* the slot whose entry a host thread entered, 0 for none

appVars == <<slots, count, starts, bootSlot, thread, runs>>

Slots == 1 .. MaxApps
Tids == 1 .. MaxStarts
NoName == "none"
Empty == [name |-> NoName, state |-> "Stopped", tid |-> 0, slice |-> 0]

AppInit ==
    /\ slots = [i \in Slots |-> Empty]
    /\ count = 0 /\ starts = 0
    /\ bootSlot = 0
    /\ thread = [t \in Tids |-> "none"]
    /\ runs = [t \in Tids |-> 0]

(* Take the next slot; its tid keeps the value of an earlier use. *)
Claim(n) == [slots EXCEPT ![count + 1].name = n, ![count + 1].state = "Starting",
                          ![count + 1].slice = 0]

(* spawn_app_thread succeeds: the slot is announced in BOOT_SLOT and its host
   thread is put on the run queue. *)
Started(n) ==
    /\ slots' = [Claim(n) EXCEPT ![count + 1].tid = starts + 1, ![count + 1].state = "Running"]
    /\ thread' = [thread EXCEPT ![starts + 1] = "ready"]
    /\ count' = count + 1

(* ... or fails, after BOOT_SLOT has been stored. *)
StartBuiltin(n) ==
    /\ starts < MaxStarts /\ count < MaxApps
    /\ starts' = starts + 1
    /\ bootSlot' = count + 1
    /\ \/ Started(n)
       \/ slots' = Claim(n) /\ count' = count + 1 /\ UNCHANGED thread
    /\ UNCHANGED runs

(* start_uxi_path gives the slot back when the thread cannot be created. *)
StartUxi(n) ==
    /\ starts < MaxStarts /\ count < MaxApps
    /\ starts' = starts + 1
    /\ bootSlot' = count + 1
    /\ \/ Started(n)
       \/ slots' = Claim(n) /\ UNCHANGED <<count, thread>>
    /\ UNCHANGED runs

(* Mutant: slots counted from zero are looked up from one. *)
HostOffByOne(t) ==
    /\ thread[t] = "ready"
    /\ thread' = [thread EXCEPT ![t] = "run"]
    /\ runs' = [runs EXCEPT ![t] = IF bootSlot + 1 \in 1 .. count THEN bootSlot + 1 ELSE 0]
    /\ UNCHANGED <<slots, count, starts, bootSlot>>

(* app_service_host, run for the first time, enters the slot BOOT_SLOT names. *)
Host(t) ==
    /\ thread[t] = "ready"
    /\ thread' = [thread EXCEPT ![t] = "run"]
    /\ runs' = [runs EXCEPT ![t] = IF bootSlot \in 1 .. count THEN bootSlot ELSE 0]
    /\ UNCHANGED <<slots, count, starts, bootSlot>>

SlotOf(t) == {i \in 1 .. count : slots[i].tid = t}
First(S) == CHOOSE i \in S : \A j \in S : i <= j

(* cooperative_point up to the yield: one more slice; at the quantum the thread
   is penalised and yields, to reset its count when it is back. *)
Cooperate(t) ==
    /\ thread[t] = "run"
    /\ IF SlotOf(t) = {} THEN UNCHANGED <<slots, thread>>
       ELSE LET i == First(SlotOf(t))
            IN  /\ slots' = [slots EXCEPT ![i].slice = @ + 1]
                /\ thread' = IF slots[i].slice + 1 >= Quantum
                             THEN [thread EXCEPT ![t] = "yield"] ELSE thread
    /\ UNCHANGED <<count, starts, bootSlot, runs>>

(* Mutant: the count is not reset after the yield. *)
ResumeKeepsCount(t) ==
    /\ thread[t] = "yield"
    /\ thread' = [thread EXCEPT ![t] = "run"]
    /\ UNCHANGED <<slots, count, starts, bootSlot, runs>>

Resume(t) ==
    /\ thread[t] = "yield"
    /\ thread' = [thread EXCEPT ![t] = "run"]
    /\ slots' = [slots EXCEPT ![First(SlotOf(t))].slice = 0]
    /\ UNCHANGED <<count, starts, bootSlot, runs>>

(* supervise penalises and resets running slots above their quantum. *)
Supervise ==
    /\ slots' = [i \in Slots |->
            IF i <= count /\ slots[i].state = "Running" /\ slots[i].slice > Quantum
            THEN [slots[i] EXCEPT !.slice = 0] ELSE slots[i]]
    /\ UNCHANGED <<count, starts, bootSlot, thread, runs>>

(* Mutant: stop takes the slot off the table. *)
StopRemoves(n) ==
    /\ \E i \in 1 .. count : slots[i].name = n
    /\ slots' = [slots EXCEPT ![First({i \in 1 .. count : slots[i].name = n})].state = "Stopped"]
    /\ count' = count - 1
    /\ UNCHANGED <<starts, bootSlot, thread, runs>>

(* stop_by_name marks the first slot of that name; its thread goes on. *)
StopByName(n) ==
    /\ \E i \in 1 .. count : slots[i].name = n
    /\ slots' = [slots EXCEPT ![First({i \in 1 .. count : slots[i].name = n})].state = "Stopped"]
    /\ UNCHANGED <<count, starts, bootSlot, thread, runs>>

AppNext ==
    \/ \E n \in Names : StartBuiltin(n) \/ StartUxi(n) \/ StopByName(n)
    \/ \E t \in Tids : Host(t) \/ Cooperate(t) \/ Resume(t)
    \/ Supervise

AppSpec == AppInit /\ [][AppNext]_appVars

-----------------------------------------------------------------------------
(* A thread never uses more than its quantum between two resets, and is away
   from the processor when it has used it: cooperative_point alone keeps the
   quota, and supervise, which waits for more, never has to act. *)
QuotaKept ==
    \A i \in 1 .. count :
        /\ slots[i].slice <= Quantum
        /\ slots[i].tid # 0 /\ slots[i].slice = Quantum => thread[slots[i].tid] = "yield"

(* Every host thread is accounted to exactly one slot of the table, however
   starts fail in between, so that its slices are counted and it can be
   stopped; a slot shown as running has such a thread. *)
ThreadsListed ==
    /\ \A t \in Tids : thread[t] # "none" => Cardinality(SlotOf(t)) = 1
    /\ \A i \in 1 .. count : slots[i].state = "Running" => thread[slots[i].tid] # "none"

(* The hand-over through BOOT_SLOT works for the thread started last: if nobody
   has started another application since, a host thread enters the slot it was
   created for.  (After a second start both threads enter the second slot.) *)
HandOver ==
    [][\A t \in Tids : thread[t] = "ready" /\ thread'[t] = "run" /\ starts = t
            => runs'[t] \in SlotOf(t)]_appVars
=============================================================================
