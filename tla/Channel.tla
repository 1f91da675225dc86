------------------------------- MODULE Channel -------------------------------
(* The ring of ipc.rs, alone (Channel) or behind a spinlock (Endpoint).     *)
(* send and recv read and write the two counters and the slot in separate   *)
(* steps; the counters are words of Word values that wrap, and a slot is    *)
(* chosen by counter % Capacity.                                            *)
EXTENDS Naturals, Sequences

CONSTANTS
    Capacity,     \* CHANNEL_CAPACITY
    Word,         \* 2^64
    Producers, Consumers,
    Uses,         \* who may use the ring: some of the threads, with or without a lock
    Messages, NoMessage

(* The wrap of the counters keeps the slots in step only if the word is a
   multiple of the capacity (2^64 and 64), and telling a full ring from an
   empty one takes a larger word. *)
ASSUME ChannelAssumption ==
    /\ Capacity \in Nat \ {0}
    /\ Word \in Nat /\ Word % Capacity = 0 /\ Word > Capacity
    /\ Uses \subseteq [locked : BOOLEAN, threads : SUBSET (Producers \cup Consumers)]
    /\ NoMessage \notin Messages
    /\ Producers \cap Consumers = {}

VARIABLES
    use,      \* Endpoint (every call holds its spinlock) or bare Channel, chosen once
    buffer,   \* the slots
    head,     \* next slot to read
    tail,     \* next slot to write
    pc,       \* where each thread is inside send or recv
    mine,     \* the thread's own counter, as it loaded it
    msg,      \* the message the thread carries
    sent,     \* the result of the last completed send
    got       \* the result of the last completed recv

vars == <<use, buffer, head, tail, pc, mine, msg, sent, got>>

Threads == Producers \cup Consumers

Init ==
    /\ use \in Uses
    /\ buffer = [i \in 0 .. Capacity - 1 |-> NoMessage]
    /\ head = 0 /\ tail = 0
    /\ pc = [t \in Threads |-> "out"]
    /\ mine = [t \in Threads |-> 0]
    /\ msg = [t \in Threads |-> NoMessage]
    /\ sent = "none" /\ got = NoMessage

Goto(t, from, to) ==
    /\ pc[t] = from
    /\ pc' = [pc EXCEPT ![t] = to]
    /\ UNCHANGED use

(* a.wrapping_sub(b) *)
WrappingSub(a, b) == (a + Word - b) % Word

(* Mutant: room is computed without wrapping. *)
SaturatingRoom(a, b) == IF a >= b THEN a - b ELSE 0

(* tail.wrapping_sub(head), what the fullness test compares. *)
Used(a, b) == WrappingSub(a, b)

(* Mutant: the endpoint calls the channel without its lock. *)
NoAcquire(t) == pc[t] = "out"

(* Endpoint: the spinlock is free, that is (SpinLock) no thread is inside. *)
Acquire(t) == use.locked => \A u \in Threads : pc[u] = "out"

(* send: load the tail *)
SendBegin(t, m) ==
    /\ Acquire(t)
    /\ Goto(t, "out", "head")
    /\ mine' = [mine EXCEPT ![t] = tail]
    /\ msg' = [msg EXCEPT ![t] = m]
    /\ UNCHANGED <<buffer, head, tail, sent, got>>

(* load the head and return Err on a full ring *)
SendCheck(t) ==
    /\ IF Used(mine[t], head) >= Capacity
       THEN /\ Goto(t, "head", "out")
            /\ sent' = "err"
            /\ msg' = [msg EXCEPT ![t] = NoMessage]
            /\ mine' = [mine EXCEPT ![t] = 0]
       ELSE /\ Goto(t, "head", "write")
            /\ UNCHANGED <<sent, msg, mine>>
    /\ UNCHANGED <<buffer, head, tail, got>>

SendWrite(t) ==
    /\ Goto(t, "write", "store")
    /\ buffer' = [buffer EXCEPT ![mine[t] % Capacity] = msg[t]]
    /\ UNCHANGED <<head, tail, mine, msg, sent, got>>

(* store tail + 1 and return Ok *)
SendStore(t) ==
    /\ Goto(t, "store", "out")
    /\ tail' = (mine[t] + 1) % Word
    /\ sent' = "ok"
    /\ mine' = [mine EXCEPT ![t] = 0]
    /\ msg' = [msg EXCEPT ![t] = NoMessage]
    /\ UNCHANGED <<buffer, head, got>>

(* recv: load the head *)
RecvBegin(t) ==
    /\ Acquire(t)
    /\ Goto(t, "out", "tail")
    /\ mine' = [mine EXCEPT ![t] = head]
    /\ UNCHANGED <<buffer, head, tail, msg, sent, got>>

(* load the tail and return None on an empty ring *)
RecvCheck(t) ==
    /\ IF mine[t] = tail
       THEN /\ Goto(t, "tail", "out")
            /\ got' = NoMessage
            /\ mine' = [mine EXCEPT ![t] = 0]
       ELSE /\ Goto(t, "tail", "read")
            /\ UNCHANGED <<got, mine>>
    /\ UNCHANGED <<buffer, head, tail, msg, sent>>

RecvRead(t) ==
    /\ Goto(t, "read", "take")
    /\ msg' = [msg EXCEPT ![t] = buffer[mine[t] % Capacity]]
    /\ UNCHANGED <<buffer, head, tail, mine, sent, got>>

(* store head + 1 and return the message *)
RecvStore(t) ==
    /\ Goto(t, "take", "out")
    /\ head' = (mine[t] + 1) % Word
    /\ got' = msg[t]
    /\ mine' = [mine EXCEPT ![t] = 0]
    /\ msg' = [msg EXCEPT ![t] = NoMessage]
    /\ UNCHANGED <<buffer, tail, sent>>

Next ==
    \/ \E t \in Producers \cap use.threads :
        \/ \E m \in Messages : SendBegin(t, m)
        \/ SendCheck(t) \/ SendWrite(t) \/ SendStore(t)
    \/ \E t \in Consumers \cap use.threads :
        RecvBegin(t) \/ RecvCheck(t) \/ RecvRead(t) \/ RecvStore(t)

Spec == Init /\ [][Next]_vars

-----------------------------------------------------------------------------
(* The contents of the ring, oldest first. *)
Contents ==
    [i \in 1 .. WrappingSub(tail, head) |-> buffer[(head + i - 1) % Capacity]]

Abstract == INSTANCE Fifo WITH queue <- Contents

(* ipc.rs:82, ipc.rs:88: the channel is a thread-safe first-in first-out queue.
   Every send and recv takes effect in one step, the store of its counter, or
   the load that finds the ring full or empty; no message is lost, repeated,
   reordered or torn, also when the counters wrap. *)
IsFifo == Abstract!Spec
=============================================================================
