---------------------------- MODULE ChannelProofs ----------------------------
(* A channel used as ipc.rs means it implements the bounded queue of Fifo, for  *)
(* every capacity, width of the counters and set of messages.                   *)
EXTENDS Channel, SequenceTheorems, TLAPS

(* Who may use a channel: any threads through the lock of Endpoint, or one sender
   and one receiver on the bare ring. *)
SafeUse(u) ==
    u.locked \/ \A t, v \in u.threads :
                    {t, v} \subseteq Producers \/ {t, v} \subseteq Consumers => t = v

Slots == 0 .. Capacity - 1
Counters == 0 .. Word - 1
Length == WrappingSub(tail, head)

ChannelTypes ==
    /\ use \in Uses
    /\ buffer \in [Slots -> Messages \cup {NoMessage}]
    /\ head \in Counters /\ tail \in Counters
    /\ pc \in [Threads -> {"out", "head", "write", "store", "tail", "read", "take"}]
    /\ mine \in [Threads -> Counters]
    /\ msg \in [Threads -> Messages \cup {NoMessage}]

(* At most one thread is inside send and one inside recv, and only one of both
   behind a lock. *)
Alone ==
    /\ \A t \in Threads \ use.threads : pc[t] = "out"
    /\ \A t, v \in Threads : pc[t] # "out" /\ pc[v] # "out" /\ use.locked => t = v

(* The counter a thread has loaded is still the counter, and what it has seen of
   the other one still holds: a sender's room is only made larger by a receiver,
   a receiver's message stays. *)
Sending(t) ==
    /\ pc[t] \in {"out", "head", "write", "store"}
    /\ pc[t] # "out" => mine[t] = tail /\ msg[t] \in Messages
    /\ pc[t] \in {"write", "store"} => Length < Capacity
    /\ pc[t] = "store" => buffer[tail % Capacity] = msg[t]

Receiving(t) ==
    /\ pc[t] \in {"out", "tail", "read", "take"}
    /\ pc[t] # "out" => mine[t] = head
    /\ pc[t] \in {"read", "take"} => tail # head
    /\ pc[t] = "take" => buffer[head % Capacity] = msg[t]

ChannelInv ==
    /\ ChannelTypes /\ Alone
    /\ Length <= Capacity
    /\ \A t \in Producers : Sending(t)
    /\ \A t \in Consumers : Receiving(t)

-----------------------------------------------------------------------------
(* Counters that wrap *)

(* What an addition and a comparison of wrapping counters amount to. *)
LEMMA WrapLess ==
    ASSUME NEW n \in Nat, NEW w \in Nat, n < w
    PROVE  n % w = n /\ (n + w) % w = n
  OBVIOUS

LEMMA SubCases ==
    ASSUME NEW a \in Counters, NEW b \in Counters
    PROVE  WrappingSub(a, b) = IF a >= b THEN a - b ELSE a + Word - b
<1>1. Word \in Nat /\ a \in Nat /\ b \in Nat /\ a < Word /\ b < Word
  BY ChannelAssumption DEF Counters
<1>2. CASE a >= b
  <2>1. a - b \in Nat /\ a - b < Word /\ a + Word - b = (a - b) + Word
    BY <1>1, <1>2
  <2>2. ((a - b) + Word) % Word = a - b
    BY <1>1, <2>1, WrapLess
  <2> QED BY <1>2, <2>1, <2>2 DEF WrappingSub
<1>3. CASE ~(a >= b)
  <2>1. a + Word - b \in Nat /\ a + Word - b < Word
    BY <1>1, <1>3
  <2>2. (a + Word - b) % Word = a + Word - b
    BY <1>1, <2>1, WrapLess
  <2> QED BY <1>3, <2>2 DEF WrappingSub
<1> QED BY <1>2, <1>3

LEMMA NextCases ==
    ASSUME NEW a \in Counters
    PROVE  (a + 1) % Word = IF a + 1 = Word THEN 0 ELSE a + 1
<1>1. Word \in Nat /\ a \in Nat /\ a < Word
  BY ChannelAssumption DEF Counters
<1>2. CASE a + 1 = Word
  <2>1. (0 + Word) % Word = 0
    BY <1>1, WrapLess
  <2> QED BY <1>1, <1>2, <2>1
<1>3. CASE a + 1 # Word
  <2>1. a + 1 \in Nat /\ a + 1 < Word
    BY <1>1, <1>3
  <2> QED BY <1>1, <1>3, <2>1, WrapLess
<1> QED BY <1>2, <1>3

LEMMA Distributes ==
    ASSUME NEW q \in Nat, NEW k \in Nat, NEW w \in Nat
    PROVE  (q + k) * w = q * w + k * w /\ q * w \in Nat /\ k * w \in Nat
  OBVIOUS

(* The slot of a counter survives the wrap: the word is a multiple of the
   capacity. *)
LEMMA Remainder ==
    ASSUME NEW q \in Nat, NEW r \in Nat, NEW w \in Nat \ {0}, r < w
    PROVE  (q * w + r) % w = r
  OBVIOUS

LEMMA Divided ==
    ASSUME NEW n \in Nat, NEW w \in Nat \ {0}
    PROVE  n = (n \div w) * w + (n % w) /\ n \div w \in Nat /\ n % w \in Nat /\ n % w < w
  OBVIOUS

LEMMA SlotWraps ==
    ASSUME NEW n \in Nat
    PROVE  (n + Word) % Capacity = n % Capacity
<1>1. Capacity \in Nat \ {0} /\ Word \in Nat /\ Word % Capacity = 0
  BY ChannelAssumption
<1> DEFINE q == n \div Capacity
           r == n % Capacity
           k == Word \div Capacity
<1>2. n = q * Capacity + r /\ q \in Nat /\ r \in Nat /\ r < Capacity
  BY <1>1, Divided
<1>3. Word = k * Capacity + 0 /\ k \in Nat
  BY <1>1, Divided
<1> HIDE DEF q, r, k
<1>4. n + Word = (q + k) * Capacity + r /\ q + k \in Nat
  <2>1. (q + k) * Capacity = q * Capacity + k * Capacity
        /\ q * Capacity \in Nat /\ k * Capacity \in Nat
    BY <1>1, <1>2, <1>3, Distributes
  <2> HIDE ChannelAssumption
  <2> QED BY <1>2, <1>3, <2>1
<1>5. (n + Word) % Capacity = r
  BY <1>1, <1>2, <1>4, Remainder
<1> QED BY <1>5 DEF r

(* Counters less than a capacity apart have different slots. *)
LEMMA SlotsDiffer ==
    ASSUME NEW a \in Nat, NEW b \in Nat, a < b, b - a < Capacity
    PROVE  a % Capacity # b % Capacity
<1>1. Capacity \in Nat \ {0}
  BY ChannelAssumption
<1> DEFINE q == a \div Capacity
           r == a % Capacity
           d == b - a
<1>2. a = q * Capacity + r /\ q \in Nat /\ r \in Nat /\ r < Capacity
  BY <1>1, Divided
<1>3. d \in Nat /\ 0 < d /\ d < Capacity /\ b = a + d
  OBVIOUS
<1> HIDE DEF q, r, d
<1>4. CASE r + d < Capacity
  <2>1. b = q * Capacity + (r + d)
    BY <1>1, <1>2, <1>3
  <2>2. b % Capacity = r + d
    BY <1>1, <1>2, <1>3, <1>4, <2>1, Remainder
  <2>3. r + d # r
    BY <1>2, <1>3
  <2> QED BY <2>2, <2>3 DEF r
<1>5. CASE r + d >= Capacity
  <2>1. b = (q + 1) * Capacity + (r + d - Capacity)
    BY <1>1, <1>2, <1>3
  <2>2. r + d - Capacity \in Nat /\ r + d - Capacity < Capacity /\ q + 1 \in Nat
    BY <1>1, <1>2, <1>3, <1>5
  <2>3. b % Capacity = r + d - Capacity
    BY <1>1, <2>1, <2>2, Remainder
  <2>4. r + d - Capacity # r
    BY <1>1, <1>2, <1>3
  <2> QED BY <2>3, <2>4 DEF r
<1> QED BY <1>1, <1>2, <1>3, <1>4, <1>5

(* The distance from a reading counter h to a writing counter t. *)
LEMMA Distance ==
    ASSUME NEW t \in Counters, NEW h \in Counters
    PROVE  /\ WrappingSub(t, h) \in Counters
           /\ WrappingSub(t, h) = 0 <=> t = h
           /\ (h + WrappingSub(t, h)) % Capacity = t % Capacity
<1>1. Word \in Nat /\ t \in Nat /\ h \in Nat /\ t < Word /\ h < Word
  BY ChannelAssumption DEF Counters
<1>2. WrappingSub(t, h) = IF t >= h THEN t - h ELSE t + Word - h
  BY SubCases
<1>3. h + WrappingSub(t, h) = t \/ h + WrappingSub(t, h) = t + Word
  BY <1>1, <1>2
<1>4. (h + WrappingSub(t, h)) % Capacity = t % Capacity
  BY <1>1, <1>3, SlotWraps
<1> QED BY <1>1, <1>2, <1>4 DEF Counters

LEMMA DistanceUp ==
    ASSUME NEW t \in Counters, NEW h \in Counters, WrappingSub(t, h) < Capacity
    PROVE  /\ (t + 1) % Word \in Counters
           /\ WrappingSub((t + 1) % Word, h) = WrappingSub(t, h) + 1
<1>1. /\ Word \in Nat /\ t \in Nat /\ h \in Nat /\ t < Word /\ h < Word
      /\ Capacity \in Nat /\ Capacity < Word
  BY ChannelAssumption DEF Counters
<1>2. WrappingSub(t, h) = IF t >= h THEN t - h ELSE t + Word - h
  BY SubCases
<1>3. (t + 1) % Word = IF t + 1 = Word THEN 0 ELSE t + 1
  BY NextCases
<1>4. (t + 1) % Word \in Counters
  BY <1>1, <1>3 DEF Counters
<1>5. WrappingSub((t + 1) % Word, h) =
        IF ((t + 1) % Word) >= h THEN ((t + 1) % Word) - h
        ELSE ((t + 1) % Word) + Word - h
  BY <1>4, SubCases
<1> HIDE ChannelAssumption
<1>6. CASE t + 1 = Word
  BY <1>1, <1>2, <1>3, <1>4, <1>5, <1>6
<1>7. CASE t + 1 # Word
  BY <1>1, <1>2, <1>3, <1>4, <1>5, <1>7
<1> QED BY <1>6, <1>7

LEMMA DistanceDown ==
    ASSUME NEW t \in Counters, NEW h \in Counters, t # h
    PROVE  /\ (h + 1) % Word \in Counters
           /\ WrappingSub(t, (h + 1) % Word) = WrappingSub(t, h) - 1
<1>1. Word \in Nat /\ t \in Nat /\ h \in Nat /\ t < Word /\ h < Word
  BY ChannelAssumption DEF Counters
<1>2. WrappingSub(t, h) = IF t >= h THEN t - h ELSE t + Word - h
  BY SubCases
<1>3. (h + 1) % Word = IF h + 1 = Word THEN 0 ELSE h + 1
  BY NextCases
<1>4. (h + 1) % Word \in Counters
  BY <1>1, <1>3 DEF Counters
<1>5. WrappingSub(t, (h + 1) % Word) =
        IF t >= ((h + 1) % Word) THEN t - ((h + 1) % Word)
        ELSE t + Word - ((h + 1) % Word)
  BY <1>4, SubCases
<1> HIDE ChannelAssumption
<1>6. CASE h + 1 = Word
  BY <1>1, <1>2, <1>3, <1>4, <1>5, <1>6
<1>7. CASE h + 1 # Word
  BY <1>1, <1>2, <1>3, <1>4, <1>5, <1>7
<1> QED BY <1>6, <1>7

(* The slots behind a counter are the same before and after it is moved on. *)
LEMMA SlotBehind ==
    ASSUME NEW h \in Counters, NEW j \in Nat
    PROVE  (((h + 1) % Word) + j) % Capacity = (h + 1 + j) % Capacity
<1>1. Word \in Nat /\ h \in Nat
  BY ChannelAssumption DEF Counters
<1>2. CASE h + 1 = Word
  <2>1. ((h + 1) % Word) + j = j /\ h + 1 + j = j + Word
    BY <1>1, <1>2, NextCases
  <2> QED BY <2>1, SlotWraps
<1>3. CASE h + 1 # Word
  <2>1. ((h + 1) % Word) + j = h + 1 + j
    BY <1>1, <1>3, NextCases
  <2> QED BY <2>1
<1> QED BY <1>2, <1>3

(* The slot the sender writes holds none of the messages in a ring with room. *)
LEMMA SlotFree ==
    ASSUME NEW t \in Counters, NEW h \in Counters, WrappingSub(t, h) < Capacity,
           NEW j \in Nat, j < WrappingSub(t, h)
    PROVE  (h + j) % Capacity # t % Capacity
<1>1. WrappingSub(t, h) \in Nat /\ h \in Nat /\ Capacity \in Nat
  BY Distance, ChannelAssumption DEF Counters
<1> DEFINE n == WrappingSub(t, h)
<1>2. n \in Nat /\ j < n /\ n < Capacity /\ (h + n) % Capacity = t % Capacity
  BY <1>1, Distance
<1> HIDE DEF n
<1>3. h + j \in Nat /\ h + n \in Nat /\ h + j < h + n /\ (h + n) - (h + j) < Capacity
  BY <1>1, <1>2
<1>4. (h + j) % Capacity # (h + n) % Capacity
  BY <1>3, SlotsDiffer
<1> QED BY <1>2, <1>4
-----------------------------------------------------------------------------
(* The invariant *)

OnlySafe == \A u \in Uses : SafeUse(u)

Points == {"out", "head", "write", "store", "tail", "read", "take"}

(* While a thread is inside a call, or may begin one, nobody else is inside the
   same one; behind a lock nobody else is inside any. *)
LEMMA Exclusive ==
    ASSUME ChannelInv, OnlySafe, NEW t \in Threads, t \in use.threads,
           pc[t] # "out" \/ Acquire(t)
    PROVE  /\ t \in Producers => \A v \in Producers \ {t} : pc[v] = "out"
           /\ t \in Consumers => \A v \in Consumers \ {t} : pc[v] = "out"
           /\ use.locked => \A v \in Threads \ {t} : pc[v] = "out"
<1>1. SafeUse(use) /\ Alone
  BY DEF OnlySafe, ChannelInv, ChannelTypes
<1>2. CASE use.locked
  BY <1>1, <1>2 DEF Alone, Acquire, Threads
<1>3. CASE ~use.locked
  BY <1>1, <1>3 DEF Alone, SafeUse, Threads
<1> QED BY <1>2, <1>3

LEMMA AloneKept ==
    ASSUME ChannelInv, OnlySafe, NEW t \in Threads, t \in use.threads,
           pc[t] # "out" \/ Acquire(t),
           NEW x, pc' = [pc EXCEPT ![t] = x], use' = use
    PROVE  Alone'
<1>1. pc \in [Threads -> Points] /\ Alone
  BY DEF ChannelInv, ChannelTypes, Points
<1>2. \A v \in Threads \ {t} : pc'[v] = pc[v]
  BY <1>1
<1> QED BY <1>1, <1>2, Exclusive DEF Alone

(* What is left to show of a sender's step: nothing the receivers rely on. *)
LEMMA SenderFrame ==
    ASSUME ChannelInv, OnlySafe, NEW t \in Producers, t \in use.threads,
           pc[t] # "out" \/ Acquire(t),
           NEW x \in Points, NEW c \in Counters, NEW m \in Messages \cup {NoMessage},
           pc' = [pc EXCEPT ![t] = x], mine' = [mine EXCEPT ![t] = c],
           msg' = [msg EXCEPT ![t] = m], use' = use, head' = head,
           buffer' \in [Slots -> Messages \cup {NoMessage}], tail' \in Counters,
           Length' <= Capacity, Sending(t)',
           \A v \in Consumers : pc[v] \in {"read", "take"} =>
                /\ tail' # head
                /\ buffer'[head % Capacity] = buffer[head % Capacity]
    PROVE  ChannelInv'
<1>1. /\ pc \in [Threads -> Points] /\ mine \in [Threads -> Counters]
      /\ msg \in [Threads -> Messages \cup {NoMessage}]
      /\ t \in Threads /\ Producers \cap Consumers = {}
  BY ChannelAssumption DEF ChannelInv, ChannelTypes, Points, Threads
<1>2. ChannelTypes'
  BY <1>1 DEF ChannelInv, ChannelTypes, Points
<1>3. Alone'
  BY <1>1, AloneKept
<1>4. \A v \in Producers \ {t} : pc'[v] = "out"
  BY <1>1, Exclusive DEF Threads
<1>5. \A v \in Producers : Sending(v)'
  BY <1>4 DEF Sending
<1>6. ASSUME NEW v \in Consumers PROVE Receiving(v)'
  <2>1. v # t /\ v \in Threads
    BY <1>1 DEF Threads
  <2>2. pc'[v] = pc[v] /\ mine'[v] = mine[v] /\ msg'[v] = msg[v]
    BY <1>1, <2>1
  <2>3. Receiving(v)
    BY DEF ChannelInv
  <2> QED BY <2>2, <2>3 DEF Receiving
<1> QED BY <1>2, <1>3, <1>5, <1>6 DEF ChannelInv

(* What is left to show of a receiver's step: nothing the senders rely on. *)
LEMMA ReceiverFrame ==
    ASSUME ChannelInv, OnlySafe, NEW t \in Consumers, t \in use.threads,
           pc[t] # "out" \/ Acquire(t),
           NEW x \in Points, NEW c \in Counters, NEW m \in Messages \cup {NoMessage},
           pc' = [pc EXCEPT ![t] = x], mine' = [mine EXCEPT ![t] = c],
           msg' = [msg EXCEPT ![t] = m], use' = use, tail' = tail, buffer' = buffer,
           head' \in Counters, Length' <= Length, Receiving(t)'
    PROVE  ChannelInv'
<1>1. /\ pc \in [Threads -> Points] /\ mine \in [Threads -> Counters]
      /\ msg \in [Threads -> Messages \cup {NoMessage}]
      /\ t \in Threads /\ Producers \cap Consumers = {}
  BY ChannelAssumption DEF ChannelInv, ChannelTypes, Points, Threads
<1>2. ChannelTypes'
  BY <1>1 DEF ChannelInv, ChannelTypes, Points
<1>3. Alone'
  BY <1>1, AloneKept
<1>4. \A v \in Consumers \ {t} : pc'[v] = "out"
  BY <1>1, Exclusive DEF Threads
<1>5. \A v \in Consumers : Receiving(v)'
  BY <1>4 DEF Receiving
<1>6. Length \in Counters /\ Length' \in Counters
  BY <1>2, Distance DEF ChannelInv, ChannelTypes, Length
<1>7. Length \in Nat /\ Length' \in Nat /\ Capacity \in Nat
  BY <1>6, ChannelAssumption DEF Counters
<1>8. Length' <= Capacity
  BY <1>7 DEF ChannelInv
<1>9. ASSUME NEW v \in Producers PROVE Sending(v)'
  <2>1. v # t /\ v \in Threads
    BY <1>1 DEF Threads
  <2>2. pc'[v] = pc[v] /\ mine'[v] = mine[v] /\ msg'[v] = msg[v]
    BY <1>1, <2>1
  <2>3. Sending(v)
    BY DEF ChannelInv
  <2>4. Length < Capacity => Length' < Capacity
    BY <1>7
  <2> QED BY <2>2, <2>3, <2>4 DEF Sending
<1> QED BY <1>2, <1>3, <1>5, <1>8, <1>9 DEF ChannelInv
LEMMA ChannelInitially == Init => ChannelInv
<1> SUFFICES ASSUME Init PROVE ChannelInv
  OBVIOUS
<1>1. 0 \in Counters /\ Capacity \in Nat
  BY ChannelAssumption DEF Counters
<1>2. Length = 0
  BY <1>1, Distance DEF Init, Length
<1>3. ChannelTypes /\ Alone
  BY <1>1 DEF Init, ChannelTypes, Alone, Slots, Threads
<1>4. \A t \in Producers : Sending(t)
  BY DEF Init, Sending, Threads
<1>5. \A t \in Consumers : Receiving(t)
  BY DEF Init, Receiving, Threads
<1> QED BY <1>1, <1>2, <1>3, <1>4, <1>5 DEF ChannelInv

LEMMA ChannelFacts ==
    ASSUME ChannelInv
    PROVE  /\ buffer \in [Slots -> Messages \cup {NoMessage}]
           /\ head \in Counters /\ tail \in Counters /\ 0 \in Counters
           /\ pc \in [Threads -> Points] /\ mine \in [Threads -> Counters]
           /\ msg \in [Threads -> Messages \cup {NoMessage}]
           /\ Length \in Nat /\ Length <= Capacity
           /\ Capacity \in Nat /\ Capacity < Word /\ Word \in Nat
<1>1. ChannelTypes /\ Length <= Capacity
  BY DEF ChannelInv
<1>2. Capacity \in Nat /\ Capacity < Word /\ Word \in Nat /\ 0 \in Counters
  BY ChannelAssumption DEF Counters
<1>3. head \in Counters /\ tail \in Counters
  BY <1>1 DEF ChannelTypes
<1>4. Length \in Counters
  BY <1>3, Distance DEF Length
<1>5. Length \in Nat
  BY <1>4, ChannelAssumption DEF Counters
<1> QED BY <1>1, <1>2, <1>5 DEF ChannelTypes, Points

LEMMA SendStep ==
    ASSUME ChannelInv, OnlySafe, NEW t \in Producers, t \in use.threads,
           \/ \E m \in Messages : SendBegin(t, m)
           \/ SendCheck(t) \/ SendWrite(t) \/ SendStore(t)
    PROVE  ChannelInv'
<1> USE DEF Goto
<1>1. /\ buffer \in [Slots -> Messages \cup {NoMessage}]
      /\ head \in Counters /\ tail \in Counters /\ 0 \in Counters
      /\ pc \in [Threads -> Points] /\ mine \in [Threads -> Counters]
      /\ msg \in [Threads -> Messages \cup {NoMessage}]
      /\ t \in Threads /\ Sending(t)
      /\ Length \in Nat /\ Length <= Capacity
      /\ Capacity \in Nat /\ Capacity < Word /\ Word \in Nat
  BY ChannelFacts DEF ChannelInv, Threads
<1>2. ASSUME NEW m \in Messages, SendBegin(t, m) PROVE ChannelInv'
  <2>1. Sending(t)'
    BY <1>1, <1>2 DEF SendBegin, Sending
  <2>2. /\ Length' <= Capacity /\ Acquire(t) /\ "head" \in Points
        /\ pc' = [pc EXCEPT ![t] = "head"] /\ mine' = [mine EXCEPT ![t] = tail]
        /\ msg' = [msg EXCEPT ![t] = m] /\ UNCHANGED <<use, head, tail, buffer>>
    BY <1>1, <1>2 DEF SendBegin, Length, Points
  <2>3. \A v \in Consumers : pc[v] \in {"read", "take"} => tail # head
    BY DEF ChannelInv, Receiving
  <2> QED BY <1>1, <2>1, <2>2, <2>3, SenderFrame
<1>3. CASE SendCheck(t)
  <2>1. mine[t] = tail /\ pc[t] = "head" /\ Used(mine[t], head) = Length
    BY <1>1, <1>3 DEF SendCheck, Sending, Used, Length
  <2>2. \A v \in Consumers : pc[v] \in {"read", "take"} => tail # head
    BY DEF ChannelInv, Receiving
  <2>3. Length' <= Capacity
    BY <1>1, <1>3 DEF SendCheck, Length
  <2>4. CASE Length >= Capacity
    <3>1. /\ pc' = [pc EXCEPT ![t] = "out"] /\ mine' = [mine EXCEPT ![t] = 0]
          /\ msg' = [msg EXCEPT ![t] = NoMessage] /\ UNCHANGED <<use, head, tail, buffer>>
      BY <1>3, <2>1, <2>4 DEF SendCheck
    <3>2. Sending(t)' /\ "out" \in Points
      BY <1>1, <3>1 DEF Sending, Points
    <3> QED BY <1>1, <2>1, <2>2, <2>3, <3>1, <3>2, SenderFrame
  <2>5. CASE ~(Length >= Capacity)
    <3>1. pc' = [pc EXCEPT ![t] = "write"] /\ UNCHANGED <<use, head, tail, buffer, mine, msg>>
      BY <1>3, <2>1, <2>5 DEF SendCheck
    <3>2. Length < Capacity /\ Length' < Capacity
      BY <1>1, <2>5, <3>1 DEF Length
    <3>3. Sending(t)' /\ "write" \in Points
      BY <1>1, <2>1, <3>1, <3>2 DEF Sending, Points
    <3>4. mine' = [mine EXCEPT ![t] = mine[t]] /\ msg' = [msg EXCEPT ![t] = msg[t]]
      BY <1>1, <3>1
    <3> QED BY <1>1, <2>1, <2>2, <2>3, <3>1, <3>3, <3>4, SenderFrame
  <2> QED BY <2>4, <2>5
<1>4. CASE SendWrite(t)
  <2>1. mine[t] = tail /\ pc[t] = "write" /\ msg[t] \in Messages /\ Length < Capacity
    BY <1>1, <1>4 DEF SendWrite, Sending
  <2>2. /\ pc' = [pc EXCEPT ![t] = "store"] /\ UNCHANGED <<use, head, tail, mine, msg>>
        /\ buffer' = [buffer EXCEPT ![tail % Capacity] = msg[t]]
    BY <1>4, <2>1 DEF SendWrite
  <2>3. tail % Capacity \in Slots /\ head % Capacity \in Slots
    BY <1>1, ChannelAssumption DEF Counters, Slots
  <2>4. buffer' \in [Slots -> Messages \cup {NoMessage}] /\ buffer'[tail % Capacity] = msg[t]
    BY <1>1, <2>1, <2>2, <2>3
  <2>5. Length' = Length
    BY <2>2 DEF Length
  <2>6. Sending(t)' /\ "store" \in Points
    BY <1>1, <2>1, <2>2, <2>4, <2>5 DEF Sending, Points
  <2>7. ASSUME NEW v \in Consumers, pc[v] \in {"read", "take"}
        PROVE  tail # head /\ buffer'[head % Capacity] = buffer[head % Capacity]
    <3>1. tail # head
      BY <2>7 DEF ChannelInv, Receiving
    <3>2. 0 < Length
      BY <1>1, <3>1, Distance DEF Length
    <3>3. (head + 0) % Capacity # tail % Capacity
      BY <1>1, <2>1, <3>2, SlotFree DEF Length
    <3>4. head + 0 = head
      BY <1>1 DEF Counters
    <3> QED BY <1>1, <2>2, <2>3, <3>1, <3>3, <3>4
  <2>8. mine' = [mine EXCEPT ![t] = mine[t]] /\ msg' = [msg EXCEPT ![t] = msg[t]]
    BY <1>1, <2>2
  <2> QED BY <1>1, <2>1, <2>2, <2>4, <2>5, <2>6, <2>7, <2>8, SenderFrame
<1>5. CASE SendStore(t)
  <2>1. mine[t] = tail /\ pc[t] = "store" /\ Length < Capacity
    BY <1>1, <1>5 DEF SendStore, Sending
  <2>2. /\ pc' = [pc EXCEPT ![t] = "out"] /\ mine' = [mine EXCEPT ![t] = 0]
        /\ msg' = [msg EXCEPT ![t] = NoMessage] /\ UNCHANGED <<use, head, buffer>>
        /\ tail' = (tail + 1) % Word
    BY <1>5, <2>1 DEF SendStore
  <2>3. tail' \in Counters /\ Length' = Length + 1
    BY <1>1, <2>1, <2>2, DistanceUp DEF Length
  <2>4. Sending(t)' /\ "out" \in Points
    BY <1>1, <2>2 DEF Sending, Points
  <2>5. tail' # head
    <3>1. WrappingSub(tail', head) = Length + 1 /\ Length + 1 # 0
      BY <1>1, <2>2, <2>3 DEF Length
    <3> QED BY <1>1, <2>3, <3>1, Distance
  <2>6. Length' <= Capacity
    BY <1>1, <2>1, <2>3
  <2> QED BY <1>1, <2>1, <2>2, <2>3, <2>4, <2>5, <2>6, SenderFrame
<1> QED BY <1>2, <1>3, <1>4, <1>5

LEMMA RecvStep ==
    ASSUME ChannelInv, OnlySafe, NEW t \in Consumers, t \in use.threads,
           RecvBegin(t) \/ RecvCheck(t) \/ RecvRead(t) \/ RecvStore(t)
    PROVE  ChannelInv'
<1> USE DEF Goto
<1>1. /\ buffer \in [Slots -> Messages \cup {NoMessage}]
      /\ head \in Counters /\ tail \in Counters /\ 0 \in Counters
      /\ pc \in [Threads -> Points] /\ mine \in [Threads -> Counters]
      /\ msg \in [Threads -> Messages \cup {NoMessage}]
      /\ t \in Threads /\ Receiving(t) /\ Length \in Nat
  BY ChannelFacts DEF ChannelInv, Threads
<1>2. CASE RecvBegin(t)
  <2>1. /\ Acquire(t) /\ "tail" \in Points /\ pc' = [pc EXCEPT ![t] = "tail"]
        /\ mine' = [mine EXCEPT ![t] = head] /\ UNCHANGED <<use, head, tail, buffer, msg>>
    BY <1>2 DEF RecvBegin, Points
  <2>2. Receiving(t)' /\ Length' <= Length /\ msg' = [msg EXCEPT ![t] = msg[t]]
    BY <1>1, <2>1 DEF Receiving, Length
  <2> QED BY <1>1, <2>1, <2>2, ReceiverFrame
<1>3. CASE RecvCheck(t)
  <2>1. mine[t] = head /\ pc[t] = "tail"
    BY <1>1, <1>3 DEF RecvCheck, Receiving
  <2>2. UNCHANGED <<use, head, tail, buffer, msg>> /\ msg' = [msg EXCEPT ![t] = msg[t]]
    BY <1>1, <1>3 DEF RecvCheck
  <2>3. Length' <= Length
    BY <1>1, <2>2 DEF Length
  <2>4. CASE head = tail
    <3>1. pc' = [pc EXCEPT ![t] = "out"] /\ mine' = [mine EXCEPT ![t] = 0] /\ "out" \in Points
      BY <1>3, <2>1, <2>4 DEF RecvCheck, Points
    <3>2. Receiving(t)'
      BY <1>1, <3>1 DEF Receiving
    <3> QED BY <1>1, <2>1, <2>2, <2>3, <3>1, <3>2, ReceiverFrame
  <2>5. CASE head # tail
    <3>1. /\ pc' = [pc EXCEPT ![t] = "read"] /\ mine' = mine /\ "read" \in Points
          /\ mine' = [mine EXCEPT ![t] = mine[t]]
      BY <1>1, <1>3, <2>1, <2>5 DEF RecvCheck, Points
    <3>2. Receiving(t)'
      BY <1>1, <2>1, <2>2, <2>5, <3>1 DEF Receiving
    <3> QED BY <1>1, <2>1, <2>2, <2>3, <3>1, <3>2, ReceiverFrame
  <2> QED BY <2>4, <2>5
<1>4. CASE RecvRead(t)
  <2>1. mine[t] = head /\ pc[t] = "read" /\ tail # head
    BY <1>1, <1>4 DEF RecvRead, Receiving
  <2>2. /\ pc' = [pc EXCEPT ![t] = "take"] /\ UNCHANGED <<use, head, tail, buffer, mine>>
        /\ msg' = [msg EXCEPT ![t] = buffer[head % Capacity]] /\ "take" \in Points
    BY <1>4, <2>1 DEF RecvRead, Points
  <2>3. buffer[head % Capacity] \in Messages \cup {NoMessage}
    BY <1>1, ChannelAssumption DEF Counters, Slots
  <2>4. Receiving(t)' /\ Length' <= Length /\ mine' = [mine EXCEPT ![t] = mine[t]]
    BY <1>1, <2>1, <2>2 DEF Receiving, Length
  <2> QED BY <1>1, <2>1, <2>2, <2>3, <2>4, ReceiverFrame
<1>5. CASE RecvStore(t)
  <2>1. mine[t] = head /\ pc[t] = "take" /\ tail # head
    BY <1>1, <1>5 DEF RecvStore, Receiving
  <2>2. /\ pc' = [pc EXCEPT ![t] = "out"] /\ mine' = [mine EXCEPT ![t] = 0]
        /\ msg' = [msg EXCEPT ![t] = NoMessage] /\ UNCHANGED <<use, tail, buffer>>
        /\ head' = (head + 1) % Word /\ "out" \in Points
    BY <1>5, <2>1 DEF RecvStore, Points
  <2>3. head' \in Counters /\ Length' = Length - 1
    BY <1>1, <2>1, <2>2, DistanceDown DEF Length
  <2>4. Receiving(t)' /\ Length' <= Length
    BY <1>1, <2>2, <2>3 DEF Receiving
  <2> QED BY <1>1, <2>1, <2>2, <2>3, <2>4, ReceiverFrame
<1> QED BY <1>2, <1>3, <1>4, <1>5

LEMMA ChannelStep ==
    ASSUME ChannelInv, OnlySafe, [Next]_vars
    PROVE  ChannelInv'
<1>1. CASE UNCHANGED vars
  BY <1>1 DEF vars, ChannelInv, ChannelTypes, Alone, Length, Sending, Receiving
<1>2. CASE Next
  BY <1>2, SendStep, RecvStep DEF Next
<1> QED BY <1>1, <1>2

(* The inductive invariant of Channel::send and recv: where each thread is in its
   call, and what that means for the counters and the ring. *)
THEOREM ChannelInvariant ==
    ASSUME OnlySafe
    PROVE  Spec => []ChannelInv
<1>1. ChannelInv /\ [Next]_vars => ChannelInv'
  BY ChannelStep
<1> QED BY <1>1, ChannelInitially, PTL DEF Spec

-----------------------------------------------------------------------------
(* The refinement *)

(* The n messages of a ring of slots b, from the counter h on. *)
Ring(b, h, n) == [i \in 1 .. n |-> b[(h + i - 1) % Capacity]]

Slotted == [Slots -> Messages \cup {NoMessage}]

LEMMA RingFacts ==
    ASSUME NEW b \in Slotted, NEW h \in Nat, NEW n \in Nat
    PROVE  /\ Ring(b, h, n) \in Seq(Messages \cup {NoMessage})
           /\ Len(Ring(b, h, n)) = n
           /\ \A i \in 1 .. n : /\ Ring(b, h, n)[i] = b[(h + i - 1) % Capacity]
                                /\ (h + i - 1) % Capacity \in Slots
<1>1. Capacity \in Nat \ {0}
  BY ChannelAssumption
<1>2. \A i \in 1 .. n : (h + i - 1) % Capacity \in Slots
  BY <1>1 DEF Slots
<1>3. \A i \in 1 .. n : b[(h + i - 1) % Capacity] \in Messages \cup {NoMessage}
  BY <1>2 DEF Slotted
<1>4. Ring(b, h, n) \in [1 .. n -> Messages \cup {NoMessage}]
  BY <1>3 DEF Ring
<1>5. Ring(b, h, n) \in Seq(Messages \cup {NoMessage})
  BY <1>4
<1>6. Len(Ring(b, h, n)) = n
  BY <1>4, <1>5, LenProperties
<1> QED BY <1>2, <1>5, <1>6 DEF Ring

(* Two rings agree when their slots do. *)
LEMMA RingSame ==
    ASSUME NEW b \in Slotted, NEW c \in Slotted, NEW h \in Nat, NEW n \in Nat,
           \A j \in 0 .. n - 1 : b[(h + j) % Capacity] = c[(h + j) % Capacity]
    PROVE  Ring(b, h, n) = Ring(c, h, n)
<1>1. ASSUME NEW i \in 1 .. n
      PROVE  b[(h + i - 1) % Capacity] = c[(h + i - 1) % Capacity]
  <2>1. i - 1 \in 0 .. n - 1 /\ h + (i - 1) = h + i - 1
    OBVIOUS
  <2> QED BY <2>1
<1> QED BY <1>1 DEF Ring

LEMMA RingAppend ==
    ASSUME NEW b \in Slotted, NEW h \in Nat, NEW n \in Nat, NEW m,
           b[(h + n) % Capacity] = m
    PROVE  Ring(b, h, n + 1) = Append(Ring(b, h, n), m)
<1> DEFINE S == Messages \cup {NoMessage}
           long == Ring(b, h, n + 1)
           short == Ring(b, h, n)
<1>1. /\ long \in Seq(S) /\ Len(long) = n + 1 /\ n + 1 \in Nat
      /\ \A i \in 1 .. n + 1 : long[i] = b[(h + i - 1) % Capacity]
                               /\ (h + i - 1) % Capacity \in Slots
  BY RingFacts
<1>2. /\ short \in Seq(S) /\ Len(short) = n
      /\ \A i \in 1 .. n : short[i] = b[(h + i - 1) % Capacity]
  BY RingFacts
<1>3. n + 1 \in 1 .. n + 1 /\ h + (n + 1) - 1 = h + n
  OBVIOUS
<1>4. (h + n) % Capacity \in Slots /\ long[n + 1] = m
  BY <1>1, <1>3
<1>5. m \in S
  BY <1>4 DEF Slotted
<1> HIDE DEF S, long, short
<1>6. /\ Append(short, m) \in Seq(S) /\ Len(Append(short, m)) = n + 1
      /\ \A i \in 1 .. n : Append(short, m)[i] = short[i]
      /\ Append(short, m)[n + 1] = m
  BY <1>2, <1>5, AppendProperties
<1>7. \A i \in 1 .. n + 1 : i \in 1 .. n \/ i = n + 1
  OBVIOUS
<1>8. \A i \in 1 .. Len(long) : long[i] = Append(short, m)[i]
  BY <1>1, <1>2, <1>4, <1>6, <1>7
<1>9. long = Append(short, m)
  BY <1>1, <1>6, <1>8, SeqEqual
<1> QED BY <1>9 DEF long, short

LEMMA RingTail ==
    ASSUME NEW b \in Slotted, NEW h \in Counters, NEW n \in Nat \ {0}
    PROVE  /\ Ring(b, h, n) # << >>
           /\ Head(Ring(b, h, n)) = b[h % Capacity]
           /\ Ring(b, (h + 1) % Word, n - 1) = Tail(Ring(b, h, n))
<1> DEFINE S == Messages \cup {NoMessage}
           long == Ring(b, h, n)
           short == Ring(b, (h + 1) % Word, n - 1)
<1>0. h \in Nat /\ (h + 1) % Word \in Nat /\ n - 1 \in Nat /\ n \in Nat
  BY ChannelAssumption DEF Counters
<1>1. /\ long \in Seq(S) /\ Len(long) = n
      /\ \A i \in 1 .. n : long[i] = b[(h + i - 1) % Capacity]
  BY <1>0, RingFacts
<1>2. /\ short \in Seq(S) /\ Len(short) = n - 1
      /\ \A i \in 1 .. n - 1 : short[i] = b[(((h + 1) % Word) + i - 1) % Capacity]
  BY <1>0, RingFacts
<1>3. ASSUME NEW i \in 1 .. n - 1
      PROVE  (((h + 1) % Word) + i - 1) % Capacity = (h + (i + 1) - 1) % Capacity
             /\ i + 1 \in 1 .. n
  <2>1. i - 1 \in Nat /\ i + 1 \in 1 .. n /\ h + 1 + (i - 1) = h + (i + 1) - 1
        /\ ((h + 1) % Word) + (i - 1) = ((h + 1) % Word) + i - 1
    BY <1>0
  <2>2. (((h + 1) % Word) + (i - 1)) % Capacity = (h + 1 + (i - 1)) % Capacity
    BY <2>1, SlotBehind
  <2> QED BY <2>1, <2>2
<1>4. \A i \in 1 .. n - 1 : short[i] = long[i + 1]
  BY <1>1, <1>2, <1>3
<1>5. 1 \in 1 .. n /\ h + 1 - 1 = h
  BY <1>0
<1>6. long[1] = b[h % Capacity]
  BY <1>1, <1>5
<1> HIDE DEF S, long, short
<1>7. long # << >>
  BY <1>1, EmptySeq
<1>8. /\ Head(long) = long[1] /\ Tail(long) \in Seq(S) /\ Len(Tail(long)) = n - 1
      /\ \A i \in 1 .. n - 1 : Tail(long)[i] = long[i + 1]
  <2>1. Tail(long) \in Seq(S) /\ Len(Tail(long)) = Len(long) - 1
        /\ \A i \in 1 .. Len(Tail(long)) : Tail(long)[i] = long[i + 1]
    BY <1>1, <1>7, HeadTailProperties
  <2> QED BY <1>1, <2>1
<1>9. short = Tail(long)
  BY <1>2, <1>4, <1>8, SeqEqual
<1> QED BY <1>6, <1>7, <1>8, <1>9 DEF long, short

(* The queue a state of the ring stands for, before and after a step. *)
LEMMA ContentsRing ==
    /\ Contents = Ring(buffer, head, Length)
    /\ Contents' = Ring(buffer', head', Length')
BY DEF Contents, Ring, Length

(* The facts both halves of the step lemma use. *)
LEMMA AbstractFacts ==
    ASSUME ChannelInv
    PROVE  /\ buffer \in Slotted /\ head \in Counters /\ head \in Nat
           /\ Length \in Nat /\ Len(Contents) = Length
           /\ Contents = << >> <=> tail = head
<1>1. /\ buffer \in Slotted /\ head \in Counters /\ tail \in Counters /\ head \in Nat
      /\ Length \in Nat
  BY ChannelFacts, ChannelAssumption DEF Slotted, Counters
<1>2. Contents \in Seq(Messages \cup {NoMessage}) /\ Len(Contents) = Length
  BY <1>1, RingFacts, ContentsRing
<1>3. Length = 0 <=> tail = head
  BY <1>1, Distance DEF Length
<1> QED BY <1>1, <1>2, <1>3, EmptySeq

LEMMA SendRefines ==
    ASSUME ChannelInv, NEW t \in Producers,
           \/ \E m \in Messages : SendBegin(t, m)
           \/ SendCheck(t) \/ SendWrite(t) \/ SendStore(t)
    PROVE  [Abstract!Next]_(Abstract!vars)
<1> USE DEF Goto
<1>1. /\ buffer \in Slotted /\ head \in Counters /\ head \in Nat
      /\ Length \in Nat /\ Len(Contents) = Length
  BY AbstractFacts
<1>2. /\ t \in Threads /\ Sending(t) /\ tail \in Counters /\ Length <= Capacity
      /\ Capacity \in Nat
  BY ChannelFacts DEF ChannelInv, Threads
<1>3. ASSUME UNCHANGED <<buffer, head, tail, sent, got>> PROVE UNCHANGED Abstract!vars
  BY <1>3 DEF Abstract!vars, Contents
<1>4. ASSUME NEW m \in Messages, SendBegin(t, m) PROVE UNCHANGED Abstract!vars
  BY <1>3, <1>4 DEF SendBegin
<1>5. CASE SendCheck(t)
  <2>1. Used(mine[t], head) = Length
    BY <1>2, <1>5 DEF SendCheck, Sending, Used, Length
  <2>2. CASE Length >= Capacity
    <3>1. sent' = "err" /\ UNCHANGED <<buffer, head, tail, got>>
      BY <1>5, <2>1, <2>2 DEF SendCheck
    <3>2. Length = Capacity
      BY <1>1, <1>2, <2>2
    <3>3. Contents' = Contents
      BY <3>1 DEF Contents
    <3> QED BY <1>1, <3>1, <3>2, <3>3 DEF Abstract!Next, Abstract!SendFull
  <2>3. CASE ~(Length >= Capacity)
    BY <1>3, <1>5, <2>1, <2>3 DEF SendCheck
  <2> QED BY <2>2, <2>3
<1>6. CASE SendWrite(t)
  <2>1. mine[t] = tail /\ msg[t] \in Messages /\ Length < Capacity
    BY <1>2, <1>6 DEF SendWrite, Sending
  <2>2. /\ UNCHANGED <<head, tail, sent, got>>
        /\ buffer' = [buffer EXCEPT ![tail % Capacity] = msg[t]]
    BY <1>6, <2>1 DEF SendWrite
  <2>3. buffer' \in Slotted
    BY <1>1, <2>1, <2>2 DEF Slotted
  <2>4. ASSUME NEW j \in 0 .. Length - 1
        PROVE  buffer[(head + j) % Capacity] = buffer'[(head + j) % Capacity]
    <3>1. j \in Nat /\ j < WrappingSub(tail, head)
      BY <1>1 DEF Length
    <3>2. (head + j) % Capacity # tail % Capacity
      BY <1>1, <1>2, <2>1, <3>1, SlotFree DEF Length
    <3>3. (head + j) % Capacity \in Slots
      BY <1>1, <3>1, ChannelAssumption DEF Slots
    <3> QED BY <1>1, <2>2, <3>2, <3>3 DEF Slotted
  <2>5. Ring(buffer, head, Length) = Ring(buffer', head, Length)
    BY <1>1, <2>3, <2>4, RingSame
  <2>6. Contents' = Contents
    BY <2>2, <2>5, ContentsRing DEF Length
  <2> QED BY <2>2, <2>6 DEF Abstract!vars
<1>7. CASE SendStore(t)
  <2>1. /\ mine[t] = tail /\ msg[t] \in Messages /\ Length < Capacity
        /\ buffer[tail % Capacity] = msg[t]
    BY <1>2, <1>7 DEF SendStore, Sending
  <2>2. /\ UNCHANGED <<head, buffer, got>> /\ sent' = "ok"
        /\ tail' = (tail + 1) % Word
    BY <1>7, <2>1 DEF SendStore
  <2>3. Length' = Length + 1
    BY <1>1, <1>2, <2>1, <2>2, DistanceUp DEF Length
  <2>4. buffer[(head + Length) % Capacity] = msg[t]
    BY <1>1, <1>2, <2>1, Distance DEF Length
  <2>5. Ring(buffer, head, Length + 1) = Append(Ring(buffer, head, Length), msg[t])
    BY <1>1, <2>4, RingAppend
  <2>6. Contents' = Append(Contents, msg[t])
    BY <2>2, <2>3, <2>5, ContentsRing
  <2>7. Abstract!Send(msg[t])
    BY <1>1, <2>1, <2>2, <2>6 DEF Abstract!Send
  <2> QED BY <2>1, <2>7 DEF Abstract!Next
<1> QED BY <1>4, <1>5, <1>6, <1>7

LEMMA RecvRefines ==
    ASSUME ChannelInv, NEW t \in Consumers,
           RecvBegin(t) \/ RecvCheck(t) \/ RecvRead(t) \/ RecvStore(t)
    PROVE  [Abstract!Next]_(Abstract!vars)
<1> USE DEF Goto
<1>1. /\ buffer \in Slotted /\ head \in Counters /\ head \in Nat
      /\ Length \in Nat /\ Len(Contents) = Length
      /\ Contents = << >> <=> tail = head
  BY AbstractFacts
<1>2. t \in Threads /\ Receiving(t) /\ tail \in Counters
  BY ChannelFacts DEF ChannelInv, Threads
<1>3. ASSUME UNCHANGED <<buffer, head, tail, sent, got>> PROVE UNCHANGED Abstract!vars
  BY <1>3 DEF Abstract!vars, Contents
<1>4. CASE RecvBegin(t) \/ RecvRead(t)
  BY <1>3, <1>4 DEF RecvBegin, RecvRead
<1>5. CASE RecvCheck(t)
  <2>1. mine[t] = head
    BY <1>2, <1>5 DEF RecvCheck, Receiving
  <2>2. CASE head = tail
    <3>1. got' = NoMessage /\ UNCHANGED <<buffer, head, tail, sent>>
      BY <1>5, <2>1, <2>2 DEF RecvCheck
    <3>2. Contents' = Contents
      BY <3>1 DEF Contents
    <3> QED BY <1>1, <2>2, <3>1, <3>2 DEF Abstract!Next, Abstract!RecvEmpty
  <2>3. CASE head # tail
    BY <1>3, <1>5, <2>1, <2>3 DEF RecvCheck
  <2> QED BY <2>2, <2>3
<1>6. CASE RecvStore(t)
  <2>1. mine[t] = head /\ tail # head /\ buffer[head % Capacity] = msg[t]
    BY <1>2, <1>6 DEF RecvStore, Receiving
  <2>2. /\ UNCHANGED <<tail, buffer, sent>> /\ got' = msg[t]
        /\ head' = (head + 1) % Word
    BY <1>6, <2>1 DEF RecvStore
  <2>3. Length' = Length - 1 /\ Length # 0
    BY <1>1, <1>2, <2>1, <2>2, DistanceDown, Distance DEF Length
  <2>4. /\ Head(Contents) = msg[t]
        /\ Ring(buffer, (head + 1) % Word, Length - 1) = Tail(Contents)
    <3>1. Length \in Nat \ {0}
      BY <1>1, <2>3
    <3>2. /\ Head(Ring(buffer, head, Length)) = buffer[head % Capacity]
          /\ Ring(buffer, (head + 1) % Word, Length - 1) = Tail(Ring(buffer, head, Length))
      BY <1>1, <3>1, RingTail
    <3> QED BY <2>1, <3>2, ContentsRing
  <2>5. Contents' = Tail(Contents)
    BY <2>2, <2>3, <2>4, ContentsRing
  <2>6. Abstract!Recv
    BY <1>1, <2>1, <2>2, <2>4, <2>5 DEF Abstract!Recv
  <2> QED BY <2>6 DEF Abstract!Next
<1> QED BY <1>4, <1>5, <1>6

(* ipc.rs:82, ipc.rs:88: every step of a channel used by one sender and one
   receiver, or behind the lock of an endpoint, is a step of the bounded queue or
   changes nothing the queue shows: no message is lost, repeated, reordered or
   torn, however the two calls interleave and wherever the counters wrap. *)
THEOREM ChannelImplementsFifo ==
    ASSUME OnlySafe
    PROVE  Spec => IsFifo
<1>1. Init => Abstract!Init
  <2> SUFFICES ASSUME Init PROVE Abstract!Init
    OBVIOUS
  <2>1. ChannelInv /\ tail = head
    BY ChannelInitially DEF Init
  <2> QED BY <2>1, AbstractFacts DEF Init, Abstract!Init
<1>2. ChannelInv /\ [Next]_vars => [Abstract!Next]_(Abstract!vars)
  <2> SUFFICES ASSUME ChannelInv, [Next]_vars PROVE [Abstract!Next]_(Abstract!vars)
    OBVIOUS
  <2>1. CASE UNCHANGED vars
    BY <2>1 DEF vars, Abstract!vars, Contents
  <2>2. CASE Next
    BY <2>2, SendRefines, RecvRefines DEF Next
  <2> QED BY <2>1, <2>2
<1> QED BY <1>1, <1>2, ChannelInvariant, PTL DEF Spec, IsFifo, Abstract!Spec
=============================================================================
