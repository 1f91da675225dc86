---------------------------- MODULE SchedProofs ----------------------------
(***************************************************************************)
(* Proofs about Sched, for every number of tasks, queue capacity, slice,   *)
(* tag, process and penalty.                                               *)
(***************************************************************************)
EXTENDS Sched, TLAPS, SequenceTheorems, FiniteSetTheorems, FunctionTheorems,
        WellFoundedInduction

(* A non-empty set of naturals has a least element. *)
LEMMA LeastNat ==
    ASSUME NEW T, T \subseteq Nat, T # {}
    PROVE  \E x \in T : \A y \in T : x <= y
<1>1. PICK x \in T : \A y \in T : ~(<<y, x>> \in OpToRel(<, Nat))
  BY WFMin, NatLessThanWellFounded, Zenon
<1>2. ASSUME NEW y \in T PROVE x <= y
  <2>1. ~(<<y, x>> \in OpToRel(<, Nat))
    BY <1>1
  <2>2. ~(y < x)
    BY <2>1 DEF OpToRel
  <2> QED BY <2>2
<1> QED BY <1>2

(* The insertion loop of enqueue stops somewhere, with only larger entries
   behind that place. *)
LEMMA EnqueueAtStops ==
    ASSUME NEW q \in Seq(Tids), NEW v \in Nat, vruntime \in [Tids -> 0..MaxVruntime]
    PROVE  /\ EnqueueAt(q, v) \in 0..Len(q)
           /\ EnqueueAt(q, v) > 0 => vruntime[q[EnqueueAt(q, v)]] <= v
           /\ \A j \in (EnqueueAt(q, v) + 1)..Len(q) : vruntime[q[j]] > v
<1> DEFINE T == {i \in 0..Len(q) : \A j \in (i + 1)..Len(q) : vruntime[q[j]] > v}
<1> USE SchedConstants
<1>1. Len(q) \in T
  OBVIOUS
<1>2. PICK i \in T : \A k \in T : i <= k
  <2> T \subseteq Nat
    OBVIOUS
  <2> HIDE DEF T
  <2> QED BY <1>1, LeastNat
<1>3. i \in 0..Len(q) /\ \A j \in (i + 1)..Len(q) : vruntime[q[j]] > v
  OBVIOUS
<1>4. i > 0 => vruntime[q[i]] <= v
  <2> SUFFICES ASSUME i > 0, ~(vruntime[q[i]] <= v) PROVE FALSE
    OBVIOUS
  <2>1. q[i] \in Tids /\ vruntime[q[i]] \in Nat
    BY <1>3 DEF Tids
  <2>2. i - 1 \in 0..Len(q)
    BY <1>3
  <2>3. \A j \in i..Len(q) : vruntime[q[j]] > v
    BY <1>3, <2>1
  <2>4. i - 1 \in T
    BY <2>2, <2>3
  <2>5. i <= i - 1
    <3> HIDE DEF T
    <3> QED BY <1>2, <2>4
  <2> QED BY <1>3, <2>5
<1>5. \E n \in 0..Len(q) : /\ n > 0 => vruntime[q[n]] <= v
                           /\ \A j \in (n + 1)..Len(q) : vruntime[q[j]] > v
  BY <1>3, <1>4
<1> QED BY <1>5 DEF EnqueueAt

(* What enqueue returns, entry by entry: the queue itself when it is full,
   else the queue with t inserted behind entry EnqueueAt. *)
LEMMA EnqueueInserts ==
    ASSUME NEW q \in Seq(Tids), NEW t \in Tids, NEW v \in Nat,
           vruntime \in [Tids -> 0..MaxVruntime], Len(q) < RqSize
    PROVE  /\ Enqueue(q, t, v) \in Seq(Tids)
           /\ Len(Enqueue(q, t, v)) = Len(q) + 1
           /\ \A k \in 1..EnqueueAt(q, v) : Enqueue(q, t, v)[k] = q[k]
           /\ Enqueue(q, t, v)[EnqueueAt(q, v) + 1] = t
           /\ \A k \in (EnqueueAt(q, v) + 2)..(Len(q) + 1) : Enqueue(q, t, v)[k] = q[k - 1]
<1> DEFINE at == EnqueueAt(q, v)
<1>1. /\ at \in 0..Len(q)
      /\ at > 0 => vruntime[q[at]] <= v
      /\ \A j \in (at + 1)..Len(q) : vruntime[q[j]] > v
  BY EnqueueAtStops
<1>2. Enqueue(q, t, v) = SubSeq(q, 1, at) \o <<t>> \o SubSeq(q, at + 1, Len(q))
  <2>1. ~(Len(q) >= RqSize)
    BY SchedConstants
  <2> QED BY <2>1, Zenon DEF Enqueue
<1> HIDE DEF at
<1>3. /\ SubSeq(q, 1, at) \in Seq(Tids) /\ Len(SubSeq(q, 1, at)) = at
      /\ \A k \in 1..at : SubSeq(q, 1, at)[k] = q[k]
  BY <1>1
<1>4. /\ SubSeq(q, at + 1, Len(q)) \in Seq(Tids)
      /\ Len(SubSeq(q, at + 1, Len(q))) = Len(q) - at
      /\ \A k \in 1..(Len(q) - at) : SubSeq(q, at + 1, Len(q))[k] = q[at + k]
  BY <1>1
<1> DEFINE a == SubSeq(q, 1, at)
           b == SubSeq(q, at + 1, Len(q))
           e == a \o <<t>> \o b
<1> HIDE DEF a, b
<1>5. a \in Seq(Tids) /\ b \in Seq(Tids) /\ Len(a) = at /\ Len(b) = Len(q) - at
  BY <1>3, <1>4 DEF a, b
<1>6. e \in Seq(Tids) /\ Len(e) = Len(q) + 1
  BY <1>1, <1>5
<1>7. /\ \A k \in 1..at : e[k] = a[k]
      /\ e[at + 1] = t
      /\ \A k \in (at + 2)..(Len(q) + 1) : e[k] = b[k - at - 1]
  <2> DEFINE c == a \o <<t>>
  <2>1. /\ c \in Seq(Tids) /\ Len(c) = at + 1
        /\ \A k \in 1..at : c[k] = a[k]
        /\ c[at + 1] = t
    BY <1>1, <1>5
  <2> HIDE DEF c
  <2>2. /\ \A k \in 1..(at + 1) : (c \o b)[k] = c[k]
        /\ \A k \in (at + 2)..(Len(q) + 1) : (c \o b)[k] = b[k - at - 1]
    <3> DEFINE d == c \o b
    <3>1. \A k \in 1..(Len(c) + Len(b)) :
             d[k] = IF k <= Len(c) THEN c[k] ELSE b[k - Len(c)]
      BY <1>5, <2>1, ConcatProperties
    <3> HIDE DEF d
    <3>0. at \in Nat /\ Len(q) \in Nat /\ at <= Len(q)
      BY <1>1
    <3>2. ASSUME NEW k \in 1..(at + 1) PROVE d[k] = c[k]
      <4>1. k \in 1..(Len(c) + Len(b)) /\ k <= Len(c)
        BY <1>5, <2>1, <3>0
      <4> QED BY <3>1, <4>1
    <3>3. ASSUME NEW k \in (at + 2)..(Len(q) + 1) PROVE d[k] = b[k - at - 1]
      <4>1. /\ k \in 1..(Len(c) + Len(b)) /\ ~(k <= Len(c))
            /\ k - Len(c) = k - at - 1
        BY <1>5, <2>1, <3>0
      <4> QED BY <3>1, <4>1
    <3> QED BY <3>2, <3>3 DEF d
  <2>3. e = c \o b
    BY DEF c
  <2> HIDE DEF e
  <2>4. \A k \in 1..at : e[k] = a[k]
    BY <1>1, <2>1, <2>2, <2>3
  <2>5. e[at + 1] = t
    BY <1>1, <2>1, <2>2, <2>3
  <2> QED BY <2>2, <2>3, <2>4, <2>5
<1>8. \A k \in (at + 2)..(Len(q) + 1) : b[k - at - 1] = q[k - 1]
  BY <1>1, <1>4 DEF b
<1>9. \A k \in 1..at : e[k] = q[k]
  BY <1>3, <1>7 DEF a
<1>10. \A k \in (at + 2)..(Len(q) + 1) : e[k] = q[k - 1]
  BY <1>7, <1>8
<1>11. Enqueue(q, t, v) = e
  BY <1>2 DEF a, b
<1> HIDE DEF e
<1> QED BY <1>6, <1>7, <1>9, <1>10, <1>11, Zenon DEF at

(* The same, for a task that is not queued: what the invariants need. *)
LEMMA EnqueueKeeps ==
    ASSUME NEW q \in Seq(Tids), NEW t \in Tids, NEW v \in Nat, NEW P,
           vruntime \in [Tids -> 0..MaxVruntime], Len(q) <= RqSize, v = vruntime[t]
    PROVE  LET e == Enqueue(q, t, v)
           IN  /\ e \in Seq(Tids) /\ Len(e) <= RqSize
               /\ \A k \in DOMAIN e : e[k] = t \/ \E i \in DOMAIN q : e[k] = q[i]
               /\ /\ \A i \in DOMAIN q : q[i] # t
                  /\ \A i, j \in DOMAIN q : q[i] = q[j] => i = j
                  => \A i, j \in DOMAIN e : e[i] = e[j] => i = j
               /\ (\A i, j \in DOMAIN q :
                      i < j /\ q[i] \notin P => vruntime[q[i]] <= vruntime[q[j]])
                  => \A i, j \in DOMAIN e :
                      i < j /\ e[i] \notin P => vruntime[e[i]] <= vruntime[e[j]]
<1> DEFINE e == Enqueue(q, t, v)
<1> DEFINE Inj(s) == \A i, j \in DOMAIN s : s[i] = s[j] => i = j
           Ord(s) == \A i, j \in DOMAIN s :
                       i < j /\ s[i] \notin P => vruntime[s[i]] <= vruntime[s[j]]
<1>1. CASE Len(q) >= RqSize
  <2>1. e = q
    BY <1>1 DEF Enqueue
  <2> HIDE DEF e
  <2> QED BY <2>1 DEF e
<1>2. CASE Len(q) < RqSize
  <2> HIDE DEF e
  <2> DEFINE at == EnqueueAt(q, v)
  <2>1. /\ at \in 0..Len(q)
        /\ at > 0 => vruntime[q[at]] <= v
        /\ \A j \in (at + 1)..Len(q) : vruntime[q[j]] > v
        /\ e \in Seq(Tids)
        /\ Len(e) = Len(q) + 1
        /\ \A k \in 1..at : e[k] = q[k]
        /\ e[at + 1] = t
        /\ \A k \in (at + 2)..(Len(q) + 1) : e[k] = q[k - 1]
    <3>1. /\ e \in Seq(Tids)
          /\ Len(e) = Len(q) + 1
          /\ \A k \in 1..at : e[k] = q[k]
          /\ e[at + 1] = t
          /\ \A k \in (at + 2)..(Len(q) + 1) : e[k] = q[k - 1]
      BY <1>2, EnqueueInserts, Zenon DEF e
    <3> QED BY <3>1, EnqueueAtStops
  <2> HIDE DEF at
  <2>2. at \in Nat /\ Len(q) \in Nat /\ at <= Len(q)
    BY <2>1
  <2>3. DOMAIN e = 1..(Len(q) + 1) /\ DOMAIN q = 1..Len(q)
    BY <2>1
  <2>4. \A k \in 1..Len(q) : q[k] \in Tids /\ vruntime[q[k]] \in Nat
    BY SchedConstants
  <2>5. Len(e) <= RqSize
    BY <1>2, <2>1, <2>2, SchedConstants
  <2>6. \A k \in DOMAIN e : \/ k = at + 1 /\ e[k] = t
                            \/ k \in 1..at /\ k \in DOMAIN q /\ e[k] = q[k]
                            \/ /\ k \in (at + 2)..(Len(q) + 1)
                               /\ k - 1 \in DOMAIN q /\ e[k] = q[k - 1]
    <3> SUFFICES ASSUME NEW k \in 1..(Len(q) + 1)
                 PROVE  \/ k = at + 1 /\ e[k] = t
                        \/ k \in 1..at /\ k \in 1..Len(q) /\ e[k] = q[k]
                        \/ /\ k \in (at + 2)..(Len(q) + 1)
                           /\ k - 1 \in 1..Len(q) /\ e[k] = q[k - 1]
      BY <2>3
    <3>1. \/ k = at + 1
          \/ k \in 1..at /\ k \in 1..Len(q)
          \/ k \in (at + 2)..(Len(q) + 1) /\ k - 1 \in 1..Len(q)
      BY <2>2
    <3> QED BY <2>1, <3>1, Zenon
  <2>7. \A k \in DOMAIN e : e[k] = t \/ \E i \in DOMAIN q : e[k] = q[i]
    BY <2>6
  <2>8. ASSUME \A i \in DOMAIN q : q[i] # t, Inj(q) PROVE Inj(e)
    <3> SUFFICES ASSUME NEW i \in DOMAIN e, NEW j \in DOMAIN e, e[i] = e[j]
                 PROVE  i = j
      OBVIOUS
    <3>1. i \in Int /\ j \in Int /\ i \in 1..(Len(q) + 1) /\ j \in 1..(Len(q) + 1)
      BY <2>2, <2>3
    <3>2. CASE i = at + 1 /\ e[i] = t
      BY <2>6, <2>8, <3>2
    <3>3. CASE i \in 1..at /\ i \in DOMAIN q /\ e[i] = q[i]
      <4>1. CASE j \in 1..at /\ j \in DOMAIN q /\ e[j] = q[j]
        BY <2>8, <3>3, <4>1
      <4>2. CASE /\ j \in (at + 2)..(Len(q) + 1)
                 /\ j - 1 \in DOMAIN q /\ e[j] = q[j - 1]
        <5>1. i = j - 1
          BY <2>8, <3>3, <4>2
        <5> QED BY <2>2, <3>3, <4>2, <5>1
      <4> QED BY <2>6, <2>8, <3>3, <4>1, <4>2
    <3>4. CASE /\ i \in (at + 2)..(Len(q) + 1)
               /\ i - 1 \in DOMAIN q /\ e[i] = q[i - 1]
      <4>1. CASE j \in 1..at /\ j \in DOMAIN q /\ e[j] = q[j]
        <5>1. i - 1 = j
          BY <2>8, <3>4, <4>1
        <5> QED BY <2>2, <3>4, <4>1, <5>1
      <4>2. CASE /\ j \in (at + 2)..(Len(q) + 1)
                 /\ j - 1 \in DOMAIN q /\ e[j] = q[j - 1]
        <5>1. i - 1 = j - 1
          BY <2>8, <3>4, <4>2
        <5> QED BY <2>2, <3>4, <4>2, <5>1
      <4> QED BY <2>6, <2>8, <3>4, <4>1, <4>2
    <3> QED BY <2>6, <3>2, <3>3, <3>4
  <2>9. ASSUME Ord(q) PROVE Ord(e)
    <3> SUFFICES ASSUME NEW i \in DOMAIN e, NEW j \in DOMAIN e, i < j, e[i] \notin P
                 PROVE  vruntime[e[i]] <= vruntime[e[j]]
      OBVIOUS
    <3>1. CASE i = at + 1
      <4>1. j \in (at + 2)..(Len(q) + 1) /\ j - 1 \in (at + 1)..Len(q)
            /\ j - 1 \in 1..Len(q)
        BY <2>2, <2>3, <3>1
      <4>2. e[j] = q[j - 1] /\ e[i] = t
        BY <2>1, <3>1, <4>1, Zenon
      <4>3. vruntime[q[j - 1]] > v
        BY <2>1, <4>1, Zenon
      <4>4. vruntime[q[j - 1]] \in Nat
        BY <2>4, <4>1, Zenon
      <4>5. v <= vruntime[q[j - 1]]
        BY <4>3, <4>4
      <4> QED BY <4>2, <4>5, Zenon
    <3>2. CASE i \in 1..at
      <4>1. e[i] = q[i] /\ i \in DOMAIN q /\ at \in DOMAIN q
        BY <2>1, <2>2, <2>3, <3>2
      <4>2. CASE j = at + 1
        <5>1. vruntime[q[at]] <= v /\ vruntime[q[at]] \in Nat /\ vruntime[q[i]] \in Nat
          BY <2>1, <2>2, <2>3, <2>4, <3>2, <4>1
        <5>2. CASE i = at
          BY <2>1, <4>1, <4>2, <5>1, <5>2
        <5>3. CASE i < at
          <6>1. vruntime[q[i]] <= vruntime[q[at]]
            BY <2>9, <4>1, <5>3
          <6> QED BY <2>1, <4>1, <4>2, <5>1, <6>1
        <5> QED BY <2>2, <3>2, <5>2, <5>3
      <4>3. CASE j # at + 1
        <5>1. PICK n \in DOMAIN q : e[j] = q[n] /\ i < n
          BY <2>2, <2>3, <2>6, <3>2, <4>3
        <5> QED BY <2>9, <4>1, <5>1
      <4> QED BY <4>2, <4>3
    <3>3. CASE i \in (at + 2)..(Len(q) + 1)
      <4>1. /\ e[i] = q[i - 1] /\ e[j] = q[j - 1]
            /\ i - 1 \in DOMAIN q /\ j - 1 \in DOMAIN q /\ i - 1 < j - 1
        <5>1. /\ j \in (at + 2)..(Len(q) + 1)
              /\ i - 1 \in 1..Len(q) /\ j - 1 \in 1..Len(q) /\ i - 1 < j - 1
          BY <2>2, <2>3, <3>3
        <5> QED BY <2>1, <2>3, <3>3, <5>1, Zenon
      <4> QED BY <2>9, <4>1
    <3> QED BY <2>6, <3>1, <3>2, <3>3
  <2> QED BY <2>1, <2>5, <2>7, <2>8, <2>9 DEF e
<1>3. Len(q) >= RqSize \/ Len(q) < RqSize
  BY SchedConstants
<1> QED BY <1>1, <1>2, <1>3

(* The loop of WaitQueue::wake stops at the first entry with the tag. *)
LEMMA WakeFinds ==
    ASSUME NEW tag, wq \in Seq([tag : Tags, task : Tids]),
           \E i \in DOMAIN wq : wq[i].tag = tag
    PROVE  WakeAt(tag) \in DOMAIN wq /\ wq[WakeAt(tag)].tag = tag
<1> DEFINE T == {i \in DOMAIN wq : wq[i].tag = tag}
<1>1. T \subseteq Nat /\ T # {}
  OBVIOUS
<1>2. PICK i \in T : \A k \in T : i <= k
  <2> HIDE DEF T
  <2> QED BY <1>1, LeastNat
<1>3. \A j \in 1..(i - 1) : j \in DOMAIN wq /\ j \notin T
  <2> SUFFICES ASSUME NEW j \in 1..(i - 1) PROVE j \in DOMAIN wq /\ j \notin T
    OBVIOUS
  <2>1. i \in 1..Len(wq)
    OBVIOUS
  <2>2. j \in DOMAIN wq /\ ~(i <= j)
    BY <2>1
  <2> QED BY <1>2, <2>2
<1>4. /\ i \in DOMAIN wq /\ wq[i].tag = tag
      /\ \A j \in 1..(i - 1) : wq[j].tag # tag
  BY <1>3
<1> HIDE DEF T
<1> QED BY <1>4 DEF WakeAt

(* Where position k of a concatenation falls in its second part. *)
LEMMA SecondPart ==
    ASSUME NEW k \in Int, NEW i \in Int, NEW la \in Int, NEW lb \in Int, NEW l \in Int,
           k \in 1..(la + lb), la = i - 1, lb = l - i, ~(k < i)
    PROVE  k - la \in 1..(l - i) /\ ~(k <= la) /\ i + (k - la) = k + 1
  OBVIOUS

(* Removing entry i keeps the others, each once. *)
LEMMA RemoveKeeps ==
    ASSUME NEW S, NEW q \in Seq(S), NEW i \in DOMAIN q
    PROVE  LET e == RemoveWaiter(q, i)
           IN  /\ e \in Seq(S) /\ Len(e) = Len(q) - 1
               /\ \A k \in DOMAIN e : e[k] = q[IF k < i THEN k ELSE k + 1]
<1> DEFINE a == SubSeq(q, 1, i - 1)
           b == SubSeq(q, i + 1, Len(q))
           e == a \o b
<1>1. i \in 1..Len(q) /\ Len(q) \in Nat
  OBVIOUS
<1>2. a \in Seq(S) /\ Len(a) = i - 1 /\ \A k \in 1..(i - 1) : a[k] = q[k]
  BY <1>1
<1>3. b \in Seq(S) /\ Len(b) = Len(q) - i /\ \A k \in 1..(Len(q) - i) : b[k] = q[i + k]
  BY <1>1
<1> HIDE DEF a, b
<1>4. /\ e \in Seq(S) /\ Len(e) = Len(a) + Len(b)
      /\ \A k \in 1..(Len(a) + Len(b)) :
            e[k] = IF k <= Len(a) THEN a[k] ELSE b[k - Len(a)]
  BY <1>2, <1>3, ConcatProperties
<1> HIDE DEF e
<1>5. ASSUME NEW k \in DOMAIN e PROVE e[k] = q[IF k < i THEN k ELSE k + 1]
  <2>1. k \in 1..(Len(a) + Len(b))
    BY <1>4
  <2>2. CASE k < i
    <3>1. k <= Len(a) /\ k \in 1..(i - 1)
      BY <1>1, <1>2, <2>1, <2>2
    <3> QED BY <1>2, <1>4, <2>1, <2>2, <3>1
  <2>3. CASE ~(k < i)
    <3>1. /\ k \in Int /\ Len(a) \in Nat /\ Len(b) \in Nat
          /\ Len(a) = i - 1 /\ Len(b) = Len(q) - i
      BY <1>1, <1>2, <1>3, <2>1
    <3>2. i \in Int /\ Len(q) \in Int /\ Len(a) \in Int /\ Len(b) \in Int
      BY <1>1, <3>1
    <3>3. k - Len(a) \in 1..(Len(q) - i) /\ ~(k <= Len(a)) /\ i + (k - Len(a)) = k + 1
      BY <2>1, <2>3, <3>1, <3>2, SecondPart, Zenon
    <3>4. b[k - Len(a)] = q[i + (k - Len(a))]
      BY <1>3, <3>3, Zenon
    <3>5. e[k] = b[k - Len(a)]
      BY <1>4, <2>1, <3>3, Zenon
    <3> QED BY <2>3, <3>3, <3>4, <3>5
  <2> QED BY <2>2, <2>3
<1>6. RemoveWaiter(q, i) = e
  BY DEF RemoveWaiter, e, a, b
<1>7. Len(e) = Len(q) - 1
  BY <1>1, <1>2, <1>3, <1>4
<1> QED BY <1>4, <1>5, <1>6, <1>7
-----------------------------------------------------------------------------
(* Type correctness *)

(* A waiter is a task. *)
LEMMA WaiterTid ==
    ASSUME TypeOK, NEW i \in DOMAIN wq
    PROVE  wq[i].task \in Tids
<1> DEFINE W == [tag : Tags, task : Tids]
<1>1. wq \in Seq(W)
  BY DEF TypeOK
<1> HIDE DEF W
<1>2. wq[i] \in W
  BY <1>1
<1> QED BY <1>2 DEF W

LEMMA PickTypes ==
    ASSUME TypeOK, PickNext
    PROVE  /\ Head(rq) \in Tids
           /\ rq' \in Seq(Tids) /\ Len(rq') = Len(rq) - 1
           /\ \A i \in DOMAIN rq' : i + 1 \in DOMAIN rq /\ rq'[i] = rq[i + 1]
           /\ state' \in [Tids -> States] /\ current' \in Tids /\ pen' \subseteq Tids
<1>1. rq \in Seq(Tids) /\ rq # <<>> /\ rq' = Tail(rq)
  BY DEF TypeOK, PickNext
<1>2. /\ Head(rq) \in Tids /\ Tail(rq) \in Seq(Tids) /\ Len(Tail(rq)) = Len(rq) - 1
      /\ \A i \in 1..Len(Tail(rq)) : Tail(rq)[i] = rq[i + 1]
  BY <1>1, HeadTailProperties
<1>3. \A i \in 1..Len(Tail(rq)) : i + 1 \in DOMAIN rq
  BY <1>1, <1>2
<1>4. state' \in [Tids -> States] /\ current' \in Tids /\ pen' \subseteq Tids
  BY <1>2 DEF TypeOK, PickNext, States
<1> QED BY <1>1, <1>2, <1>3, <1>4

(* Every step keeps the types; the queue lemmas give the capacities. *)
LEMMA TypeStep == TypeOK /\ CurrentOnCpu /\ [Next]_vars => TypeOK'
<1> SUFFICES ASSUME TypeOK, CurrentOnCpu, [Next]_vars PROVE TypeOK'
  OBVIOUS
<1> USE SchedConstants
<1>1. ASSUME NEW p \in Procs \cup {NullProc}, Spawn(p) PROVE TypeOK'
  <2>1. rq' \in Seq(Tids) /\ Len(rq') <= RqSize
    <3>1. rq' = Enqueue(rq, nextTid, 0) /\ nextTid \in Tids
      BY <1>1 DEF Spawn
    <3>2. CASE Len(rq) >= RqSize
      BY <3>1, <3>2 DEF TypeOK, Enqueue
    <3>3. CASE Len(rq) < RqSize
      BY <3>1, <3>3, EnqueueInserts DEF TypeOK
    <3> QED BY <3>2, <3>3 DEF TypeOK
  <2>2. nextTid' \in 1..(MaxTid + 1)
    BY <1>1 DEF Spawn, Tids
  <2>3. state' \in [Tids -> States] /\ mm' \in [Tids -> Procs \cup {NullProc}]
    BY <1>1 DEF Spawn, TypeOK, States
  <2> QED BY <1>1, <2>1, <2>2, <2>3 DEF Spawn, TypeOK
<1>2. CASE SpawnFails
  <2>1. nextTid' \in 1..(MaxTid + 1)
    BY <1>2 DEF SpawnFails, Tids
  <2> QED BY <1>2, <2>1 DEF SpawnFails, TypeOK
<1>3. CASE Tick
  <2>1. slice' \in Nat /\ vruntime' \in [Tids -> 0..MaxVruntime]
    <3>1. CASE current = NoTask
      BY <1>3, <3>1 DEF Tick, TypeOK
    <3>2. CASE current # NoTask
      <4>1. /\ vruntime' = [vruntime EXCEPT ![current] = vruntime[current] + 1]
            /\ vruntime[current] < MaxVruntime /\ slice' = slice + 1
        BY <1>3, <3>2 DEF Tick
      <4>2. current \in Tids /\ vruntime[current] \in 0..MaxVruntime
        BY <3>2 DEF TypeOK
      <4>3. vruntime[current] + 1 \in 0..MaxVruntime
        BY <4>1, <4>2
      <4> QED BY <4>1, <4>2, <4>3 DEF TypeOK
    <3> QED BY <3>1, <3>2
  <2>2. resched' \in BOOLEAN
    BY <1>3 DEF Tick, TypeOK
  <2> QED BY <1>3, <2>1, <2>2 DEF Tick, TypeOK
<1>4. CASE YieldNow
  BY <1>4 DEF YieldNow, YieldEntry, TypeOK
<1>5. CASE TakeResched
  BY <1>5 DEF TakeResched, YieldEntry, TypeOK
<1>6. CASE YieldTake
  <2>1. rq' \in Seq(Tids) /\ Len(rq') <= RqSize /\ state' \in [Tids -> States]
    <3>1. CASE current = NoTask
      BY <1>6, <3>1 DEF YieldTake, TypeOK
    <3>2. CASE current # NoTask
      <4>1. /\ rq' = Enqueue(rq, current, vruntime[current])
            /\ current \in Tids /\ vruntime[current] \in Nat
        <5>1. current \in Tids /\ vruntime[current] \in 0..MaxVruntime
          BY <3>2 DEF TypeOK
        <5>2. rq' = Enqueue(rq, current, vruntime[current])
          BY <1>6, <3>2, Zenon DEF YieldTake
        <5> QED BY <5>1, <5>2
      <4>2. rq' \in Seq(Tids) /\ Len(rq') <= RqSize
        BY <4>1, EnqueueKeeps DEF TypeOK
      <4>3. state' \in [Tids -> States]
        BY <1>6, <3>2, <4>1 DEF YieldTake, TypeOK, States
      <4> QED BY <4>2, <4>3
    <3> QED BY <3>1, <3>2
  <2> QED BY <1>6, <2>1 DEF YieldTake, TypeOK
<1>7. CASE YieldPick
  <2>1. PickNext
    BY <1>7 DEF YieldPick
  <2>2. /\ rq' \in Seq(Tids) /\ Len(rq') <= RqSize
        /\ state' \in [Tids -> States] /\ current' \in Tids /\ pen' \subseteq Tids
    BY <2>1, PickTypes DEF TypeOK
  <2> QED BY <1>7, <2>2 DEF YieldPick, TypeOK
<1>8. CASE YieldSwitch
  BY <1>8 DEF YieldSwitch, TypeOK, CurrentOnCpu
<1>9. CASE Start
  <2>1. PickNext
    BY <1>9 DEF Start
  <2>2. /\ rq' \in Seq(Tids) /\ Len(rq') <= RqSize
        /\ state' \in [Tids -> States] /\ current' \in Tids /\ pen' \subseteq Tids
    BY <2>1, PickTypes DEF TypeOK
  <2> QED BY <1>9, <2>2 DEF Start, TypeOK
<1>10. CASE StartPanics
  BY <1>10 DEF StartPanics, TypeOK
<1>11. ASSUME NEW tag \in Tags, SleepOn(tag) PROVE TypeOK'
  <2>1. /\ wq' \in Seq([tag : Tags, task : Tids]) /\ Len(wq') <= WqSize
        /\ state' \in [Tids -> States] /\ stale' \subseteq Tids
    <3>1. CASE current = NoTask
      BY <1>11, <3>1 DEF SleepOn, TypeOK
    <3>2. CASE current # NoTask
      <4>1. current \in Tids
        BY <3>2 DEF TypeOK
      <4>2. state' \in [Tids -> States] /\ stale' \subseteq Tids
        BY <1>11, <3>2, <4>1 DEF SleepOn, TypeOK, States
      <4>3. wq' = WqEnqueue(wq, tag, current)
        BY <1>11, <3>2 DEF SleepOn
      <4>4. CASE Len(wq) >= WqSize
        BY <4>2, <4>3, <4>4 DEF WqEnqueue, TypeOK
      <4>5. CASE ~(Len(wq) >= WqSize)
        <5> DEFINE r == [tag |-> tag, task |-> current]
        <5>1. r \in [tag : Tags, task : Tids]
          BY <4>1
        <5>2. wq' = Append(wq, r)
          BY <4>3, <4>5 DEF WqEnqueue
        <5>3. wq \in Seq([tag : Tags, task : Tids]) /\ Len(wq) \in Nat
          BY DEF TypeOK
        <5> HIDE DEF r
        <5>4. wq' \in Seq([tag : Tags, task : Tids]) /\ Len(wq') = Len(wq) + 1
          BY <5>1, <5>2, <5>3, AppendProperties
        <5> QED BY <4>2, <4>5, <5>3, <5>4
      <4> QED BY <4>4, <4>5
    <3> QED BY <3>1, <3>2
  <2> QED BY <1>11, <2>1 DEF SleepOn, TypeOK
<1>12. ASSUME NEW tag \in Tags, WakeUp(tag) PROVE TypeOK'
  <2> DEFINE i == WakeAt(tag)
  <2>1. /\ \E n \in DOMAIN wq : wq[n].tag = tag
        /\ wq' = RemoveWaiter(wq, i)
        /\ state' = [state EXCEPT ![wq[i].task] = "Ready"]
        /\ rq' = Enqueue(rq, wq[i].task, vruntime[wq[i].task])
    BY <1>12 DEF WakeUp
  <2>2. i \in DOMAIN wq
    BY <2>1, WakeFinds DEF TypeOK
  <2> HIDE DEF i
  <2>3. wq[i].task \in Tids /\ vruntime[wq[i].task] \in Nat
    BY <2>2, WaiterTid DEF TypeOK
  <2>4. wq' \in Seq([tag : Tags, task : Tids]) /\ Len(wq') <= WqSize
    <3>1. /\ wq' \in Seq([tag : Tags, task : Tids])
          /\ Len(wq') = Len(wq) - 1
      BY <2>1, <2>2, RemoveKeeps DEF TypeOK
    <3> QED BY <3>1 DEF TypeOK
  <2>5. rq' \in Seq(Tids) /\ Len(rq') <= RqSize
    BY <2>1, <2>3, EnqueueKeeps DEF TypeOK
  <2>6. state' \in [Tids -> States]
    BY <2>1, <2>3 DEF TypeOK, States
  <2> QED BY <1>12, <2>4, <2>5, <2>6 DEF WakeUp, TypeOK
<1>13. CASE Exit
  BY <1>13 DEF Exit, TypeOK, States
<1>14. CASE LeavePick
  <2>1. CASE PickNext /\ pc' = "njump"
    BY <1>14, <2>1, PickTypes DEF LeavePick, TypeOK
  <2>2. CASE rq = <<>> /\ pc' = "halt" /\ UNCHANGED <<rq, state, current, pen>>
    BY <1>14, <2>2 DEF LeavePick, TypeOK
  <2> QED BY <1>14, <2>1, <2>2 DEF LeavePick
<1>15. CASE LeaveJump
  BY <1>15 DEF LeaveJump, TypeOK
<1>16. ASSUME NEW t \in Tids, NEW a \in Amounts, PenalizeTid(t, a) PROVE TypeOK'
  <2>1. SatAdd(vruntime[t], a) \in 0..MaxVruntime
    BY DEF SatAdd, TypeOK
  <2>2. vruntime' \in [Tids -> 0..MaxVruntime] /\ pen' \subseteq Tids
    BY <1>16, <2>1 DEF PenalizeTid, TypeOK
  <2> QED BY <1>16, <2>2 DEF PenalizeTid, TypeOK
<1>17. CASE UNCHANGED vars
  BY <1>17 DEF vars, TypeOK
<1> QED BY <1>1, <1>2, <1>3, <1>4, <1>5, <1>6, <1>7, <1>8, <1>9, <1>10, <1>11,
           <1>12, <1>13, <1>14, <1>15, <1>16, <1>17 DEF Next

LEMMA TypeInit == Init => TypeOK
<1> SUFFICES ASSUME Init PROVE TypeOK
  OBVIOUS
<1> USE SchedConstants
<1>1. rq \in Seq(Tids) /\ Len(rq) <= RqSize
  BY DEF Init
<1>2. wq \in Seq([tag : Tags, task : Tids]) /\ Len(wq) <= WqSize
  BY DEF Init
<1>3. /\ nextTid \in 1..(MaxTid + 1)
      /\ state \in [Tids -> States] /\ vruntime \in [Tids -> 0..MaxVruntime]
      /\ mm \in [Tids -> Procs \cup {NullProc}]
  BY DEF Init, States
<1> QED BY <1>1, <1>2, <1>3 DEF Init, TypeOK

-----------------------------------------------------------------------------
(* The inductive invariant *)

LEMMA InvInit == Init => SchedInv
<1> SUFFICES ASSUME Init PROVE SchedInv
  OBVIOUS
<1>1. TypeOK
  BY TypeInit
<1>2. OnePlace /\ RqOrder
  <2>1. rq = <<>> /\ wq = <<>>
    BY DEF Init
  <2>2. DOMAIN rq = {} /\ DOMAIN wq = {}
    BY <2>1
  <2>3. \A t \in Tids : state[t] = "Running" <=> current = t
    BY SchedConstants DEF Init, Tids, NoTask
  <2> QED BY <2>2, <2>3, Zenon DEF OnePlace, RqOrder
<1>3. CurrentOnCpu /\ FreshTids /\ Leaving
  BY DEF Init, CurrentOnCpu, FreshTids, Leaving
<1> QED BY <1>1, <1>2, <1>3 DEF SchedInv

(* NoTask is not an identifier. *)
LEMMA NoTaskNoTid == NoTask \notin Tids
  BY DEF NoTask, Tids

(* Taking the head keeps the rest of the queue, without the head. *)
LEMMA PickKeeps ==
    ASSUME SchedInv, current = NoTask, PickNext, UNCHANGED <<vruntime, wq>>
    PROVE  OnePlace' /\ RqOrder' /\ state[Head(rq)] = "Ready" /\ Head(rq) \in Tids
<1> USE DEF SchedInv
<1>1. /\ Head(rq) \in Tids /\ Head(rq) = rq[1] /\ 1 \in DOMAIN rq
      /\ \A i \in DOMAIN rq' : i \in Int /\ i >= 1
      /\ \A i \in DOMAIN rq' : i + 1 \in DOMAIN rq /\ rq'[i] = rq[i + 1]
  <2>1. /\ Head(rq) \in Tids /\ rq' \in Seq(Tids)
        /\ \A i \in DOMAIN rq' : i + 1 \in DOMAIN rq /\ rq'[i] = rq[i + 1]
    BY PickTypes
  <2>2. rq \in Seq(Tids) /\ rq # <<>>
    BY DEF TypeOK, PickNext
  <2>3. Head(rq) = rq[1] /\ 1 \in DOMAIN rq
    BY <2>2
  <2>4. \A i \in DOMAIN rq' : i \in Int /\ i >= 1
    BY <2>1
  <2> QED BY <2>1, <2>3, <2>4
<1>2. /\ state' = [state EXCEPT ![rq[1]] = "Running"] /\ current' = rq[1]
      /\ pen' = pen \ {rq[1]}
  BY <1>1 DEF PickNext
<1>3. /\ \A i, j \in DOMAIN rq : rq[i] = rq[j] => i = j
      /\ \A i \in DOMAIN rq : state[rq[i]] = "Ready"
      /\ \A i \in DOMAIN wq : state[wq[i].task] = "Blocked"
      /\ \A i, j \in DOMAIN wq : wq[i].task = wq[j].task => i = j
      /\ \A t \in Tids : state[t] # "Running"
  BY NoTaskNoTid DEF OnePlace
<1>4. ASSUME NEW i \in DOMAIN rq' PROVE rq'[i] # rq[1] /\ rq'[i] \in Tids
  <2>1. i + 1 \in DOMAIN rq /\ rq'[i] = rq[i + 1] /\ i + 1 # 1
    BY <1>1
  <2>2. rq[i + 1] \in Tids
    BY <2>1 DEF TypeOK
  <2> QED BY <1>1, <1>3, <2>1, <2>2
<1>5. \A i, j \in DOMAIN rq' : rq'[i] = rq'[j] => i = j
  <2> SUFFICES ASSUME NEW i \in DOMAIN rq', NEW j \in DOMAIN rq', rq'[i] = rq'[j]
               PROVE  i = j
    OBVIOUS
  <2>1. i + 1 = j + 1
    BY <1>1, <1>3
  <2> QED BY <1>1, <2>1
<1>6. \A i \in DOMAIN rq' : state'[rq'[i]] = "Ready"
  BY <1>1, <1>2, <1>3, <1>4 DEF TypeOK
<1>7. \A i \in DOMAIN wq : state'[wq[i].task] = "Blocked"
  <2> SUFFICES ASSUME NEW i \in DOMAIN wq PROVE state'[wq[i].task] = "Blocked"
    OBVIOUS
  <2>1. state[wq[i].task] = "Blocked" /\ state[rq[1]] = "Ready"
    BY <1>1, <1>3
  <2>2. wq[i].task # rq[1]
    BY <2>1
  <2>3. wq[i].task \in DOMAIN state
    BY WaiterTid DEF TypeOK
  <2> QED BY <1>2, <2>1, <2>2, <2>3
<1>8. \A t \in Tids : state'[t] = "Running" <=> current' = t
  BY <1>1, <1>2, <1>3 DEF TypeOK
<1>9. OnePlace'
  BY <1>3, <1>5, <1>6, <1>7, <1>8 DEF OnePlace
<1>10. RqOrder'
  <2> SUFFICES ASSUME NEW i \in DOMAIN rq', NEW j \in DOMAIN rq', i < j, rq'[i] \notin pen'
               PROVE  vruntime[rq'[i]] <= vruntime[rq'[j]]
    BY DEF RqOrder
  <2>1. rq'[i] \notin pen
    BY <1>2, <1>4
  <2>2. i + 1 < j + 1
    BY <1>1
  <2> QED BY <1>1, <2>1, <2>2 DEF RqOrder
<1> QED BY <1>1, <1>3, <1>9, <1>10

(* A task that is not Ready is in no queue entry, so enqueueing it as Ready
   keeps the run queue free of duplicates and ordered. *)
LEMMA EnqueueReady ==
    ASSUME SchedInv, NEW t \in Tids, state[t] # "Ready",
           rq' = Enqueue(rq, t, vruntime[t]),
           state' = [state EXCEPT ![t] = "Ready"],
           UNCHANGED <<vruntime, pen>>
    PROVE  /\ \A i, j \in DOMAIN rq' : rq'[i] = rq'[j] => i = j
           /\ \A i \in DOMAIN rq' : state'[rq'[i]] = "Ready"
           /\ RqOrder'
<1> USE DEF SchedInv
<1>1. \A i \in DOMAIN rq : rq[i] # t
  BY DEF OnePlace
<1>2. /\ rq \in Seq(Tids) /\ vruntime[t] \in Nat /\ Len(rq) <= RqSize
      /\ vruntime \in [Tids -> 0..MaxVruntime]
  BY SchedConstants DEF TypeOK
<1>3. \A i, j \in DOMAIN rq : rq[i] = rq[j] => i = j
  BY DEF OnePlace
<1>4. \A i, j \in DOMAIN rq : i < j /\ rq[i] \notin pen => vruntime[rq[i]] <= vruntime[rq[j]]
  BY DEF RqOrder
<1> DEFINE e == Enqueue(rq, t, vruntime[t])
<1>5. /\ e \in Seq(Tids)
      /\ \A k \in DOMAIN e : e[k] = t \/ \E i \in DOMAIN rq : e[k] = rq[i]
      /\ \A i, j \in DOMAIN e : e[i] = e[j] => i = j
      /\ \A i, j \in DOMAIN e : i < j /\ e[i] \notin pen => vruntime[e[i]] <= vruntime[e[j]]
  BY <1>1, <1>2, <1>3, <1>4, EnqueueKeeps, Zenon
<1> HIDE DEF e
<1>6. rq' = e
  BY DEF e
<1>7. \A i \in DOMAIN rq' : state'[rq'[i]] = "Ready"
  <2> SUFFICES ASSUME NEW i \in DOMAIN e PROVE state'[e[i]] = "Ready"
    BY <1>6
  <2>1. e[i] = t \/ state[e[i]] = "Ready"
    BY <1>5 DEF OnePlace
  <2>2. e[i] \in Tids
    BY <1>5
  <2> QED BY <2>1, <2>2 DEF TypeOK
<1>8. RqOrder'
  BY <1>5, <1>6 DEF RqOrder
<1> QED BY <1>5, <1>6, <1>7, <1>8

(* Steps that leave the queues and the task states alone. *)
LEMMA SamePlaces ==
    ASSUME SchedInv, UNCHANGED <<rq, wq, state, current>>
    PROVE  OnePlace'
  BY DEF SchedInv, OnePlace

LEMMA SameOrder ==
    ASSUME SchedInv, UNCHANGED <<rq, vruntime, pen>>
    PROVE  RqOrder'
  BY DEF SchedInv, RqOrder

LEMMA InvStep == SchedInv /\ [Next]_vars => SchedInv'
<1> SUFFICES ASSUME SchedInv, [Next]_vars PROVE SchedInv'
  OBVIOUS
<1>0. TypeOK'
  BY TypeStep DEF SchedInv
<1> USE SchedConstants, NoTaskNoTid
<1>1. ASSUME NEW p \in Procs \cup {NullProc}, Spawn(p) PROVE SchedInv'
  <2>1. /\ nextTid \in Tids /\ state[nextTid] = "None" /\ vruntime[nextTid] = 0
        /\ nextTid \in Int
    BY <1>1 DEF Spawn, SchedInv, FreshTids, Tids
  <2>2. /\ rq' = Enqueue(rq, nextTid, vruntime[nextTid])
        /\ state' = [state EXCEPT ![nextTid] = "Ready"]
        /\ UNCHANGED <<vruntime, pen, wq, current, cpu, pc>>
    BY <1>1, <2>1 DEF Spawn
  <2>3. /\ \A i, j \in DOMAIN rq' : rq'[i] = rq'[j] => i = j
        /\ \A i \in DOMAIN rq' : state'[rq'[i]] = "Ready"
        /\ RqOrder'
    BY <2>1, <2>2, EnqueueReady
  <2>4. \A i \in DOMAIN wq : state'[wq[i].task] = "Blocked"
    BY <2>1, <2>2, WaiterTid DEF SchedInv, OnePlace, TypeOK
  <2>5. \A t \in Tids : state'[t] = "Running" <=> current' = t
    BY <2>1, <2>2 DEF SchedInv, OnePlace, TypeOK
  <2>6. OnePlace'
    BY <2>2, <2>3, <2>4, <2>5 DEF SchedInv, OnePlace
  <2>7. CurrentOnCpu' /\ Leaving'
    BY <1>1, <2>2 DEF SchedInv, CurrentOnCpu, Leaving, Spawn, Running
  <2>8. FreshTids'
    BY <1>1, <2>1, <2>2 DEF SchedInv, FreshTids, Spawn, TypeOK, Tids
  <2> QED BY <1>0, <2>3, <2>6, <2>7, <2>8 DEF SchedInv
<1>2. CASE SpawnFails
  <2>1. OnePlace' /\ RqOrder'
    BY <1>2, SamePlaces, SameOrder DEF SpawnFails
  <2>2. FreshTids'
    BY <1>2 DEF SchedInv, FreshTids, SpawnFails, Tids
  <2>3. CurrentOnCpu' /\ Leaving'
    BY <1>2 DEF SchedInv, CurrentOnCpu, Leaving, SpawnFails
  <2> QED BY <1>0, <2>1, <2>2, <2>3 DEF SchedInv
<1>3. CASE Tick
  <2>1. UNCHANGED <<rq, wq, state, current, pen, nextTid, cpu, pc>>
    BY <1>3 DEF Tick
  <2>2. \A t \in Tids : t # current => vruntime'[t] = vruntime[t]
    BY <1>3 DEF Tick, SchedInv, TypeOK
  <2>3. \A i \in DOMAIN rq : rq[i] \in Tids /\ rq[i] # current
    BY DEF SchedInv, OnePlace, TypeOK
  <2>4. RqOrder'
    BY <2>1, <2>2, <2>3 DEF SchedInv, RqOrder
  <2>5. FreshTids'
    <3>1. current # NoTask => state[current] = "Running"
      BY DEF SchedInv, OnePlace, TypeOK
    <3> QED BY <2>1, <2>2, <3>1 DEF SchedInv, FreshTids, TypeOK
  <2>6. CurrentOnCpu' /\ Leaving'
    BY <2>1 DEF SchedInv, CurrentOnCpu, Leaving
  <2> QED BY <1>0, <2>1, <2>4, <2>5, <2>6, SamePlaces DEF SchedInv
<1>4. CASE YieldNow \/ TakeResched
  <2>1. YieldEntry
    BY <1>4 DEF YieldNow, TakeResched
  <2>2. OnePlace' /\ RqOrder'
    BY <2>1, SamePlaces, SameOrder DEF YieldEntry
  <2>3. FreshTids' /\ CurrentOnCpu' /\ Leaving'
    BY <2>1 DEF YieldEntry, SchedInv, FreshTids, CurrentOnCpu, Leaving, Running
  <2> QED BY <1>0, <2>2, <2>3 DEF SchedInv
<1>5. CASE YieldTake
  <2>1. CASE current = NoTask
    <3>1. UNCHANGED <<rq, wq, state, current, vruntime, pen, nextTid>> /\ pc' = "ypick"
      BY <1>5, <2>1 DEF YieldTake
    <3>2. OnePlace' /\ RqOrder'
      BY <3>1, SamePlaces, SameOrder
    <3>3. FreshTids' /\ CurrentOnCpu' /\ Leaving'
      BY <2>1, <3>1 DEF SchedInv, FreshTids, CurrentOnCpu, Leaving
    <3> QED BY <1>0, <3>2, <3>3 DEF SchedInv
  <2>2. CASE current # NoTask
    <3>1. /\ current \in Tids /\ state[current] = "Running"
          /\ \A t \in Tids : t # current => state[t] # "Running"
      BY <2>2 DEF SchedInv, TypeOK, OnePlace
    <3>2. /\ rq' = Enqueue(rq, current, vruntime[current])
          /\ state' = [state EXCEPT ![current] = "Ready"]
          /\ current' = NoTask /\ pc' = "ypick"
          /\ UNCHANGED <<vruntime, pen, wq, nextTid, cpu>>
      BY <1>5, <2>2 DEF YieldTake
    <3>3. /\ \A i, j \in DOMAIN rq' : rq'[i] = rq'[j] => i = j
          /\ \A i \in DOMAIN rq' : state'[rq'[i]] = "Ready"
          /\ RqOrder'
      BY <3>1, <3>2, EnqueueReady
    <3>4. \A i \in DOMAIN wq : state'[wq[i].task] = "Blocked"
      BY <3>1, <3>2, WaiterTid DEF SchedInv, OnePlace, TypeOK
    <3>5. \A t \in Tids : state'[t] = "Running" <=> current' = t
      BY <3>1, <3>2 DEF SchedInv, TypeOK
    <3>6. OnePlace'
      BY <3>2, <3>3, <3>4, <3>5 DEF SchedInv, OnePlace
    <3>7. FreshTids' /\ CurrentOnCpu' /\ Leaving'
      BY <3>1, <3>2 DEF SchedInv, FreshTids, CurrentOnCpu, Leaving, TypeOK
    <3> QED BY <1>0, <3>3, <3>6, <3>7 DEF SchedInv
  <2> QED BY <2>1, <2>2
<1>6. CASE YieldPick
  <2>1. PickNext /\ current = NoTask /\ UNCHANGED <<vruntime, wq, nextTid, cpu>>
    BY <1>6 DEF YieldPick, SchedInv, CurrentOnCpu
  <2>2. OnePlace' /\ RqOrder' /\ state[Head(rq)] = "Ready" /\ Head(rq) \in Tids
    BY <2>1, PickKeeps
  <2>3. FreshTids'
    BY <2>1, <2>2 DEF PickNext, SchedInv, FreshTids, TypeOK
  <2>4. CurrentOnCpu' /\ Leaving'
    BY <1>6, <2>1, <2>2 DEF YieldPick, PickNext, CurrentOnCpu, Leaving
  <2> QED BY <1>0, <2>2, <2>3, <2>4 DEF SchedInv
<1>7. CASE YieldSwitch
  <2>1. OnePlace' /\ RqOrder'
    BY <1>7, SamePlaces, SameOrder DEF YieldSwitch
  <2>2. FreshTids' /\ CurrentOnCpu' /\ Leaving'
    BY <1>7 DEF YieldSwitch, SchedInv, FreshTids, CurrentOnCpu, Leaving
  <2> QED BY <1>0, <2>1, <2>2 DEF SchedInv
<1>8. CASE Start
  <2>1. PickNext /\ current = NoTask /\ UNCHANGED <<vruntime, wq, nextTid, cpu>>
    BY <1>8 DEF Start, Running, SchedInv, CurrentOnCpu
  <2>2. OnePlace' /\ RqOrder' /\ state[Head(rq)] = "Ready" /\ Head(rq) \in Tids
    BY <2>1, PickKeeps
  <2>3. FreshTids'
    BY <2>1, <2>2 DEF PickNext, SchedInv, FreshTids, TypeOK
  <2>4. CurrentOnCpu' /\ Leaving'
    BY <1>8, <2>1, <2>2 DEF Start, PickNext, CurrentOnCpu, Leaving
  <2> QED BY <1>0, <2>2, <2>3, <2>4 DEF SchedInv
<1>9. CASE StartPanics
  <2>1. OnePlace' /\ RqOrder'
    BY <1>9, SamePlaces, SameOrder DEF StartPanics
  <2>2. FreshTids' /\ CurrentOnCpu' /\ Leaving'
    BY <1>9 DEF StartPanics, Running, SchedInv, FreshTids, CurrentOnCpu, Leaving
  <2> QED BY <1>0, <2>1, <2>2 DEF SchedInv
<1>10. ASSUME NEW tag \in Tags, SleepOn(tag) PROVE SchedInv'
  <2>0. /\ pc = "run" /\ cpu = current /\ current' = NoTask /\ pc' = "npick"
        /\ UNCHANGED <<nextTid, vruntime, rq, pen, cpu>>
    BY <1>10 DEF SleepOn, Running, SchedInv, CurrentOnCpu
  <2>1. CASE current = NoTask
    <3>1. UNCHANGED <<wq, state, current>>
      BY <1>10, <2>0, <2>1 DEF SleepOn
    <3>2. OnePlace' /\ RqOrder'
      BY <2>0, <3>1, SamePlaces, SameOrder
    <3>3. FreshTids' /\ CurrentOnCpu' /\ Leaving'
      BY <2>0, <2>1, <3>1 DEF SchedInv, FreshTids, CurrentOnCpu, Leaving
    <3> QED BY <1>0, <3>2, <3>3 DEF SchedInv
  <2>2. CASE current # NoTask
    <3>1. /\ current \in Tids /\ state[current] = "Running"
          /\ \A t \in Tids : t # current => state[t] # "Running"
      BY <2>2 DEF SchedInv, TypeOK, OnePlace
    <3>2. /\ state' = [state EXCEPT ![current] = "Blocked"]
          /\ wq' = WqEnqueue(wq, tag, current)
      BY <1>10, <2>2 DEF SleepOn
    <3>3. \A i \in DOMAIN rq : rq[i] \in Tids /\ state'[rq[i]] = "Ready"
      BY <3>1, <3>2 DEF SchedInv, OnePlace, TypeOK
    <3>4. \A i \in DOMAIN wq : state'[wq[i].task] = "Blocked" /\ wq[i].task # current
      BY <3>1, <3>2, WaiterTid DEF SchedInv, OnePlace, TypeOK
    <3>5. \A t \in Tids : state'[t] = "Running" <=> current' = t
      BY <2>0, <3>1, <3>2 DEF SchedInv, TypeOK
    <3>6. /\ \A i, j \in DOMAIN wq' : wq'[i].task = wq'[j].task => i = j
          /\ \A i \in DOMAIN wq' : state'[wq'[i].task] = "Blocked"
      <4>1. \A i, j \in DOMAIN wq : wq[i].task = wq[j].task => i = j
        BY DEF SchedInv, OnePlace
      <4>2. CASE wq' = wq
        BY <3>4, <4>1, <4>2
      <4>3. CASE wq' = Append(wq, [tag |-> tag, task |-> current])
        <5> DEFINE n == Len(wq) + 1
        <5>1. wq \in Seq([tag : Tags, task : Tids])
          BY DEF SchedInv, TypeOK
        <5>2. /\ DOMAIN wq = 1..Len(wq) /\ DOMAIN wq' = 1..n /\ Len(wq) \in Nat
              /\ wq'[n].task = current
              /\ \A i \in DOMAIN wq : wq'[i] = wq[i]
          BY <4>3, <5>1
        <5>3. \A i \in 1..n : i = n \/ i \in DOMAIN wq
          BY <5>2
        <5> HIDE DEF n
        <5>4. state'[current] = "Blocked"
          BY <3>1, <3>2 DEF SchedInv, TypeOK
        <5>5. \A i \in DOMAIN wq' : \/ i = n /\ wq'[i].task = current
                                    \/ i \in DOMAIN wq /\ wq'[i].task = wq[i].task
          BY <5>2, <5>3
        <5>6. \A i \in DOMAIN wq' : state'[wq'[i].task] = "Blocked"
          BY <3>4, <5>4, <5>5, Zenon
        <5>7. \A i, j \in DOMAIN wq' : wq'[i].task = wq'[j].task => i = j
          BY <3>4, <4>1, <5>5
        <5> QED BY <5>6, <5>7
      <4> QED BY <3>2, <4>2, <4>3 DEF WqEnqueue
    <3>7. OnePlace'
      BY <2>0, <3>3, <3>5, <3>6 DEF SchedInv, OnePlace
    <3>8. FreshTids' /\ CurrentOnCpu' /\ Leaving'
      BY <2>0, <3>1, <3>2 DEF SchedInv, FreshTids, CurrentOnCpu, Leaving, TypeOK
    <3> QED BY <1>0, <2>0, <3>7, <3>8, SameOrder DEF SchedInv
  <2> QED BY <2>1, <2>2
<1>11. ASSUME NEW tag \in Tags, WakeUp(tag) PROVE SchedInv'
  <2> DEFINE n == WakeAt(tag)
             t == wq[n].task
  <2>1. /\ \E k \in DOMAIN wq : wq[k].tag = tag
        /\ wq' = RemoveWaiter(wq, n)
        /\ state' = [state EXCEPT ![t] = "Ready"]
        /\ rq' = Enqueue(rq, t, vruntime[t])
        /\ UNCHANGED <<nextTid, vruntime, current, cpu, pc, pen>> /\ pc = "run"
    BY <1>11 DEF WakeUp, Running
  <2>2. n \in DOMAIN wq
    BY <2>1, WakeFinds DEF SchedInv, TypeOK
  <2> HIDE DEF n
  <2>3. t \in Tids /\ state[t] = "Blocked"
    BY <2>2, WaiterTid DEF SchedInv, OnePlace
  <2>4. \A k \in DOMAIN wq : k # n => wq[k].task # t
    BY <2>2 DEF SchedInv, OnePlace
  <2>5. /\ \A i, j \in DOMAIN rq' : rq'[i] = rq'[j] => i = j
        /\ \A i \in DOMAIN rq' : state'[rq'[i]] = "Ready"
        /\ RqOrder'
    <3> HIDE DEF t
    <3> QED BY <2>1, <2>3, EnqueueReady
  <2>6. /\ \A i, j \in DOMAIN wq' : wq'[i].task = wq'[j].task => i = j
        /\ \A i \in DOMAIN wq' : state'[wq'[i].task] = "Blocked"
    <3> DEFINE at(k) == IF k < n THEN k ELSE k + 1
    <3>1. \A k \in DOMAIN wq' : /\ at(k) \in DOMAIN wq /\ at(k) # n
                                /\ k \in Int /\ wq'[k] = wq[at(k)]
      <4>1. wq \in Seq([tag : Tags, task : Tids])
        BY DEF SchedInv, TypeOK
      <4>2. /\ wq' \in Seq([tag : Tags, task : Tids]) /\ Len(wq') = Len(wq) - 1
            /\ \A k \in DOMAIN wq' : wq'[k] = wq[at(k)]
        BY <2>1, <2>2, <4>1, RemoveKeeps
      <4>3. \A k \in DOMAIN wq' : at(k) \in DOMAIN wq /\ at(k) # n /\ k \in Int
        BY <2>2, <4>1, <4>2
      <4> QED BY <4>2, <4>3
    <3>2. n \in Int
      BY <2>2 DEF SchedInv, TypeOK
    <3>3. \A k, l \in DOMAIN wq' : at(k) = at(l) => k = l
      BY <3>1, <3>2
    <3>4. \A k \in DOMAIN wq : k # n => state'[wq[k].task] = "Blocked"
      BY <2>1, <2>3, <2>4, WaiterTid DEF SchedInv, OnePlace, TypeOK
    <3> HIDE DEF at
    <3> QED BY <3>1, <3>3, <3>4 DEF SchedInv, OnePlace
  <2>7. \A x \in Tids : state'[x] = "Running" <=> current' = x
    BY <2>1, <2>3 DEF SchedInv, OnePlace, TypeOK
  <2>8. OnePlace'
    BY <2>5, <2>6, <2>7 DEF OnePlace
  <2>9. FreshTids' /\ CurrentOnCpu' /\ Leaving'
    BY <2>1, <2>3 DEF SchedInv, FreshTids, CurrentOnCpu, Leaving, TypeOK
  <2> QED BY <1>0, <2>5, <2>8, <2>9 DEF SchedInv
<1>12. CASE Exit
  <2>0. /\ pc = "run" /\ cpu = current /\ current' = NoTask /\ pc' = "npick"
        /\ UNCHANGED <<nextTid, vruntime, rq, wq, pen, cpu>>
    BY <1>12 DEF Exit, Running, SchedInv, CurrentOnCpu
  <2>1. CASE current = NoTask
    <3>1. UNCHANGED <<wq, state, current>>
      BY <1>12, <2>0, <2>1 DEF Exit
    <3>2. OnePlace' /\ RqOrder'
      BY <2>0, <3>1, SamePlaces, SameOrder
    <3>3. FreshTids' /\ CurrentOnCpu' /\ Leaving'
      BY <2>0, <2>1, <3>1 DEF SchedInv, FreshTids, CurrentOnCpu, Leaving
    <3> QED BY <1>0, <3>2, <3>3 DEF SchedInv
  <2>2. CASE current # NoTask
    <3>1. /\ current \in Tids /\ state[current] = "Running"
          /\ \A t \in Tids : t # current => state[t] # "Running"
      BY <2>2 DEF SchedInv, TypeOK, OnePlace
    <3>2. state' = [state EXCEPT ![current] = "Zombie"]
      BY <1>12, <2>2 DEF Exit
    <3>3. \A i \in DOMAIN rq : rq[i] \in Tids /\ state'[rq[i]] = "Ready"
      BY <3>1, <3>2 DEF SchedInv, OnePlace, TypeOK
    <3>4. \A i \in DOMAIN wq : state'[wq[i].task] = "Blocked"
      BY <3>1, <3>2, WaiterTid DEF SchedInv, OnePlace, TypeOK
    <3>5. \A t \in Tids : state'[t] = "Running" <=> current' = t
      BY <2>0, <3>1, <3>2 DEF SchedInv, TypeOK
    <3>6. OnePlace'
      BY <2>0, <3>3, <3>4, <3>5 DEF SchedInv, OnePlace
    <3>7. FreshTids' /\ CurrentOnCpu' /\ Leaving'
      BY <2>0, <3>1, <3>2 DEF SchedInv, FreshTids, CurrentOnCpu, Leaving, TypeOK
    <3> QED BY <1>0, <2>0, <3>6, <3>7, SameOrder DEF SchedInv
  <2> QED BY <2>1, <2>2
<1>13. CASE LeavePick
  <2>0. pc = "npick" /\ current = NoTask /\ UNCHANGED <<vruntime, wq, nextTid, cpu>>
    BY <1>13 DEF LeavePick, SchedInv, CurrentOnCpu
  <2>1. CASE PickNext /\ pc' = "njump"
    <3>1. OnePlace' /\ RqOrder' /\ state[Head(rq)] = "Ready" /\ Head(rq) \in Tids
      BY <2>0, <2>1, PickKeeps
    <3>2. FreshTids'
      BY <2>0, <2>1, <3>1 DEF PickNext, SchedInv, FreshTids, TypeOK
    <3>3. cpu # Head(rq)
      BY <2>0, <3>1 DEF SchedInv, Leaving
    <3>4. CurrentOnCpu' /\ Leaving'
      BY <2>0, <2>1, <3>1, <3>3 DEF PickNext, CurrentOnCpu, Leaving
    <3> QED BY <1>0, <3>1, <3>2, <3>4 DEF SchedInv
  <2>2. CASE rq = <<>> /\ pc' = "halt" /\ UNCHANGED <<rq, state, current, pen>>
    <3>1. OnePlace' /\ RqOrder'
      BY <2>0, <2>2, SamePlaces, SameOrder
    <3>2. FreshTids' /\ CurrentOnCpu' /\ Leaving'
      BY <2>0, <2>2 DEF SchedInv, FreshTids, CurrentOnCpu, Leaving
    <3> QED BY <1>0, <3>1, <3>2 DEF SchedInv
  <2> QED BY <1>13, <2>1, <2>2 DEF LeavePick
<1>14. CASE LeaveJump
  <2>1. OnePlace' /\ RqOrder'
    BY <1>14, SamePlaces, SameOrder DEF LeaveJump
  <2>2. FreshTids' /\ CurrentOnCpu' /\ Leaving'
    BY <1>14 DEF LeaveJump, SchedInv, FreshTids, CurrentOnCpu, Leaving
  <2> QED BY <1>0, <2>1, <2>2 DEF SchedInv
<1>15. ASSUME NEW t \in Tids, NEW a \in Amounts, PenalizeTid(t, a) PROVE SchedInv'
  <2>1. /\ UNCHANGED <<rq, wq, state, current, nextTid, cpu, pc>>
        /\ vruntime' = [vruntime EXCEPT ![t] = SatAdd(vruntime[t], a)]
        /\ pen' = IF t = current THEN pen ELSE pen \cup {t}
        /\ t = current \/ \E i \in DOMAIN rq : rq[i] = t
    BY <1>15 DEF PenalizeTid
  <2>2. /\ \A x \in Tids : vruntime[x] \in Nat /\ vruntime'[x] \in Nat
        /\ \A x \in Tids : x # t => vruntime'[x] = vruntime[x]
        /\ vruntime[t] <= vruntime'[t]
    BY <1>0, <2>1 DEF SchedInv, TypeOK, SatAdd
  <2>3. RqOrder'
    <3> SUFFICES ASSUME NEW i \in DOMAIN rq, NEW j \in DOMAIN rq, i < j, rq[i] \notin pen'
                 PROVE  vruntime'[rq[i]] <= vruntime'[rq[j]]
      BY <2>1 DEF RqOrder
    <3>1. rq[i] \in Tids /\ rq[j] \in Tids /\ rq[i] # current
      BY DEF SchedInv, TypeOK, OnePlace
    <3>2. rq[i] \notin pen /\ rq[i] # t
      BY <2>1, <3>1
    <3>3. vruntime[rq[i]] <= vruntime[rq[j]]
      BY <3>2 DEF SchedInv, RqOrder
    <3>4. vruntime[rq[j]] <= vruntime'[rq[j]]
      BY <2>2, <3>1
    <3> QED BY <2>2, <3>1, <3>2, <3>3, <3>4
  <2>4. FreshTids'
    <3>1. state[t] # "None"
      BY <2>1 DEF SchedInv, OnePlace
    <3> QED BY <2>1, <2>2, <3>1 DEF SchedInv, FreshTids
  <2>5. CurrentOnCpu' /\ Leaving'
    BY <2>1 DEF SchedInv, CurrentOnCpu, Leaving
  <2> QED BY <1>0, <2>1, <2>3, <2>4, <2>5, SamePlaces DEF SchedInv
<1>16. CASE UNCHANGED vars
  BY <1>16 DEF vars, SchedInv, TypeOK, OnePlace, CurrentOnCpu, RqOrder, FreshTids, Leaving
<1> QED BY <1>1, <1>2, <1>3, <1>4, <1>5, <1>6, <1>7, <1>8, <1>9, <1>10, <1>11,
           <1>12, <1>13, <1>14, <1>15, <1>16 DEF Next

(* The inductive invariant of the scheduler: every task control block has one
   place, at every point of yield_now, sleep_on, wake_up and exit. *)
THEOREM SchedInvariant == Spec => []SchedInv
<1> QED BY InvInit, InvStep, PTL DEF Spec

(* The scheduler's state is well typed and its queues stay within their
   arrays, in every reachable state of sched.rs, with a timer interrupt
   between any two steps. *)
THEOREM SchedTypeCorrect == Spec => []TypeOK
<1>1. SchedInv => TypeOK
  BY DEF SchedInv
<1> QED BY <1>1, SchedInvariant, PTL

(* No task control block is ever in two places, whatever the sequence of spawn,
   yield_now, sleep_on, wake_up, exit and penalties. *)
THEOREM SchedOnePlace == Spec => []OnePlace
<1>1. SchedInv => OnePlace
  BY DEF SchedInv
<1> QED BY <1>1, SchedInvariant, PTL

(* The current task is the one on the CPU whenever a thread runs its own code:
   yield_now never queues one task's control block while another's stack runs. *)
THEOREM SchedCurrentOnCpu == Spec => []CurrentOnCpu
<1>1. SchedInv => CurrentOnCpu
  BY DEF SchedInv
<1> QED BY <1>1, SchedInvariant, PTL

(* The run queue is ordered by vruntime but for the entries penalize_tid
   raised in place. *)
THEOREM SchedRqOrder == Spec => []RqOrder
<1>1. SchedInv => RqOrder
  BY DEF SchedInv
<1> QED BY <1>1, SchedInvariant, PTL
-----------------------------------------------------------------------------
(* No task is lost while the queues have room for every task *)

(* Pigeonhole: a list of distinct tasks without t is shorter than MaxTid. *)
LEMMA ShorterThanTids ==
    ASSUME NEW n \in Nat, NEW t \in Tids, NEW f \in [1..n -> Tids],
           \A i \in 1..n : f[i] # t, \A i, j \in 1..n : f[i] = f[j] => i = j
    PROVE  n < MaxTid
<1> DEFINE T == Tids \ {t}
<1>1. f \in [1..n -> T]
  OBVIOUS
<1>2. f \in Injection(1..n, T)
  BY <1>1, Fun_IsInj
<1>3. IsFiniteSet(Tids) /\ Cardinality(Tids) = MaxTid /\ MaxTid \in Nat
  <2>1. MaxTid \in Nat /\ MaxTid >= 1
    BY SchedConstants DEF Tids
  <2> QED BY <2>1, FS_Interval DEF Tids
<1>4. IsFiniteSet(T) /\ Cardinality(T) = MaxTid - 1
  BY <1>3, FS_RemoveElement
<1>5. Cardinality(1..n) = n
  BY FS_Interval
<1> HIDE DEF T
<1>6. Cardinality(1..n) <= Cardinality(T)
  BY <1>2, <1>4, FS_Injection
<1> QED BY <1>3, <1>4, <1>5, <1>6

(* With room, enqueue keeps every entry and adds the task. *)
LEMMA EnqueueHasAll ==
    ASSUME NEW q \in Seq(Tids), NEW t \in Tids, NEW v \in Nat,
           vruntime \in [Tids -> 0..MaxVruntime], Len(q) < RqSize
    PROVE  /\ \E k \in DOMAIN Enqueue(q, t, v) : Enqueue(q, t, v)[k] = t
           /\ \A i \in DOMAIN q :
                \E k \in DOMAIN Enqueue(q, t, v) : Enqueue(q, t, v)[k] = q[i]
<1> DEFINE e == Enqueue(q, t, v)
           at == EnqueueAt(q, v)
<1>1. /\ e \in Seq(Tids) /\ Len(e) = Len(q) + 1
      /\ \A k \in 1..at : e[k] = q[k]
      /\ e[at + 1] = t
      /\ \A k \in (at + 2)..(Len(q) + 1) : e[k] = q[k - 1]
  BY EnqueueInserts, Zenon
<1>2. at \in 0..Len(q)
  BY EnqueueAtStops
<1> HIDE DEF e, at
<1>3. DOMAIN e = 1..(Len(q) + 1) /\ DOMAIN q = 1..Len(q) /\ Len(q) \in Nat
  BY <1>1
<1>4. at + 1 \in DOMAIN e
  BY <1>2, <1>3
<1>5. ASSUME NEW i \in DOMAIN q PROVE \E k \in DOMAIN e : e[k] = q[i]
  <2>1. CASE i <= at
    <3>1. i \in 1..at /\ i \in DOMAIN e
      BY <1>2, <1>3, <2>1
    <3> QED BY <1>1, <3>1
  <2>2. CASE ~(i <= at)
    <3>1. i + 1 \in (at + 2)..(Len(q) + 1) /\ i + 1 \in DOMAIN e /\ (i + 1) - 1 = i
      BY <1>2, <1>3, <2>2
    <3>2. e[i + 1] = q[(i + 1) - 1]
      BY <1>1, <3>1, Zenon
    <3> QED BY <3>1, <3>2
  <2> QED BY <2>1, <2>2
<1> QED BY <1>1, <1>4, <1>5 DEF e

(* A task that becomes Ready is found in the run queue afterwards. *)
LEMMA EnqueueLosesNone ==
    ASSUME HasRoom, SchedInv, NoTaskLost, NEW t \in Tids, state[t] # "Ready",
           rq' = Enqueue(rq, t, vruntime[t]),
           state' = [state EXCEPT ![t] = "Ready"]
    PROVE  \A x \in Tids : state'[x] = "Ready" => \E i \in DOMAIN rq' : rq'[i] = x
<1>1. /\ rq \in Seq(Tids) /\ vruntime \in [Tids -> 0..MaxVruntime]
      /\ vruntime[t] \in Nat /\ Len(rq) \in Nat
  BY SchedConstants DEF SchedInv, TypeOK
<1>2. Len(rq) < MaxTid
  <2>1. /\ rq \in [1..Len(rq) -> Tids]
        /\ \A i \in 1..Len(rq) : rq[i] # t
        /\ \A i, j \in 1..Len(rq) : rq[i] = rq[j] => i = j
    BY <1>1 DEF SchedInv, OnePlace
  <2> QED BY <1>1, <2>1, ShorterThanTids
<1>3. Len(rq) < RqSize
  BY <1>1, <1>2, SchedConstants DEF HasRoom
<1>4. /\ \E k \in DOMAIN rq' : rq'[k] = t
      /\ \A i \in DOMAIN rq : \E k \in DOMAIN rq' : rq'[k] = rq[i]
  BY <1>1, <1>3, EnqueueHasAll
<1>5. \A x \in Tids : x # t => state'[x] = state[x]
  BY DEF SchedInv, TypeOK
<1>6. ASSUME NEW x \in Tids, state'[x] = "Ready" PROVE \E i \in DOMAIN rq' : rq'[i] = x
  <2>1. CASE x = t
    BY <1>4, <2>1
  <2>2. CASE x # t
    <3>1. PICK i \in DOMAIN rq : rq[i] = x
      BY <1>5, <1>6, <2>2 DEF NoTaskLost
    <3> QED BY <1>4, <3>1
  <2> QED BY <2>1, <2>2
<1> QED BY <1>6

(* Taking the head loses no other entry. *)
LEMMA PickLosesNone ==
    ASSUME SchedInv, current = NoTask, NoTaskLost, PickNext, UNCHANGED wq
    PROVE  NoTaskLost'
<1>1. rq \in Seq(Tids) /\ rq # <<>> /\ state \in [Tids -> States]
  BY DEF SchedInv, TypeOK, PickNext
<1>2. /\ Head(rq) \in Tids /\ Head(rq) = rq[1]
      /\ rq' = Tail(rq) /\ state' = [state EXCEPT ![rq[1]] = "Running"]
  BY <1>1 DEF PickNext
<1>3. \A i \in DOMAIN rq : i # 1 => i - 1 \in DOMAIN rq' /\ rq'[i - 1] = rq[i]
  BY <1>1, <1>2
<1>4. \A x \in Tids : state'[x] \in {"Ready", "Blocked"} => x # rq[1] /\ state'[x] = state[x]
  BY <1>1, <1>2
<1>5. ASSUME NEW x \in Tids, state'[x] = "Ready" PROVE \E i \in DOMAIN rq' : rq'[i] = x
  <2>1. PICK i \in DOMAIN rq : rq[i] = x
    BY <1>4, <1>5 DEF NoTaskLost
  <2> QED BY <1>3, <1>4, <1>5, <2>1
<1>6. ASSUME NEW x \in Tids, state'[x] = "Blocked" PROVE \E i \in DOMAIN wq' : wq'[i].task = x
  BY <1>4, <1>6 DEF NoTaskLost
<1> QED BY <1>5, <1>6 DEF NoTaskLost

LEMMA LostStep ==
    ASSUME HasRoom
    PROVE  SchedInv /\ NoTaskLost /\ [Next]_vars => NoTaskLost'
<1> SUFFICES ASSUME SchedInv, NoTaskLost, [Next]_vars PROVE NoTaskLost'
  OBVIOUS
<1> USE SchedConstants, NoTaskNoTid
<1>0. state \in [Tids -> States]
  BY DEF SchedInv, TypeOK
<1>1. CASE UNCHANGED <<state, rq, wq>>
  BY <1>1 DEF NoTaskLost
<1>2. ASSUME NEW t \in Tids, state[t] # "Ready", UNCHANGED wq,
             rq' = Enqueue(rq, t, vruntime[t]), state' = [state EXCEPT ![t] = "Ready"]
      PROVE  NoTaskLost'
  <2>1. \A x \in Tids : state'[x] = "Ready" => \E i \in DOMAIN rq' : rq'[i] = x
    BY <1>2, EnqueueLosesNone
  <2>2. \A x \in Tids : state'[x] = "Blocked" => state[x] = "Blocked"
    BY <1>0, <1>2
  <2> QED BY <1>2, <2>1, <2>2 DEF NoTaskLost
<1>3. ASSUME NEW p \in Procs \cup {NullProc}, Spawn(p) PROVE NoTaskLost'
  <2>1. nextTid \in Tids /\ state[nextTid] = "None" /\ vruntime[nextTid] = 0
    BY <1>3 DEF Spawn, SchedInv, FreshTids, Tids
  <2> QED BY <1>2, <1>3, <2>1 DEF Spawn
<1>4. CASE YieldTake
  <2>1. CASE current = NoTask
    BY <1>1, <1>4, <2>1 DEF YieldTake
  <2>2. CASE current # NoTask
    <3>1. current \in Tids /\ state[current] = "Running"
      BY <2>2 DEF SchedInv, TypeOK, OnePlace
    <3> QED BY <1>2, <1>4, <2>2, <3>1 DEF YieldTake
  <2> QED BY <2>1, <2>2
<1>5. CASE YieldPick
  BY <1>5, PickLosesNone DEF YieldPick, SchedInv, CurrentOnCpu
<1>6. CASE Start
  BY <1>6, PickLosesNone DEF Start, SchedInv, CurrentOnCpu, Running
<1>7. CASE LeavePick
  <2>1. CASE PickNext
    BY <1>7, <2>1, PickLosesNone DEF LeavePick, SchedInv, CurrentOnCpu
  <2>2. CASE UNCHANGED <<rq, state, current, pen>>
    BY <1>1, <1>7, <2>2 DEF LeavePick
  <2> QED BY <1>7, <2>1, <2>2 DEF LeavePick
<1>8. CASE Exit
  <2>1. UNCHANGED <<rq, wq>>
    BY <1>8 DEF Exit
  <2>2. \A x \in Tids : state'[x] \in {"Ready", "Blocked"} => state'[x] = state[x]
    BY <1>0, <1>8 DEF Exit
  <2> QED BY <2>1, <2>2 DEF NoTaskLost
<1>9. ASSUME NEW tag \in Tags, SleepOn(tag) PROVE NoTaskLost'
  <2>1. CASE current = NoTask
    BY <1>1, <1>9, <2>1 DEF SleepOn
  <2>2. CASE current # NoTask
    <3>1. current \in Tids /\ state[current] = "Running"
      BY <2>2 DEF SchedInv, TypeOK, OnePlace
    <3>2. /\ state' = [state EXCEPT ![current] = "Blocked"] /\ UNCHANGED rq
          /\ wq' = WqEnqueue(wq, tag, current)
      BY <1>9, <2>2 DEF SleepOn
    <3>3. wq \in Seq([tag : Tags, task : Tids]) /\ Len(wq) \in Nat
      BY DEF SchedInv, TypeOK
    <3>4. Len(wq) < WqSize
      <4> DEFINE f == [i \in 1..Len(wq) |-> wq[i].task]
      <4>1. DOMAIN wq = 1..Len(wq)
        BY <3>3
      <4>2. \A i \in 1..Len(wq) : wq[i].task \in Tids /\ wq[i].task # current
        BY <3>1, <4>1, WaiterTid DEF SchedInv, OnePlace
      <4>3. \A i, j \in 1..Len(wq) : wq[i].task = wq[j].task => i = j
        BY <4>1 DEF SchedInv, OnePlace
      <4>4. /\ f \in [1..Len(wq) -> Tids] /\ \A i \in 1..Len(wq) : f[i] # current
            /\ \A i, j \in 1..Len(wq) : f[i] = f[j] => i = j
        BY <4>2, <4>3, Zenon
      <4> HIDE DEF f
      <4>5. Len(wq) < MaxTid
        BY <3>1, <3>3, <4>4, ShorterThanTids
      <4> QED BY <3>3, <4>5 DEF HasRoom
    <3>5. wq' = Append(wq, [tag |-> tag, task |-> current])
      BY <3>2, <3>3, <3>4 DEF WqEnqueue
    <3>6. /\ \A i \in DOMAIN wq : i \in DOMAIN wq' /\ wq'[i] = wq[i]
          /\ Len(wq) + 1 \in DOMAIN wq' /\ wq'[Len(wq) + 1].task = current
      BY <3>3, <3>5
    <3>7. \A x \in Tids : x # current => state'[x] = state[x]
      BY <1>0, <3>2
    <3>8. state'[current] = "Blocked"
      BY <1>0, <3>1, <3>2
    <3>9. ASSUME NEW x \in Tids, state'[x] = "Blocked"
          PROVE  \E i \in DOMAIN wq' : wq'[i].task = x
      <4>1. CASE x = current
        BY <3>6, <4>1
      <4>2. CASE x # current
        <5>1. PICK i \in DOMAIN wq : wq[i].task = x
          BY <3>7, <3>9, <4>2 DEF NoTaskLost
        <5> QED BY <3>6, <5>1
      <4> QED BY <4>1, <4>2
    <3>10. ASSUME NEW x \in Tids, state'[x] = "Ready" PROVE \E i \in DOMAIN rq' : rq'[i] = x
      <4>1. state[x] = "Ready"
        BY <3>7, <3>8, <3>10
      <4> QED BY <3>2, <4>1 DEF NoTaskLost
    <3> QED BY <3>9, <3>10 DEF NoTaskLost
  <2> QED BY <2>1, <2>2
<1>10. ASSUME NEW tag \in Tags, WakeUp(tag) PROVE NoTaskLost'
  <2> DEFINE n == WakeAt(tag)
             t == wq[n].task
  <2>1. /\ \E k \in DOMAIN wq : wq[k].tag = tag
        /\ wq' = RemoveWaiter(wq, n)
        /\ state' = [state EXCEPT ![t] = "Ready"]
        /\ rq' = Enqueue(rq, t, vruntime[t])
    BY <1>10 DEF WakeUp
  <2>2. wq \in Seq([tag : Tags, task : Tids]) /\ Len(wq) \in Nat
    BY DEF SchedInv, TypeOK
  <2>3. n \in DOMAIN wq
    BY <2>1, <2>2, WakeFinds
  <2> HIDE DEF n
  <2>4. t \in Tids /\ state[t] = "Blocked"
    BY <2>3, WaiterTid DEF SchedInv, OnePlace
  <2>5. \A x \in Tids : state'[x] = "Ready" => \E i \in DOMAIN rq' : rq'[i] = x
    <3> HIDE DEF t
    <3> QED BY <2>1, <2>4, EnqueueLosesNone
  <2>6. \A k \in DOMAIN wq : k # n => \E i \in DOMAIN wq' : wq'[i] = wq[k]
    <3>1. /\ wq' \in Seq([tag : Tags, task : Tids]) /\ Len(wq') = Len(wq) - 1
          /\ \A k \in DOMAIN wq' : wq'[k] = wq[IF k < n THEN k ELSE k + 1]
      BY <2>1, <2>2, <2>3, RemoveKeeps
    <3>2. DOMAIN wq' = 1..(Len(wq) - 1) /\ DOMAIN wq = 1..Len(wq)
      BY <2>2, <3>1
    <3> SUFFICES ASSUME NEW k \in DOMAIN wq, k # n
                 PROVE  \E i \in DOMAIN wq' : wq'[i] = wq[k]
      OBVIOUS
    <3>3. CASE k < n
      <4>1. k \in DOMAIN wq'
        BY <2>2, <2>3, <3>2, <3>3
      <4> QED BY <3>1, <3>3, <4>1
    <3>4. CASE ~(k < n)
      <4>1. k - 1 \in DOMAIN wq' /\ ~(k - 1 < n) /\ (k - 1) + 1 = k
        BY <2>2, <2>3, <3>2, <3>4
      <4>2. wq'[k - 1] = wq[(k - 1) + 1]
        BY <3>1, <4>1, Zenon
      <4> QED BY <4>1, <4>2
    <3> QED BY <3>3, <3>4
  <2>7. \A x \in Tids : state'[x] = "Blocked" => x # t /\ state[x] = "Blocked"
    BY <1>0, <2>1, <2>4
  <2>8. ASSUME NEW x \in Tids, state'[x] = "Blocked"
        PROVE  \E i \in DOMAIN wq' : wq'[i].task = x
    <3>1. PICK k \in DOMAIN wq : wq[k].task = x
      BY <2>7, <2>8 DEF NoTaskLost
    <3>2. k # n
      BY <2>7, <2>8, <3>1
    <3> QED BY <2>6, <3>1, <3>2
  <2> QED BY <2>5, <2>8 DEF NoTaskLost
<1>11. CASE \/ SpawnFails \/ Tick \/ YieldNow \/ TakeResched \/ YieldSwitch
            \/ StartPanics \/ LeaveJump
            \/ \E t \in Tids, a \in Amounts : PenalizeTid(t, a)
            \/ UNCHANGED vars
  <2>1. UNCHANGED <<state, rq, wq>>
    BY <1>11 DEF SpawnFails, Tick, YieldNow, TakeResched, YieldEntry, YieldSwitch,
                 StartPanics, LeaveJump, PenalizeTid, vars
  <2> QED BY <1>1, <2>1
<1> QED BY <1>3, <1>4, <1>5, <1>6, <1>7, <1>8, <1>9, <1>10, <1>11 DEF Next

(* With a run queue and a wait queue for every task there is, no task is
   dropped: a Ready task can always be picked and a Blocked one woken.  The
   silent returns of CfsRq::enqueue and WaitQueue::enqueue are never taken. *)
THEOREM SchedNoTaskLost ==
    ASSUME HasRoom
    PROVE  Spec => []NoTaskLost
<1>1. Init => NoTaskLost
  BY DEF Init, NoTaskLost
<1>2. SchedInv /\ NoTaskLost /\ [Next]_vars => NoTaskLost'
  BY LostStep
<1> QED BY <1>1, <1>2, SchedInvariant, PTL DEF Spec
-----------------------------------------------------------------------------
(* Task states *)

Legal(t) ==
    /\ state[t] = "Zombie" => state'[t] = "Zombie"
    /\ state'[t] = "Running" => state[t] \in {"Ready", "Running"}
    /\ state[t] = "Blocked" => state'[t] \in {"Blocked", "Ready"}

LEMMA LegalPick ==
    ASSUME SchedInv, PickNext, NEW t \in Tids
    PROVE  Legal(t)
<1>1. state \in [Tids -> States] /\ rq \in Seq(Tids) /\ rq # <<>>
  BY DEF SchedInv, TypeOK, PickNext
<1>2. 1 \in DOMAIN rq /\ Head(rq) = rq[1]
  BY <1>1
<1>3. Head(rq) \in Tids /\ state[Head(rq)] = "Ready"
  BY <1>1, <1>2 DEF SchedInv, OnePlace
<1> QED BY <1>1, <1>3 DEF PickNext, Legal

LEMMA LegalStep ==
    ASSUME SchedInv, Next, NEW t \in Tids
    PROVE  Legal(t)
<1> USE SchedConstants, NoTaskNoTid
<1>1. state \in [Tids -> States] /\ current \in Tids \cup {NoTask}
  BY DEF SchedInv, TypeOK
<1>2. current # NoTask => current \in Tids /\ state[current] = "Running"
  BY <1>1 DEF SchedInv, OnePlace
<1>3. ASSUME NEW p \in Procs \cup {NullProc}, Spawn(p) PROVE Legal(t)
  <2>1. nextTid \in Tids /\ state[nextTid] = "None"
    BY <1>3 DEF Spawn, SchedInv, FreshTids, Tids
  <2> QED BY <1>1, <1>3, <2>1 DEF Spawn, Legal
<1>4. CASE YieldTake \/ Exit
  BY <1>1, <1>2, <1>4 DEF YieldTake, Exit, Legal
<1>5. CASE YieldPick \/ Start
  BY <1>5, LegalPick DEF YieldPick, Start
<1>6. CASE LeavePick
  BY <1>1, <1>6, LegalPick DEF LeavePick, Legal
<1>7. ASSUME NEW tag \in Tags, SleepOn(tag) PROVE Legal(t)
  BY <1>1, <1>2, <1>7 DEF SleepOn, Legal
<1>8. ASSUME NEW tag \in Tags, WakeUp(tag) PROVE Legal(t)
  <2> DEFINE n == WakeAt(tag)
  <2>1. /\ \E k \in DOMAIN wq : wq[k].tag = tag
        /\ state' = [state EXCEPT ![wq[n].task] = "Ready"]
    BY <1>8 DEF WakeUp
  <2>2. wq \in Seq([tag : Tags, task : Tids])
    BY DEF SchedInv, TypeOK
  <2>3. n \in DOMAIN wq
    BY <2>1, <2>2, WakeFinds
  <2> HIDE DEF n
  <2>4. wq[n].task \in Tids /\ state[wq[n].task] = "Blocked"
    BY <2>3, WaiterTid DEF SchedInv, OnePlace
  <2> QED BY <1>1, <2>1, <2>4 DEF Legal
<1>9. CASE \/ SpawnFails \/ Tick \/ YieldNow \/ TakeResched \/ YieldSwitch
           \/ StartPanics \/ LeaveJump
           \/ \E x \in Tids, a \in Amounts : PenalizeTid(x, a)
  <2>1. UNCHANGED state
    BY <1>9 DEF SpawnFails, Tick, YieldNow, TakeResched, YieldEntry, YieldSwitch,
                StartPanics, LeaveJump, PenalizeTid
  <2> QED BY <1>1, <2>1 DEF Legal
<1> QED BY <1>3, <1>4, <1>5, <1>6, <1>7, <1>8, <1>9 DEF Next

(* A task that has exited never comes back, one that sleeps is only ever made
   Ready, and only a Ready task gets the CPU, whatever yields, sleeps, wake-ups,
   exits and ticks come in between, and also when the full queues drop tasks. *)
THEOREM SchedLegalTransitions == Spec => LegalTransitions
<1> DEFINE AllLegal == \A t \in Tids : Legal(t)
<1>1. SchedInv /\ [Next]_vars => [AllLegal]_vars
  BY LegalStep
<1>2. LegalTransitions <=> [][AllLegal]_vars
  BY DEF LegalTransitions, Legal
<1> HIDE DEF AllLegal
<1> QED BY <1>1, <1>2, SchedInvariant, PTL DEF Spec
=============================================================================
