---------------------------- MODULE ServiceProofs ----------------------------
(* The table of application services, for any number of slots, starts and names *)
(* and any quantum; and the descriptors of pipes: a pipe belongs to the         *)
(* descriptors it was made with, and its end counts are those descriptors, for  *)
(* tables of every size and any number of pipes. And the keyboard: with one     *)
(* context polling the events are the keys typed, however many.                 *)
EXTENDS AppService, Descriptors, Keyboard, ListLemmas

-----------------------------------------------------------------------------
(* Application services *)

Sizes == MaxApps \in Nat \ {0} /\ MaxStarts \in Nat \ {0} /\ Quantum \in Nat \ {0}

Record == [name : Names \cup {NoName}, state : {"Stopped", "Starting", "Running"},
           tid : 0 .. MaxStarts, slice : Nat]

Types ==
    /\ slots \in [Slots -> Record]
    /\ count \in 0 .. MaxApps
    /\ starts \in 0 .. MaxStarts
    /\ bootSlot \in 0 .. MaxApps
    /\ thread \in [Tids -> {"none", "ready", "run", "yield"}]
    /\ runs \in [Tids -> 0 .. MaxApps]

(* The slots that have a thread and the threads there are match one to one; slots
   behind the table have none. *)
Matched ==
    /\ \A i \in Slots : i > count => slots[i].tid = 0
    /\ \A i, j \in Slots : slots[i].tid = slots[j].tid /\ slots[i].tid # 0 => i = j
    /\ \A t \in Tids : thread[t] # "none" => \E i \in 1 .. count : slots[i].tid = t
    /\ \A i \in Slots : slots[i].tid # 0 => thread[slots[i].tid] # "none"
    /\ \A t \in Tids : t > starts => thread[t] = "none"

(* A slot shown as running has a thread, and one without a thread uses no time. *)
Idle ==
    \A i \in 1 .. count :
        /\ slots[i].state = "Running" => slots[i].tid # 0
        /\ slots[i].tid = 0 => slots[i].slice = 0

(* BOOT_SLOT is the slot of the last attempt, if that made a thread. *)
Announced ==
    starts # 0 /\ thread[starts] # "none" =>
        bootSlot \in 1 .. count /\ slots[bootSlot].tid = starts

AppInv == Types /\ Matched /\ Idle /\ Announced /\ QuotaKept

LEMMA AppInitially ==
    ASSUME Sizes
    PROVE  AppInit => AppInv
  BY DEF Sizes, AppInit, AppInv, Types, Record, Matched, Idle, Announced, QuotaKept, Slots, Tids, Empty,
         NoName

(* The slot of a thread is found, and there is only one. *)
LEMMA OneSlot ==
    ASSUME Sizes, Types, Matched, NEW t \in Tids, thread[t] # "none"
    PROVE  \E i \in 1 .. count : slots[i].tid = t /\ SlotOf(t) = {i} /\ First(SlotOf(t)) = i
<1>1. PICK i \in 1 .. count : slots[i].tid = t
  BY DEF Matched
<1>2. \A j \in 1 .. count : slots[j].tid = t => j = i
  <2>1. t # 0 /\ i \in Slots /\ \A j \in 1 .. count : j \in Slots
    BY <1>1 DEF Sizes, Types, Slots, Tids
  <2> QED BY <1>1, <2>1 DEF Matched
<1>3. SlotOf(t) = {i}
  BY <1>1, <1>2 DEF SlotOf
<1>4. First({i}) = i
  BY DEF First, Sizes, Types
<1> QED BY <1>1, <1>3, <1>4

(* A start that makes a thread. *)
LEMMA StartedKeeps ==
    ASSUME Sizes, AppInv, NEW n \in Names, starts < MaxStarts, count < MaxApps,
           starts' = starts + 1, bootSlot' = count + 1, Started(n), UNCHANGED runs
    PROVE  AppInv'
<1> DEFINE k == count + 1
<1>1. /\ k \in Slots /\ count' = k /\ k \in 1 .. count'
      /\ starts' \in Tids /\ thread[starts'] = "none"
      /\ slots[k].tid = 0
  BY DEF AppInv, Types, Sizes, Matched, Slots, Tids, Started
<1>2. /\ thread' = [thread EXCEPT ![starts'] = "ready"]
      /\ slots' \in [Slots -> Record]
      /\ slots'[k].tid = starts' /\ slots'[k].slice = 0 /\ slots'[k].state = "Running"
      /\ \A i \in Slots : i # k => slots'[i] = slots[i]
  <2> DEFINE c == [slots[k] EXCEPT !.name = n, !.state = "Starting", !.slice = 0]
             d == [c EXCEPT !.tid = starts', !.state = "Running"]
  <2>1. slots \in [Slots -> Record] /\ slots[k] \in Record
    BY <1>1 DEF AppInv, Types, Record
  <2>2. Claim(n) = [slots EXCEPT ![k] = c]
    BY <1>1, <2>1 DEF Claim
  <2>3. slots' = [[slots EXCEPT ![k] = c] EXCEPT ![k].tid = starts', ![k].state = "Running"]
    BY <2>2, <1>1 DEF Started
  <2> HIDE DEF c
  <2>4. slots' = [slots EXCEPT ![k] = d]
    BY <1>1, <2>1, <2>3
  <2>5. d \in Record /\ d.tid = starts' /\ d.slice = 0 /\ d.state = "Running"
    <3>1. starts' \in 0 .. MaxStarts
      BY <1>1 DEF Tids, Sizes
    <3>2. c \in Record /\ c.slice = 0
      BY <2>1 DEF c, Record
    <3> QED BY <3>1, <3>2 DEF Record
  <2> HIDE DEF d
  <2>6. thread' = [thread EXCEPT ![starts'] = "ready"]
    BY DEF Started
  <2> QED BY <1>1, <2>1, <2>4, <2>5, <2>6
<1>3. Types'
  BY <1>1, <1>2 DEF AppInv, Types, Record, Sizes, Slots, Tids
<1>4. \A i \in Slots : i # k => slots'[i] = slots[i] /\ slots[i].tid # starts'
  BY <1>1, <1>2 DEF AppInv, Types, Matched
<1>5. slots'[k].tid = starts' /\ slots'[k].slice = 0
  BY <1>1, <1>2 DEF AppInv, Types
<1>6. Matched'
  <2>1. \A i \in Slots : i > count' => slots'[i].tid = 0
    BY <1>1, <1>4 DEF AppInv, Types, Matched, Sizes, Slots
  <2>2. \A i, j \in Slots : slots'[i].tid = slots'[j].tid /\ slots'[i].tid # 0 => i = j
    BY <1>4, <1>5 DEF AppInv, Matched
  <2>3. \A t \in Tids : thread'[t] # "none" => \E i \in 1 .. count' : slots'[i].tid = t
    <3> SUFFICES ASSUME NEW t \in Tids, thread'[t] # "none"
                 PROVE  \E i \in 1 .. count' : slots'[i].tid = t
      OBVIOUS
    <3>1. CASE t = starts'
      BY <1>1, <1>5, <3>1
    <3>2. CASE t # starts'
      <4>1. thread[t] # "none"
        BY <1>2, <3>2 DEF AppInv, Types
      <4>2. PICK i \in 1 .. count : slots[i].tid = t
        BY <4>1 DEF AppInv, Matched
      <4>3. i \in Slots /\ i # k /\ i \in 1 .. count'
        BY <1>1, <4>2 DEF AppInv, Types, Sizes, Slots
      <4> QED BY <1>4, <4>2, <4>3
    <3> QED BY <3>1, <3>2
  <2>4. \A i \in Slots : slots'[i].tid # 0 => thread'[slots'[i].tid] # "none"
    <3> SUFFICES ASSUME NEW i \in Slots, slots'[i].tid # 0
                 PROVE  thread'[slots'[i].tid] # "none"
      OBVIOUS
    <3>1. CASE i = k
      BY <1>1, <1>2, <1>5, <3>1 DEF AppInv, Types
    <3>2. CASE i # k
      <4>1. slots'[i] = slots[i] /\ slots[i].tid # starts' /\ slots[i].tid \in Tids
        BY <1>4, <3>2 DEF AppInv, Types, Record, Sizes, Tids
      <4> QED BY <1>2, <4>1 DEF AppInv, Types, Matched
    <3> QED BY <3>1, <3>2
  <2>5. \A t \in Tids : t > starts' => thread'[t] = "none"
    BY <1>1, <1>2 DEF AppInv, Types, Matched, Sizes, Tids
  <2> QED BY <2>1, <2>2, <2>3, <2>4, <2>5 DEF Matched
<1>7. Idle'
  <2> SUFFICES ASSUME NEW i \in 1 .. count'
               PROVE  /\ slots'[i].state = "Running" => slots'[i].tid # 0
                      /\ slots'[i].tid = 0 => slots'[i].slice = 0
    BY DEF Idle
  <2>1. CASE i = k
    BY <1>1, <1>5, <2>1 DEF Tids, Sizes
  <2>2. CASE i # k
    <3>1. i \in 1 .. count /\ i \in Slots
      BY <1>1, <2>2 DEF AppInv, Types, Sizes, Slots
    <3> QED BY <1>4, <2>2, <3>1 DEF AppInv, Idle
  <2> QED BY <2>1, <2>2
<1>8. Announced'
  BY <1>1, <1>5 DEF Announced
<1>9. QuotaKept'
  <2> SUFFICES ASSUME NEW i \in 1 .. count'
               PROVE  /\ slots'[i].slice <= Quantum
                      /\ slots'[i].tid # 0 /\ slots'[i].slice = Quantum
                            => thread'[slots'[i].tid] = "yield"
    BY DEF QuotaKept
  <2>1. CASE i = k
    BY <1>5, <2>1 DEF Sizes
  <2>2. CASE i # k
    <3>1. i \in 1 .. count /\ i \in Slots
      BY <1>1, <2>2 DEF AppInv, Types, Sizes, Slots
    <3>2. slots'[i] = slots[i] /\ slots[i].tid # starts' /\ slots[i].tid \in 0 .. MaxStarts
      BY <1>4, <2>2, <3>1 DEF AppInv, Types, Record
    <3>3. slots[i].tid # 0 => thread'[slots[i].tid] = thread[slots[i].tid]
      BY <1>2, <3>2 DEF AppInv, Types, Tids, Sizes
    <3> QED BY <3>1, <3>2, <3>3 DEF AppInv, QuotaKept
  <2> QED BY <2>1, <2>2
<1> QED BY <1>3, <1>6, <1>7, <1>8, <1>9 DEF AppInv

(* A start that fails to make a thread: the slot is claimed, and kept or not. *)
LEMMA FailedKeeps ==
    ASSUME Sizes, AppInv, NEW n \in Names, starts < MaxStarts, count < MaxApps,
           starts' = starts + 1, bootSlot' = count + 1, slots' = Claim(n),
           count' \in {count, count + 1}, UNCHANGED <<thread, runs>>
    PROVE  AppInv'
<1> DEFINE k == count + 1
<1>1. /\ k \in Slots /\ slots[k].tid = 0 /\ slots[k] \in Record
      /\ starts' \in Tids /\ thread[starts'] = "none" /\ slots \in [Slots -> Record]
  BY DEF AppInv, Types, Sizes, Matched, Slots, Tids
<1>2. /\ slots' \in [Slots -> Record]
      /\ slots'[k].tid = 0 /\ slots'[k].slice = 0 /\ slots'[k].state = "Starting"
      /\ \A i \in Slots : i # k => slots'[i] = slots[i]
  <2> DEFINE c == [slots[k] EXCEPT !.name = n, !.state = "Starting", !.slice = 0]
  <2>1. slots' = [slots EXCEPT ![k] = c]
    BY <1>1 DEF Claim
  <2>2. c \in Record /\ c.slice = 0 /\ c.state = "Starting" /\ c.tid = 0
    BY <1>1 DEF Record
  <2> HIDE DEF c
  <2> QED BY <1>1, <2>1, <2>2
<1>3. Types'
  BY <1>1, <1>2 DEF AppInv, Types, Sizes, Slots, Tids
<1>4. \A i \in Slots : slots'[i].tid = slots[i].tid
  BY <1>1, <1>2
<1>5. Matched'
  <2>1. \A i \in Slots : i > count' => slots'[i].tid = 0
    BY <1>4 DEF AppInv, Types, Matched, Sizes, Slots
  <2>2. \A i, j \in Slots : slots'[i].tid = slots'[j].tid /\ slots'[i].tid # 0 => i = j
    BY <1>4 DEF AppInv, Matched
  <2>3. \A t \in Tids : thread'[t] # "none" => \E i \in 1 .. count' : slots'[i].tid = t
    <3>1. \A i \in 1 .. count : i \in Slots /\ i \in 1 .. count'
      BY DEF AppInv, Types, Sizes, Slots
    <3> QED BY <1>4, <3>1 DEF AppInv, Matched
  <2>4. \A i \in Slots : slots'[i].tid # 0 => thread'[slots'[i].tid] # "none"
    BY <1>4 DEF AppInv, Matched
  <2>5. \A t \in Tids : t > starts' => thread'[t] = "none"
    BY DEF AppInv, Types, Matched, Tids
  <2> QED BY <2>1, <2>2, <2>3, <2>4, <2>5 DEF Matched
<1>6. \A i \in 1 .. count' : i = k \/ (i \in 1 .. count /\ i \in Slots /\ i # k)
  BY DEF AppInv, Types, Sizes, Slots
<1>7. Idle'
  BY <1>2, <1>6 DEF AppInv, Idle
<1>8. Announced'
  BY <1>1 DEF Announced
<1>9. QuotaKept'
  BY <1>2, <1>6 DEF AppInv, QuotaKept, Sizes
<1> QED BY <1>3, <1>5, <1>7, <1>8, <1>9 DEF AppInv

(* What a step that leaves the tids and the table alone has to keep. *)
LEMMA SameTids ==
    ASSUME Sizes, AppInv, slots' \in [Slots -> Record], runs' \in [Tids -> 0 .. MaxApps],
           \A i \in Slots : slots'[i].tid = slots[i].tid,
           thread' \in [Tids -> {"none", "ready", "run", "yield"}],
           \A t \in Tids : thread'[t] = "none" <=> thread[t] = "none",
           UNCHANGED <<count, starts, bootSlot>>
    PROVE  Types' /\ Matched' /\ Announced'
<1>1. Types'
  BY DEF AppInv, Types
<1>2. \A i \in 1 .. count : i \in Slots
  BY DEF AppInv, Types, Sizes, Slots
<1>3. \A i \in Slots : slots[i].tid # 0 => slots[i].tid \in Tids
  BY DEF AppInv, Types, Record, Sizes, Tids
<1>4. Matched'
  BY <1>2, <1>3 DEF AppInv, Matched
<1>5. Announced'
  <2>1. starts # 0 => starts \in Tids
    BY DEF AppInv, Types, Sizes, Tids
  <2> QED BY <1>2, <2>1 DEF AppInv, Announced
<1> QED BY <1>1, <1>4, <1>5

LEMMA HostKeeps ==
    ASSUME Sizes, AppInv, NEW t \in Tids, Host(t)
    PROVE  AppInv'
<1>1. /\ thread[t] = "ready" /\ thread' = [thread EXCEPT ![t] = "run"]
      /\ slots' = slots /\ UNCHANGED <<count, starts, bootSlot>>
  BY DEF Host
<1>2. runs' \in [Tids -> 0 .. MaxApps]
  BY DEF Host, AppInv, Types, Sizes
<1>3. Types' /\ Matched' /\ Announced'
  BY <1>1, <1>2, SameTids DEF AppInv, Types
<1>4. Idle'
  BY <1>1 DEF AppInv, Idle
<1>5. QuotaKept'
  <2>1. \A i \in 1 .. count : slots[i].tid # 0 => slots[i].tid \in Tids
    BY DEF AppInv, Types, Record, Sizes, Tids, Slots
  <2> QED BY <1>1, <2>1 DEF AppInv, Types, QuotaKept
<1> QED BY <1>3, <1>4, <1>5 DEF AppInv

LEMMA CooperateKeeps ==
    ASSUME Sizes, AppInv, NEW t \in Tids, Cooperate(t)
    PROVE  AppInv'
<1>1. thread[t] = "run" /\ UNCHANGED <<count, starts, bootSlot, runs>>
  BY DEF Cooperate
<1>2. PICK i \in 1 .. count : slots[i].tid = t /\ SlotOf(t) = {i} /\ First(SlotOf(t)) = i
  BY <1>1, OneSlot DEF AppInv
<1>3. /\ slots' = [slots EXCEPT ![i].slice = @ + 1]
      /\ thread' = IF slots[i].slice + 1 >= Quantum THEN [thread EXCEPT ![t] = "yield"] ELSE thread
  BY <1>2 DEF Cooperate
<1>4. /\ i \in Slots /\ slots[i] \in Record /\ slots \in [Slots -> Record] /\ t # 0
      /\ slots[i].slice \in Nat /\ slots[i].slice + 1 <= Quantum
  <2>1. i \in Slots /\ slots[i] \in Record /\ slots \in [Slots -> Record] /\ t # 0
    BY DEF AppInv, Types, Sizes, Slots, Tids
  <2>2. slots[i].slice \in Nat
    BY <2>1 DEF Record
  <2>3. slots[i].slice <= Quantum /\ slots[i].slice # Quantum
    BY <1>1, <1>2, <2>1 DEF AppInv, QuotaKept
  <2> QED BY <2>1, <2>2, <2>3 DEF Sizes
<1>5. /\ slots' \in [Slots -> Record]
      /\ slots'[i].slice = slots[i].slice + 1 /\ slots'[i].tid = t
      /\ \A j \in Slots : j # i => slots'[j] = slots[j]
  BY <1>2, <1>3, <1>4 DEF Record
<1>6. \A j \in Slots : slots'[j].tid = slots[j].tid
  BY <1>2, <1>5
<1>7. /\ thread' \in [Tids -> {"none", "ready", "run", "yield"}]
      /\ \A u \in Tids : u # t => thread'[u] = thread[u]
      /\ thread'[t] # "none" /\ (slots[i].slice + 1 = Quantum => thread'[t] = "yield")
  BY <1>1, <1>3, <1>4 DEF AppInv, Types, Sizes
<1>8. Types' /\ Matched' /\ Announced'
  BY <1>1, <1>5, <1>6, <1>7, SameTids DEF AppInv, Types
<1>9. \A j \in 1 .. count : j \in Slots /\ (j # i => slots[j].tid # t)
                            /\ (slots[j].tid # 0 => slots[j].tid \in Tids)
  BY <1>2, <1>4 DEF AppInv, Types, Matched, Record, Sizes, Slots, Tids
<1>10. Idle'
  BY <1>1, <1>4, <1>5, <1>9 DEF AppInv, Idle
<1>11. QuotaKept'
  BY <1>1, <1>4, <1>5, <1>7, <1>9 DEF AppInv, QuotaKept
<1> QED BY <1>8, <1>10, <1>11 DEF AppInv

LEMMA ResumeKeeps ==
    ASSUME Sizes, AppInv, NEW t \in Tids, Resume(t)
    PROVE  AppInv'
<1>1. /\ thread[t] = "yield" /\ thread' = [thread EXCEPT ![t] = "run"]
      /\ UNCHANGED <<count, starts, bootSlot, runs>>
  BY DEF Resume
<1>2. PICK i \in 1 .. count : slots[i].tid = t /\ SlotOf(t) = {i} /\ First(SlotOf(t)) = i
  BY <1>1, OneSlot DEF AppInv
<1>3. slots' = [slots EXCEPT ![i].slice = 0]
  BY <1>2 DEF Resume
<1>4. i \in Slots /\ slots[i] \in Record /\ slots \in [Slots -> Record] /\ t # 0
  BY DEF AppInv, Types, Sizes, Slots, Tids
<1>5. /\ slots' \in [Slots -> Record]
      /\ slots'[i].slice = 0 /\ slots'[i].tid = t
      /\ \A j \in Slots : j # i => slots'[j] = slots[j]
  BY <1>2, <1>3, <1>4 DEF Record
<1>6. \A j \in Slots : slots'[j].tid = slots[j].tid
  BY <1>2, <1>5
<1>7. /\ thread' \in [Tids -> {"none", "ready", "run", "yield"}]
      /\ \A u \in Tids : u # t => thread'[u] = thread[u]
      /\ thread'[t] # "none"
  BY <1>1 DEF AppInv, Types
<1>8. Types' /\ Matched' /\ Announced'
  BY <1>1, <1>5, <1>6, <1>7, SameTids DEF AppInv, Types
<1>9. \A j \in 1 .. count : j \in Slots /\ (j # i => slots[j].tid # t)
                            /\ (slots[j].tid # 0 => slots[j].tid \in Tids)
  BY <1>2, <1>4 DEF AppInv, Types, Matched, Record, Sizes, Slots, Tids
<1>10. Idle'
  BY <1>1, <1>4, <1>5, <1>9 DEF AppInv, Idle
<1>11. QuotaKept'
  BY <1>1, <1>4, <1>5, <1>7, <1>9 DEF AppInv, QuotaKept, Sizes
<1> QED BY <1>8, <1>10, <1>11 DEF AppInv

(* No slot is above its quantum, so supervise changes nothing. *)
LEMMA SuperviseIdle ==
    ASSUME Sizes, AppInv, Supervise
    PROVE  UNCHANGED appVars
<1>1. slots \in [Slots -> Record] /\ \A i \in Slots : slots[i].slice \in Nat
  BY DEF AppInv, Types, Record
<1>2. \A i \in Slots : i <= count => ~(slots[i].slice > Quantum)
  BY <1>1 DEF AppInv, Types, QuotaKept, Sizes, Slots
<1>3. slots' = [i \in Slots |-> slots[i]]
  BY <1>2 DEF Supervise
<1> QED BY <1>1, <1>3 DEF Supervise, appVars

LEMMA StopKeeps ==
    ASSUME Sizes, AppInv, NEW n \in Names, StopByName(n)
    PROVE  AppInv'
<1> DEFINE p == First({i \in 1 .. count : slots[i].name = n})
<1>1. slots' = [slots EXCEPT ![p].state = "Stopped"] /\ UNCHANGED <<count, starts, bootSlot, thread, runs>>
  BY DEF StopByName
<1> HIDE DEF p
<1>2. slots \in [Slots -> Record] /\ \A i \in 1 .. count : i \in Slots
  BY DEF AppInv, Types, Sizes, Slots
<1>3. /\ slots' \in [Slots -> Record]
      /\ \A i \in Slots : /\ slots'[i].tid = slots[i].tid /\ slots'[i].slice = slots[i].slice
                           /\ slots'[i].state = "Running" => slots[i].state = "Running"
  BY <1>1, <1>2 DEF Record
<1>4. Types' /\ Matched' /\ Announced'
  BY <1>1, <1>3, SameTids DEF AppInv, Types
<1>5. Idle' /\ QuotaKept'
  BY <1>1, <1>2, <1>3 DEF AppInv, Idle, QuotaKept
<1> QED BY <1>4, <1>5 DEF AppInv

LEMMA AppStep ==
    ASSUME Sizes
    PROVE  AppInv /\ [AppNext]_appVars => AppInv'
<1> SUFFICES ASSUME AppInv, [AppNext]_appVars PROVE AppInv'
  OBVIOUS
<1>0. CASE UNCHANGED appVars
  BY <1>0 DEF appVars, AppInv, Types, Matched, Idle, Announced, QuotaKept
<1>1. ASSUME NEW n \in Names, StartBuiltin(n) PROVE AppInv'
  <2>1. CASE Started(n)
    BY <1>1, <2>1, StartedKeeps DEF StartBuiltin
  <2>2. CASE slots' = Claim(n) /\ count' = count + 1 /\ UNCHANGED thread
    BY <1>1, <2>2, FailedKeeps DEF StartBuiltin
  <2> QED BY <1>1, <2>1, <2>2 DEF StartBuiltin
<1>2. ASSUME NEW n \in Names, StartUxi(n) PROVE AppInv'
  <2>1. CASE Started(n)
    BY <1>2, <2>1, StartedKeeps DEF StartUxi
  <2>2. CASE slots' = Claim(n) /\ UNCHANGED <<count, thread>>
    BY <1>2, <2>2, FailedKeeps DEF StartUxi
  <2> QED BY <1>2, <2>1, <2>2 DEF StartUxi
<1>3. ASSUME NEW n \in Names, StopByName(n) PROVE AppInv'
  BY <1>3, StopKeeps
<1>4. ASSUME NEW t \in Tids, Host(t) \/ Cooperate(t) \/ Resume(t) PROVE AppInv'
  BY <1>4, HostKeeps, CooperateKeeps, ResumeKeeps
<1>5. CASE Supervise
  BY <1>0, <1>5, SuperviseIdle
<1> QED BY <1>0, <1>1, <1>2, <1>3, <1>4, <1>5 DEF AppNext

(* cooperative_point alone keeps every application within its quantum, for any
   number of applications and any quantum; supervise never finds one above it. *)
THEOREM AppQuotaKept ==
    ASSUME Sizes
    PROVE  AppSpec => []QuotaKept
<1>1. AppInv => QuotaKept
  BY DEF AppInv
<1>2. AppInit => AppInv
  BY AppInitially
<1>3. AppInv /\ [AppNext]_appVars => AppInv'
  BY AppStep
<1> QED BY <1>1, <1>2, <1>3, PTL DEF AppSpec

(* Every host thread is accounted to exactly one slot, and a slot shown as running
   has a thread, however starts by start_builtin and start_uxi_path fail. *)
THEOREM AppThreadsListed ==
    ASSUME Sizes
    PROVE  AppSpec => []ThreadsListed
<1>1. ASSUME AppInv PROVE ThreadsListed
  <2>1. ASSUME NEW t \in Tids, thread[t] # "none" PROVE Cardinality(SlotOf(t)) = 1
    <3>1. PICK i \in 1 .. count : SlotOf(t) = {i}
      BY <1>1, <2>1, OneSlot DEF AppInv
    <3> QED BY <3>1, FS_Singleton
  <2>2. ASSUME NEW i \in 1 .. count, slots[i].state = "Running"
        PROVE  thread[slots[i].tid] # "none"
    <3>1. i \in Slots /\ slots[i].tid # 0
      BY <1>1, <2>2 DEF AppInv, Types, Idle, Sizes, Slots
    <3> QED BY <1>1, <3>1 DEF AppInv, Matched
  <2> QED BY <2>1, <2>2 DEF ThreadsListed
<1>2. AppInit => AppInv
  BY AppInitially
<1>3. AppInv /\ [AppNext]_appVars => AppInv'
  BY AppStep
<1> QED BY <1>1, <1>2, <1>3, PTL DEF AppSpec

(* A host thread that runs before another application is started enters the slot
   it was created for: app_service_host finds it in BOOT_SLOT. *)
THEOREM AppHandOver ==
    ASSUME Sizes
    PROVE  AppSpec => HandOver
<1> DEFINE Entered == \A t \in Tids : thread[t] = "ready" /\ thread'[t] = "run" /\ starts = t
                                        => runs'[t] \in SlotOf(t)
<1>1. ASSUME AppInv, [AppNext]_appVars PROVE [Entered]_appVars
  <2> SUFFICES ASSUME AppNext, NEW t \in Tids, thread[t] = "ready", thread'[t] = "run", starts = t
               PROVE  runs'[t] \in SlotOf(t)
    BY <1>1
  <2>1. Host(t)
    <3>1. ASSUME NEW n \in Names, StartBuiltin(n) \/ StartUxi(n) PROVE FALSE
      <4>1. thread' = thread \/ thread' = [thread EXCEPT ![starts + 1] = "ready"]
        BY <3>1 DEF StartBuiltin, StartUxi, Started
      <4> QED BY <1>1, <4>1 DEF AppInv, Types
    <3>2. ASSUME NEW n \in Names, StopByName(n) PROVE FALSE
      BY <3>2 DEF StopByName
    <3>3. ASSUME NEW u \in Tids, Host(u) PROVE u = t
      BY <1>1, <3>3 DEF Host, AppInv, Types
    <3>4. ASSUME NEW u \in Tids, Cooperate(u) PROVE FALSE
      <4>1. thread[u] = "run" /\ (thread' = thread \/ thread' = [thread EXCEPT ![u] = "yield"])
        BY <3>4 DEF Cooperate
      <4> QED BY <1>1, <4>1 DEF AppInv, Types
    <3>5. ASSUME NEW u \in Tids, Resume(u) PROVE FALSE
      BY <1>1, <3>5 DEF Resume, AppInv, Types
    <3>6. CASE Supervise
      BY <3>6 DEF Supervise
    <3> QED BY <3>1, <3>2, <3>3, <3>4, <3>5, <3>6 DEF AppNext
  <2>2. bootSlot \in 1 .. count /\ slots[bootSlot].tid = t
    BY <1>1 DEF AppInv, Announced, Tids
  <2>3. runs'[t] = bootSlot
    BY <1>1, <2>1, <2>2 DEF Host, AppInv, Types
  <2> QED BY <2>2, <2>3 DEF SlotOf
<1>2. AppInit => AppInv
  BY AppInitially
<1>3. AppInv /\ [AppNext]_appVars => AppInv'
  BY AppStep
<1> QED BY <1>1, <1>2, <1>3, PTL DEF AppSpec, HandOver

-----------------------------------------------------------------------------
(* Descriptors and pipes *)

FdRecord == [used : BOOLEAN, end : {"read", "write", "file"}, pipe : Nat, made : Nat]
PipeRecord == [used : BOOLEAN, readers : Nat, writers : Nat, bytes : Seq(Nat), made : Nat]

FdTypes ==
    /\ fds \in [Fds -> FdRecord]
    /\ \A f \in Fds : fds[f].end # "file" => fds[f].pipe \in PipeSlots
    /\ nextFd \in FirstFd .. FdTableMax /\ made \in Nat
    /\ \A f \in Fds : f >= nextFd => ~fds[f].used
    /\ pipes \in [PipeSlots -> PipeRecord]

(* An open end of slot s. *)
EndOf(f, s) == fds[f].used /\ fds[f].end # "file" /\ fds[f].pipe = s

(* Only a sys_pipe that used up the numbers leaves an end of a free slot behind. *)
LeftoversLast ==
    \A f \in Fds, s \in PipeSlots : EndOf(f, s) /\ ~pipes[s].used => nextFd = FdTableMax

DescriptorsInv == FdTypes /\ LeftoversLast /\ PipesPrivate /\ EndsCounted

LEMMA FdsAreNumbers ==
    /\ Fds \subseteq Nat \ {0} /\ \A f : f \in Fds <=> f \in Nat /\ FirstFd <= f /\ f < FdTableMax
    /\ IsFiniteSet(Fds) /\ FirstFd \in Nat \ {0} /\ FdTableMax \in Nat /\ FirstFd <= FdTableMax
<1>1. FirstFd \in Nat \ {0} /\ FdTableMax \in Nat /\ FirstFd <= FdTableMax
  BY DescriptorsAssumption
<1>2. IsFiniteSet(FirstFd .. FdTableMax - 1)
  BY <1>1, FS_Interval
<1> QED BY <1>1, <1>2 DEF Fds

(* The descriptors the next calls of alloc hand out. *)
LEMMA InstallOne ==
    ASSUME FdTypes, NEW a, Install(Unused(1), <<a>>)
    PROVE  /\ fds' = [f \in Fds |-> IF f = nextFd THEN a ELSE fds[f]]
           /\ nextFd' = IF nextFd \in Fds THEN nextFd + 1 ELSE nextFd
<1>0. nextFd \in Nat /\ 0 \notin Fds /\ nextFd + 1 - 1 = nextFd
  BY FdsAreNumbers DEF FdTypes
<1>1. DOMAIN <<a>> = {1} /\ <<a>>[1] = a
  OBVIOUS
<1>2. Unused(1)[1] = IF nextFd \in Fds THEN nextFd ELSE NoFd
  BY <1>0 DEF Unused
<1>3. \A f \in Fds : Unused(1)[1] = f <=> f = nextFd
  BY <1>0, <1>2 DEF NoFd
<1>4. ASSUME NEW f \in Fds PROVE fds'[f] = IF f = nextFd THEN a ELSE fds[f]
  BY <1>1, <1>3 DEF Install
<1>5. fds' = [f \in Fds |-> fds'[f]]
  BY DEF Install
<1>6. {i \in DOMAIN <<a>> : Unused(1)[i] # NoFd} = IF nextFd \in Fds THEN {1} ELSE {}
  BY <1>0, <1>1, <1>2 DEF NoFd
<1>7. nextFd' = nextFd + Cardinality({i \in DOMAIN <<a>> : Unused(1)[i] # NoFd})
  BY DEF Install
<1>8. nextFd' = IF nextFd \in Fds THEN nextFd + 1 ELSE nextFd
  BY <1>0, <1>6, <1>7, FS_EmptySet, FS_Singleton
<1> QED BY <1>4, <1>5, <1>8

LEMMA InstallTwo ==
    ASSUME FdTypes, NEW a, NEW b, Install(Unused(2), <<a, b>>)
    PROVE  /\ fds' = [f \in Fds |-> IF f = nextFd THEN a
                                    ELSE IF f = nextFd + 1 THEN b ELSE fds[f]]
           /\ nextFd' = IF nextFd + 1 \in Fds THEN nextFd + 2 ELSE FdTableMax
<1>0. nextFd \in Nat /\ 0 \notin Fds /\ nextFd + 1 - 1 = nextFd /\ nextFd + 2 - 1 = nextFd + 1
      /\ nextFd >= FirstFd /\ nextFd <= FdTableMax
  BY FdsAreNumbers DEF FdTypes
<1>1. DOMAIN <<a, b>> = {1, 2} /\ <<a, b>>[1] = a /\ <<a, b>>[2] = b
  OBVIOUS
<1>2. /\ Unused(2)[1] = IF nextFd \in Fds THEN nextFd ELSE NoFd
      /\ Unused(2)[2] = IF nextFd + 1 \in Fds THEN nextFd + 1 ELSE NoFd
  BY <1>0 DEF Unused
<1>3. \A f \in Fds : /\ Unused(2)[1] = f <=> f = nextFd
                     /\ Unused(2)[2] = f <=> f = nextFd + 1
  BY <1>0, <1>2 DEF NoFd
<1>4. ASSUME NEW f \in Fds
      PROVE  fds'[f] = IF f = nextFd THEN a ELSE IF f = nextFd + 1 THEN b ELSE fds[f]
  <2>1. fds'[f] = IF \E i \in {1, 2} : Unused(2)[i] = f
                  THEN <<a, b>>[CHOOSE i \in {1, 2} : Unused(2)[i] = f] ELSE fds[f]
    BY <1>1 DEF Install
  <2>2. f = nextFd => (CHOOSE i \in {1, 2} : Unused(2)[i] = f) = 1
    BY <1>0, <1>3
  <2>3. f = nextFd + 1 => (CHOOSE i \in {1, 2} : Unused(2)[i] = f) = 2
    BY <1>0, <1>3
  <2> QED BY <1>0, <1>1, <1>3, <2>1, <2>2, <2>3
<1>5. fds' = [f \in Fds |-> fds'[f]]
  BY DEF Install
<1>6. nextFd' = nextFd + Cardinality({i \in {1, 2} : Unused(2)[i] # NoFd})
  BY <1>1 DEF Install
<1>7. CASE nextFd + 1 \in Fds
  <2>1. nextFd \in Fds
    BY <1>0, <1>7, FdsAreNumbers
  <2>2. {i \in {1, 2} : Unused(2)[i] # NoFd} = {1} \cup {2}
    BY <1>0, <1>2, <1>7, <2>1 DEF NoFd
  <2>3. Cardinality({1} \cup {2}) = 2
    <3>1. IsFiniteSet({1}) /\ Cardinality({1}) = 1 /\ 2 \notin {1}
      BY FS_Singleton
    <3> QED BY <3>1, FS_AddElement
  <2> QED BY <1>4, <1>5, <1>6, <1>7, <2>2, <2>3
<1>8. CASE nextFd \in Fds /\ nextFd + 1 \notin Fds
  <2>1. {i \in {1, 2} : Unused(2)[i] # NoFd} = {1}
    BY <1>0, <1>2, <1>8 DEF NoFd
  <2>2. nextFd + 1 = FdTableMax
    BY <1>0, <1>8, FdsAreNumbers
  <2> QED BY <1>4, <1>5, <1>6, <1>8, <2>1, <2>2, FS_Singleton
<1>9. CASE nextFd \notin Fds /\ nextFd + 1 \notin Fds
  <2>1. {i \in {1, 2} : Unused(2)[i] # NoFd} = {}
    BY <1>0, <1>2, <1>9
  <2>2. nextFd = FdTableMax
    BY <1>0, <1>9, FdsAreNumbers
  <2> QED BY <1>0, <1>4, <1>5, <1>6, <1>9, <2>1, <2>2, FS_EmptySet
<1> QED BY <1>7, <1>8, <1>9

(* The least free slot, which alloc_pipe takes. *)
LEMMA PipeSlot ==
    ASSUME FdTypes, Pipe
    PROVE  \E slot \in PipeSlots : \E ok \in BOOLEAN :
             /\ ~pipes[slot].used /\ made' = made + 1
             /\ ok <=> nextFd + 1 \in Fds
             /\ fds' = [f \in Fds |->
                          IF f = nextFd THEN File("read", slot, made + 1)
                          ELSE IF f = nextFd + 1 THEN File("write", slot, made + 1) ELSE fds[f]]
             /\ nextFd' = IF ok THEN nextFd + 2 ELSE FdTableMax
             /\ pipes' = [pipes EXCEPT ![slot] = [used |-> ok, readers |-> 1, writers |-> 1,
                                                  bytes |-> <<>>, made |-> made + 1]]
<1> DEFINE free == {s \in PipeSlots : ~pipes[s].used}
           slot == CHOOSE s \in free : \A t \in free : s <= t
           ok == Unused(2)[1] # NoFd /\ Unused(2)[2] # NoFd
<1>1. free # {} /\ free \subseteq Nat
  BY DEF Pipe, PipeSlots
<1>2. \E s \in free : \A t \in free : s <= t
  <2> HIDE DEF free
  <2> QED BY <1>1, LeastNat
<1>3. slot \in free
  BY <1>2
<1>4. /\ made' = made + 1
      /\ Install(Unused(2), <<File("read", slot, made + 1), File("write", slot, made + 1)>>)
      /\ pipes' = [pipes EXCEPT ![slot] = [used |-> ok, readers |-> 1, writers |-> 1,
                                           bytes |-> <<>>, made |-> made + 1]]
  BY DEF Pipe
<1>5. nextFd \in Nat /\ 0 \notin Fds /\ nextFd >= FirstFd
  BY FdsAreNumbers DEF FdTypes
<1>6. /\ Unused(2)[1] = IF nextFd \in Fds THEN nextFd ELSE NoFd
      /\ Unused(2)[2] = IF nextFd + 1 \in Fds THEN nextFd + 1 ELSE NoFd
  BY <1>5 DEF Unused
<1>7. ok <=> nextFd + 1 \in Fds
  <2>1. nextFd + 1 \in Fds => nextFd \in Fds
    BY <1>5, FdsAreNumbers
  <2> QED BY <1>5, <1>6, <2>1 DEF NoFd
<1>8. slot \in PipeSlots /\ ~pipes[slot].used /\ ok \in BOOLEAN
  BY <1>3
<1> HIDE DEF slot, ok
<1>9. /\ fds' = [f \in Fds |->
                   IF f = nextFd THEN File("read", slot, made + 1)
                   ELSE IF f = nextFd + 1 THEN File("write", slot, made + 1) ELSE fds[f]]
      /\ nextFd' = IF nextFd + 1 \in Fds THEN nextFd + 2 ELSE FdTableMax
  BY <1>4, InstallTwo
<1> QED BY <1>4, <1>7, <1>8, <1>9

LEMMA EndsFinite ==
    ASSUME NEW s, NEW end
    PROVE  IsFiniteSet(Ends(s, end)) /\ Cardinality(Ends(s, end)) \in Nat
<1>1. Ends(s, end) \in SUBSET Fds
  BY DEF Ends
<1> QED BY <1>1, FdsAreNumbers, FS_Subset, FS_CardinalityType

-----------------------------------------------------------------------------
(* The types *)

LEMMA FdInitially == FdInit => DescriptorsInv
<1> SUFFICES ASSUME FdInit PROVE DescriptorsInv
  OBVIOUS
<1>1. fds \in [Fds -> FdRecord] /\ \A f \in Fds : ~fds[f].used /\ fds[f].end = "file"
  BY DEF FdInit, FdRecord
<1>2. pipes \in [PipeSlots -> PipeRecord] /\ \A s \in PipeSlots : ~pipes[s].used /\ pipes[s].bytes = <<>>
  BY DEF FdInit, PipeRecord
<1>3. nextFd \in FirstFd .. FdTableMax /\ made \in Nat
  BY FdsAreNumbers DEF FdInit
<1> QED BY <1>1, <1>2, <1>3
        DEF DescriptorsInv, FdTypes, LeftoversLast, EndOf, PipesPrivate, EndsCounted, Served

(* Changing one field of a pipe. *)
LEMMA SetUsed ==
    ASSUME NEW r \in PipeRecord, NEW x \in BOOLEAN
    PROVE  LET q == [r EXCEPT !.used = x] IN
             /\ q \in PipeRecord /\ q.used = x
             /\ q.readers = r.readers /\ q.writers = r.writers /\ q.bytes = r.bytes /\ q.made = r.made
BY DEF PipeRecord

LEMMA SetReaders ==
    ASSUME NEW r \in PipeRecord, NEW x \in Nat
    PROVE  LET q == [r EXCEPT !.readers = x] IN
             /\ q \in PipeRecord /\ q.readers = x
             /\ q.used = r.used /\ q.writers = r.writers /\ q.bytes = r.bytes /\ q.made = r.made
BY DEF PipeRecord

LEMMA SetWriters ==
    ASSUME NEW r \in PipeRecord, NEW x \in Nat
    PROVE  LET q == [r EXCEPT !.writers = x] IN
             /\ q \in PipeRecord /\ q.writers = x
             /\ q.used = r.used /\ q.readers = r.readers /\ q.bytes = r.bytes /\ q.made = r.made
BY DEF PipeRecord

LEMMA SetBytes ==
    ASSUME NEW r \in PipeRecord, NEW x \in Seq(Nat)
    PROVE  LET q == [r EXCEPT !.bytes = x] IN
             /\ q \in PipeRecord /\ q.bytes = x
             /\ q.used = r.used /\ q.readers = r.readers /\ q.writers = r.writers /\ q.made = r.made
BY DEF PipeRecord

(* What pipe_close leaves in the slot. *)
LEMMA CloseEnd ==
    ASSUME FdTypes, NEW s \in PipeSlots, NEW end \in {"read", "write"}
    PROVE  \E r, w \in Nat :
             /\ r = IF end = "read" /\ pipes[s].readers > 0
                    THEN pipes[s].readers - 1 ELSE pipes[s].readers
             /\ w = IF end = "write" /\ pipes[s].writers > 0
                    THEN pipes[s].writers - 1 ELSE pipes[s].writers
             /\ PipeClose(s, end) \in [PipeSlots -> PipeRecord]
             /\ \A t \in PipeSlots \ {s} : PipeClose(s, end)[t] = pipes[t]
             /\ PipeClose(s, end)[s].used = (r > 0 \/ w > 0)
             /\ PipeClose(s, end)[s].readers = r /\ PipeClose(s, end)[s].writers = w
             /\ PipeClose(s, end)[s].bytes = pipes[s].bytes
             /\ PipeClose(s, end)[s].made = pipes[s].made
<1>1. pipes[s] \in PipeRecord /\ pipes \in [PipeSlots -> PipeRecord]
  BY DEF FdTypes
<1>2. CASE end = "read"
  <2> DEFINE x == IF pipes[s].readers > 0 THEN pipes[s].readers - 1 ELSE 0
             p == [pipes[s] EXCEPT !.readers = x]
             q == [p EXCEPT !.used = p.readers > 0 \/ p.writers > 0]
  <2>1. PipeClose(s, end) = [pipes EXCEPT ![s] = q]
    BY <1>2 DEF PipeClose
  <2>2. x \in Nat /\ x = IF pipes[s].readers > 0 THEN pipes[s].readers - 1 ELSE pipes[s].readers
    BY <1>1 DEF PipeRecord
  <2> HIDE DEF x, q
  <2>3. /\ p \in PipeRecord /\ p.readers = x /\ p.writers = pipes[s].writers
        /\ p.bytes = pipes[s].bytes /\ p.made = pipes[s].made
    BY <1>1, <2>2, SetReaders
  <2> HIDE DEF p
  <2>4. /\ q \in PipeRecord /\ q.used = (p.readers > 0 \/ p.writers > 0)
        /\ q.readers = p.readers /\ q.writers = p.writers /\ q.bytes = p.bytes /\ q.made = p.made
    BY <2>3, SetUsed DEF q
  <2>5. /\ PipeClose(s, end) \in [PipeSlots -> PipeRecord] /\ PipeClose(s, end)[s] = q
        /\ \A t \in PipeSlots \ {s} : PipeClose(s, end)[t] = pipes[t]
    BY <1>1, <2>1, <2>4
  <2>6. pipes[s].writers \in Nat
    BY <1>1 DEF PipeRecord
  <2> QED BY <1>2, <2>2, <2>3, <2>4, <2>5, <2>6
<1>3. CASE end = "write"
  <2> DEFINE x == IF pipes[s].writers > 0 THEN pipes[s].writers - 1 ELSE 0
             p == [pipes[s] EXCEPT !.writers = x]
             q == [p EXCEPT !.used = p.readers > 0 \/ p.writers > 0]
  <2>1. PipeClose(s, end) = [pipes EXCEPT ![s] = q]
    BY <1>3 DEF PipeClose
  <2>2. x \in Nat /\ x = IF pipes[s].writers > 0 THEN pipes[s].writers - 1 ELSE pipes[s].writers
    BY <1>1 DEF PipeRecord
  <2> HIDE DEF x, q
  <2>3. /\ p \in PipeRecord /\ p.writers = x /\ p.readers = pipes[s].readers
        /\ p.bytes = pipes[s].bytes /\ p.made = pipes[s].made
    BY <1>1, <2>2, SetWriters
  <2> HIDE DEF p
  <2>4. /\ q \in PipeRecord /\ q.used = (p.readers > 0 \/ p.writers > 0)
        /\ q.readers = p.readers /\ q.writers = p.writers /\ q.bytes = p.bytes /\ q.made = p.made
    BY <2>3, SetUsed DEF q
  <2>5. /\ PipeClose(s, end) \in [PipeSlots -> PipeRecord] /\ PipeClose(s, end)[s] = q
        /\ \A t \in PipeSlots \ {s} : PipeClose(s, end)[t] = pipes[t]
    BY <1>1, <2>1, <2>4
  <2>6. pipes[s].readers \in Nat
    BY <1>1 DEF PipeRecord
  <2> QED BY <1>3, <2>2, <2>3, <2>4, <2>5, <2>6
<1> QED BY <1>2, <1>3

LEMMA FdTypesStep == ASSUME FdTypes, FdNext PROVE FdTypes'
<1>0. /\ nextFd \in Nat /\ nextFd >= FirstFd /\ nextFd <= FdTableMax /\ FdTableMax \in Nat
      /\ made \in Nat /\ FirstFd \in Nat /\ Fds \subseteq Nat
  BY FdsAreNumbers DEF FdTypes
<1>1. CASE Open
  <2>1. /\ fds' = [f \in Fds |-> IF f = nextFd THEN File("file", 0, 0) ELSE fds[f]]
        /\ nextFd' = IF nextFd \in Fds THEN nextFd + 1 ELSE nextFd
        /\ UNCHANGED <<pipes, made>>
    BY <1>1, InstallOne DEF Open
  <2>2. File("file", 0, 0) \in FdRecord /\ File("file", 0, 0).end = "file"
    BY DEF File, FdRecord
  <2>3. nextFd' \in FirstFd .. FdTableMax
    BY <1>0, <2>1, FdsAreNumbers
  <2>4. \A f \in Fds : f >= nextFd' => f # nextFd /\ f >= nextFd
    BY <1>0, <2>1
  <2> QED BY <2>1, <2>2, <2>3, <2>4 DEF FdTypes
<1>2. CASE Pipe
  <2>1. PICK slot \in PipeSlots, ok \in BOOLEAN :
             /\ ~pipes[slot].used /\ made' = made + 1
             /\ ok <=> nextFd + 1 \in Fds
             /\ fds' = [f \in Fds |->
                          IF f = nextFd THEN File("read", slot, made + 1)
                          ELSE IF f = nextFd + 1 THEN File("write", slot, made + 1) ELSE fds[f]]
             /\ nextFd' = IF ok THEN nextFd + 2 ELSE FdTableMax
             /\ pipes' = [pipes EXCEPT ![slot] = [used |-> ok, readers |-> 1, writers |-> 1,
                                                  bytes |-> <<>>, made |-> made + 1]]
    BY <1>2, PipeSlot
  <2>2. /\ File("read", slot, made + 1) \in FdRecord /\ File("write", slot, made + 1) \in FdRecord
        /\ File("read", slot, made + 1).pipe = slot /\ File("write", slot, made + 1).pipe = slot
    BY <1>0 DEF File, FdRecord, PipeSlots
  <2>3. pipes' \in [PipeSlots -> PipeRecord]
    <3>1. [used |-> ok, readers |-> 1, writers |-> 1, bytes |-> <<>>, made |-> made + 1]
            \in PipeRecord
      BY <1>0 DEF PipeRecord
    <3> QED BY <2>1, <3>1 DEF FdTypes
  <2>4. nextFd' \in FirstFd .. FdTableMax
    BY <1>0, <2>1, FdsAreNumbers
  <2>5. \A f \in Fds : f >= nextFd' => f # nextFd /\ f # nextFd + 1 /\ f >= nextFd
    BY <1>0, <2>1, FdsAreNumbers
  <2> QED BY <1>0, <2>1, <2>2, <2>3, <2>4, <2>5 DEF FdTypes
<1>3. ASSUME NEW f \in Fds, Close(f) PROVE FdTypes'
  <2>1. fds[f] \in FdRecord /\ (fds[f].end # "file" => fds[f].pipe \in PipeSlots)
    BY DEF FdTypes
  <2>2. pipes' \in [PipeSlots -> PipeRecord]
    BY <1>3, <2>1, CloseEnd DEF Close, FdRecord, FdTypes
  <2>3. /\ fds' \in [Fds -> FdRecord]
        /\ \A g \in Fds : /\ fds'[g].end = fds[g].end /\ fds'[g].pipe = fds[g].pipe
                          /\ fds'[g].used => fds[g].used
    BY <1>3 DEF Close, FdRecord, FdTypes
  <2> QED BY <1>3, <2>2, <2>3 DEF Close, FdTypes
<1>4. ASSUME NEW f \in Fds, Write(f) \/ Read(f) PROVE FdTypes'
  <2>1. fds[f].made \in Nat /\ fds[f].pipe \in PipeSlots /\ pipes[fds[f].pipe] \in PipeRecord
    BY <1>4 DEF Write, Read, Served, FdTypes, FdRecord
  <2>2. pipes[fds[f].pipe].bytes \in Seq(Nat)
    BY <2>1 DEF PipeRecord
  <2>3. pipes' \in [PipeSlots -> PipeRecord]
    <3>1. CASE Write(f)
      <4>1. Append(pipes[fds[f].pipe].bytes, fds[f].made) \in Seq(Nat)
        BY <2>1, <2>2
      <4> QED BY <2>1, <3>1, <4>1, SetBytes DEF Write, FdTypes
    <3>2. CASE Read(f)
      <4>1. Tail(pipes[fds[f].pipe].bytes) \in Seq(Nat)
        BY <2>2, <3>2 DEF Read
      <4> QED BY <2>1, <3>2, <4>1, SetBytes DEF Read, FdTypes
    <3> QED BY <1>4, <3>1, <3>2
  <2> QED BY <1>4, <2>3 DEF Write, Read, FdTypes
<1> QED BY <1>1, <1>2, <1>3, <1>4 DEF FdNext

-----------------------------------------------------------------------------
(* The pipes *)

LEMMA OpenStep == ASSUME DescriptorsInv, Open, FdTypes' PROVE DescriptorsInv'
<1>1. /\ fds' = [f \in Fds |-> IF f = nextFd THEN File("file", 0, 0) ELSE fds[f]]
      /\ nextFd' = IF nextFd \in Fds THEN nextFd + 1 ELSE nextFd
      /\ UNCHANGED <<pipes, made>>
  BY InstallOne DEF DescriptorsInv, Open
<1>2. File("file", 0, 0).end = "file" /\ nextFd \in Nat /\ FdTableMax \in Nat
  BY FdsAreNumbers DEF File, DescriptorsInv, FdTypes
<1>3. \A f \in Fds : f = nextFd => ~fds[f].used
  BY <1>2 DEF DescriptorsInv, FdTypes
<1>4. \A f \in Fds : fds'[f].used /\ fds'[f].end # "file" <=> fds[f].used /\ fds[f].end # "file"
  BY <1>1, <1>2, <1>3
<1>5. \A f \in Fds : fds'[f].end # "file" /\ fds'[f].used => fds'[f] = fds[f]
  BY <1>1, <1>2
<1>6. \A s \in PipeSlots, end \in {"read", "write"} : Ends(s, end)' = Ends(s, end)
  BY <1>4, <1>5 DEF Ends
<1>7. LeftoversLast'
  <2>1. ASSUME NEW f \in Fds, NEW s \in PipeSlots, EndOf(f, s)', ~pipes[s].used
        PROVE  nextFd = FdTableMax
    BY <1>4, <1>5, <2>1 DEF EndOf, DescriptorsInv, LeftoversLast
  <2>2. FdTableMax \notin Fds
    BY <1>2, FdsAreNumbers
  <2> QED BY <1>1, <2>1, <2>2 DEF LeftoversLast
<1>8. PipesPrivate'
  BY <1>1, <1>4, <1>5 DEF DescriptorsInv, PipesPrivate, Served
<1>9. EndsCounted'
  BY <1>1, <1>6 DEF DescriptorsInv, EndsCounted
<1> QED BY <1>7, <1>8, <1>9 DEF DescriptorsInv

LEMMA PipeStep == ASSUME DescriptorsInv, Pipe, FdTypes' PROVE DescriptorsInv'
<1>0. /\ nextFd \in Nat /\ nextFd >= FirstFd /\ nextFd <= FdTableMax /\ FdTableMax \in Nat
      /\ \A f \in Fds : f \in Nat /\ f >= FirstFd /\ f < FdTableMax
      /\ pipes \in [PipeSlots -> PipeRecord] /\ made \in Nat
  BY FdsAreNumbers DEF DescriptorsInv, FdTypes
<1>1. PICK slot \in PipeSlots, ok \in BOOLEAN :
             /\ ~pipes[slot].used /\ made' = made + 1
             /\ ok <=> nextFd + 1 \in Fds
             /\ fds' = [f \in Fds |->
                          IF f = nextFd THEN File("read", slot, made + 1)
                          ELSE IF f = nextFd + 1 THEN File("write", slot, made + 1) ELSE fds[f]]
             /\ nextFd' = IF ok THEN nextFd + 2 ELSE FdTableMax
             /\ pipes' = [pipes EXCEPT ![slot] = [used |-> ok, readers |-> 1, writers |-> 1,
                                                  bytes |-> <<>>, made |-> made + 1]]
  BY PipeSlot DEF DescriptorsInv
<1>2. \A e \in {"read", "write"} :
         /\ File(e, slot, made + 1).used = TRUE /\ File(e, slot, made + 1).end = e
         /\ File(e, slot, made + 1).pipe = slot /\ File(e, slot, made + 1).made = made + 1
  BY DEF File
<1>3. /\ pipes'[slot].used = ok /\ pipes'[slot].readers = 1 /\ pipes'[slot].writers = 1
      /\ pipes'[slot].bytes = <<>> /\ pipes'[slot].made = made + 1
      /\ \A s \in PipeSlots \ {slot} : pipes'[s] = pipes[s]
  BY <1>0, <1>1
<1>4. \A f \in Fds : f = nextFd \/ f = nextFd + 1 => ~fds[f].used
  BY <1>0 DEF DescriptorsInv, FdTypes
<1>5. /\ \A f \in Fds : f = nextFd => fds'[f] = File("read", slot, made + 1)
      /\ \A f \in Fds : f = nextFd + 1 => fds'[f] = File("write", slot, made + 1)
      /\ \A f \in Fds : f # nextFd /\ f # nextFd + 1 => fds'[f] = fds[f]
  BY <1>0, <1>1
<1>6. \A f \in Fds, s \in PipeSlots \ {slot} :
         \A e \in {"read", "write"} :
            fds'[f].used /\ fds'[f].pipe = s /\ fds'[f].end = e
              <=> fds[f].used /\ fds[f].pipe = s /\ fds[f].end = e
  BY <1>2, <1>4, <1>5
<1>7. \A s \in PipeSlots \ {slot}, e \in {"read", "write"} : Ends(s, e)' = Ends(s, e)
  BY <1>6 DEF Ends
<1>8. \A s \in PipeSlots \ {slot} :
         \A f \in Fds : EndOf(f, s)' => EndOf(f, s) /\ fds'[f] = fds[f]
  BY <1>2, <1>5 DEF EndOf
<1>9. ok => nextFd # FdTableMax /\ nextFd \in Fds /\ nextFd + 1 \in Fds
  BY <1>0, <1>1, FdsAreNumbers
<1>10. ok => \A f \in Fds : ~EndOf(f, slot)
  BY <1>1, <1>9 DEF DescriptorsInv, LeftoversLast
<1>11. ok => \A f \in Fds : EndOf(f, slot)' => f = nextFd \/ f = nextFd + 1
  BY <1>5, <1>10 DEF EndOf
<1>12. LeftoversLast'
  <2>1. CASE ok
    BY <1>1, <1>3, <1>8, <1>9, <2>1 DEF DescriptorsInv, LeftoversLast
  <2>2. CASE ~ok
    BY <1>1, <2>2 DEF LeftoversLast
  <2> QED BY <2>1, <2>2
<1>13. PipesPrivate'
  <2>1. ASSUME NEW f \in Fds, Served(f)' PROVE fds'[f].made = pipes'[fds'[f].pipe].made
    <3>1. fds'[f].pipe \in PipeSlots /\ EndOf(f, fds[f].pipe)' /\ pipes'[fds'[f].pipe].used
      BY <2>1 DEF Served, FdTypes, EndOf
    <3>2. CASE fds'[f].pipe = slot
      BY <1>2, <1>3, <1>5, <1>11, <3>1, <3>2
    <3>3. CASE fds'[f].pipe # slot
      BY <1>3, <1>8, <3>1, <3>3 DEF DescriptorsInv, PipesPrivate, Served, EndOf
    <3> QED BY <3>2, <3>3
  <2>2. \A s \in PipeSlots : \A i \in DOMAIN pipes'[s].bytes : pipes'[s].bytes[i] = pipes'[s].made
    BY <1>3 DEF DescriptorsInv, PipesPrivate
  <2> QED BY <2>1, <2>2 DEF PipesPrivate
<1>14. EndsCounted'
  <2>1. ASSUME NEW s \in PipeSlots, s # slot, pipes'[s].used
        PROVE  /\ pipes'[s].readers = Cardinality(Ends(s, "read")')
               /\ pipes'[s].writers = Cardinality(Ends(s, "write")')
               /\ Ends(s, "read")' \cup Ends(s, "write")' # {}
    BY <1>3, <1>7, <2>1 DEF DescriptorsInv, EndsCounted
  <2>2. ASSUME ok
        PROVE  /\ pipes'[slot].readers = Cardinality(Ends(slot, "read")')
               /\ pipes'[slot].writers = Cardinality(Ends(slot, "write")')
               /\ Ends(slot, "read")' \cup Ends(slot, "write")' # {}
    <3>1. /\ fds'[nextFd].used /\ fds'[nextFd].pipe = slot /\ fds'[nextFd].end = "read"
          /\ fds'[nextFd + 1].used /\ fds'[nextFd + 1].pipe = slot
          /\ fds'[nextFd + 1].end = "write" /\ nextFd # nextFd + 1
      BY <1>0, <1>2, <1>5, <1>9, <2>2
    <3>2. ASSUME NEW f \in Fds, fds'[f].used, fds'[f].pipe = slot,
                 fds'[f].end \in {"read", "write"}
          PROVE  f = nextFd \/ f = nextFd + 1
      BY <1>11, <2>2, <3>2 DEF EndOf
    <3>3. Ends(slot, "read")' = {nextFd} /\ Ends(slot, "write")' = {nextFd + 1}
      BY <1>9, <2>2, <3>1, <3>2 DEF Ends
    <3> QED BY <1>3, <3>3, FS_Singleton
  <2> QED BY <1>3, <2>1, <2>2 DEF EndsCounted
<1> QED BY <1>12, <1>13, <1>14 DEF DescriptorsInv

LEMMA CloseStep ==
    ASSUME DescriptorsInv, NEW f \in Fds, Close(f), FdTypes' PROVE DescriptorsInv'
<1>0. /\ fds[f] \in FdRecord /\ fds \in [Fds -> FdRecord] /\ nextFd' = nextFd
      /\ fds[f].end # "file" => fds[f].pipe \in PipeSlots
      /\ fds[f].used /\ fds' = [fds EXCEPT ![f].used = FALSE]
  BY DEF Close, DescriptorsInv, FdTypes
<1>1. /\ ~fds'[f].used
      /\ \A g \in Fds \ {f} : fds'[g] = fds[g]
      /\ \A g \in Fds : fds'[g].pipe = fds[g].pipe /\ fds'[g].end = fds[g].end
                        /\ fds'[g].made = fds[g].made
  BY <1>0 DEF FdRecord
<1>2. \A g \in Fds, s \in PipeSlots : EndOf(g, s)' <=> g # f /\ EndOf(g, s)
  BY <1>1 DEF EndOf
<1>3. \A s \in PipeSlots, e \in {"read", "write"} :
         Ends(s, e)' = IF fds[f].pipe = s /\ fds[f].end = e THEN Ends(s, e) \ {f} ELSE Ends(s, e)
  BY <1>0, <1>1 DEF Ends
<1>4. CASE fds[f].end = "file" \/ ~pipes[fds[f].pipe].used
  <2>1. pipes' = pipes
    BY <1>4 DEF Close
  <2>2. LeftoversLast'
    BY <1>0, <1>2, <2>1 DEF DescriptorsInv, LeftoversLast
  <2>3. PipesPrivate'
    BY <1>0, <1>1, <2>1 DEF DescriptorsInv, PipesPrivate, Served
  <2>4. \A s \in PipeSlots, e \in {"read", "write"} :
           pipes[s].used => Ends(s, e)' = Ends(s, e)
    BY <1>3, <1>4
  <2>5. EndsCounted'
    BY <2>1, <2>4 DEF DescriptorsInv, EndsCounted
  <2> QED BY <2>2, <2>3, <2>5 DEF DescriptorsInv
<1>5. CASE fds[f].end # "file" /\ pipes[fds[f].pipe].used
  <2>0. PICK s \in PipeSlots, e \in {"read", "write"} : s = fds[f].pipe /\ e = fds[f].end
    BY <1>0, <1>5 DEF FdRecord
  <2> DEFINE other == IF e = "read" THEN "write" ELSE "read"
  <2>1. s \in PipeSlots /\ e \in {"read", "write"} /\ pipes' = PipeClose(s, e) /\ f \in Ends(s, e)
    BY <1>0, <1>5, <2>0 DEF Close, Ends
  <2>2. /\ Ends(s, e)' = Ends(s, e) \ {f} /\ Ends(s, other)' = Ends(s, other)
        /\ \A t \in PipeSlots \ {s}, d \in {"read", "write"} : Ends(t, d)' = Ends(t, d)
    BY <1>3, <2>0
  <2>3. /\ pipes[s].used /\ pipes[s].readers = Cardinality(Ends(s, "read"))
        /\ pipes[s].writers = Cardinality(Ends(s, "write"))
    BY <1>5, <2>0 DEF DescriptorsInv, EndsCounted
  <2>4. Cardinality(Ends(s, e)') = Cardinality(Ends(s, e)) - 1 /\ Cardinality(Ends(s, e)) > 0
    <3>1. IsFiniteSet(Ends(s, e)) /\ Cardinality(Ends(s, e)) \in Nat
      BY EndsFinite
    <3>2. Cardinality(Ends(s, e)) # 0
      BY <2>1, <3>1, FS_EmptySet
    <3> QED BY <2>1, <2>2, <3>1, <3>2, FS_RemoveElement
  <2>5. PICK r \in Nat, w \in Nat :
             /\ r = IF e = "read" /\ pipes[s].readers > 0
                    THEN pipes[s].readers - 1 ELSE pipes[s].readers
             /\ w = IF e = "write" /\ pipes[s].writers > 0
                    THEN pipes[s].writers - 1 ELSE pipes[s].writers
             /\ \A t \in PipeSlots \ {s} : pipes'[t] = pipes[t]
             /\ pipes'[s].used = (r > 0 \/ w > 0)
             /\ pipes'[s].readers = r /\ pipes'[s].writers = w
             /\ pipes'[s].bytes = pipes[s].bytes
             /\ pipes'[s].made = pipes[s].made
    BY <2>1, CloseEnd DEF DescriptorsInv
  <2>6. r = Cardinality(Ends(s, "read")') /\ w = Cardinality(Ends(s, "write")')
    BY <2>1, <2>2, <2>3, <2>4, <2>5
  <2>7. r > 0 \/ w > 0 <=> Ends(s, "read")' \cup Ends(s, "write")' # {}
    <3>1. \A d \in {"read", "write"} : IsFiniteSet(Ends(s, d)')
      BY <2>1, <2>2, EndsFinite, FS_RemoveElement
    <3>2. \A d \in {"read", "write"} : Cardinality(Ends(s, d)') = 0 <=> Ends(s, d)' = {}
      BY <3>1, FS_EmptySet
    <3> QED BY <2>6, <3>2
  <2>8. EndsCounted'
    BY <2>2, <2>5, <2>6, <2>7 DEF DescriptorsInv, EndsCounted
  <2>9. \A g \in Fds : EndOf(g, s)' => pipes'[s].used
    <3>1. \A g \in Fds : EndOf(g, s)' => g \in Ends(s, "read")' \/ g \in Ends(s, "write")'
      BY DEF EndOf, Ends, FdTypes, FdRecord
    <3> QED BY <2>5, <2>7, <3>1
  <2>10. LeftoversLast'
    BY <1>0, <1>2, <2>5, <2>9 DEF DescriptorsInv, LeftoversLast
  <2>11. PipesPrivate'
    <3>1. ASSUME NEW g \in Fds, Served(g)' PROVE fds'[g].made = pipes'[fds'[g].pipe].made
      <4>1. g # f /\ fds'[g] = fds[g] /\ fds[g].pipe \in PipeSlots
        BY <1>1, <3>1 DEF Served, DescriptorsInv, FdTypes
      <4>2. pipes[fds[g].pipe].used /\ pipes'[fds[g].pipe].made = pipes[fds[g].pipe].made
        BY <2>3, <2>5, <3>1, <4>1 DEF Served
      <4> QED BY <3>1, <4>1, <4>2 DEF Served, DescriptorsInv, PipesPrivate
    <3>2. \A t \in PipeSlots : pipes'[t].bytes = pipes[t].bytes /\ pipes'[t].made = pipes[t].made
      BY <2>5
    <3> QED BY <3>1, <3>2 DEF DescriptorsInv, PipesPrivate
  <2> QED BY <2>8, <2>10, <2>11 DEF DescriptorsInv
<1> QED BY <1>4, <1>5

LEMMA BytesStep ==
    ASSUME DescriptorsInv, NEW f \in Fds, Write(f) \/ Read(f), FdTypes' PROVE DescriptorsInv'
<1> DEFINE s == fds[f].pipe
<1>1. /\ UNCHANGED <<fds, nextFd>> /\ s \in PipeSlots /\ pipes \in [PipeSlots -> PipeRecord]
      /\ fds[f].made = pipes[s].made /\ fds[f].made \in Nat
  BY DEF Write, Read, Served, DescriptorsInv, FdTypes, FdRecord, PipesPrivate
<1>2. PICK b \in Seq(Nat) :
         /\ pipes' = [pipes EXCEPT ![s].bytes = b]
         /\ \A i \in DOMAIN b : b[i] = pipes[s].made
  <2>1. pipes[s].bytes \in Seq(Nat) /\ \A i \in DOMAIN pipes[s].bytes : pipes[s].bytes[i] = pipes[s].made
    BY <1>1 DEF PipeRecord, DescriptorsInv, PipesPrivate
  <2>2. CASE Write(f)
    <3>1. Append(pipes[s].bytes, fds[f].made) \in Seq(Nat)
      BY <1>1, <2>1
    <3>2. \A i \in DOMAIN Append(pipes[s].bytes, fds[f].made) :
             Append(pipes[s].bytes, fds[f].made)[i] = pipes[s].made
      BY <1>1, <2>1
    <3> QED BY <2>2, <3>1, <3>2 DEF Write
  <2>3. CASE Read(f)
    <3>1. Tail(pipes[s].bytes) \in Seq(Nat)
      BY <2>1, <2>3 DEF Read
    <3>2. ASSUME NEW i \in DOMAIN Tail(pipes[s].bytes)
          PROVE  Tail(pipes[s].bytes)[i] = pipes[s].made
      <4>1. pipes[s].bytes # <<>>
        BY <2>3 DEF Read
      <4>2. /\ Len(Tail(pipes[s].bytes)) = Len(pipes[s].bytes) - 1
            /\ DOMAIN Tail(pipes[s].bytes) = 1 .. Len(Tail(pipes[s].bytes))
            /\ DOMAIN pipes[s].bytes = 1 .. Len(pipes[s].bytes)
            /\ Len(pipes[s].bytes) \in Nat
        BY <2>1, <3>1, <4>1, LenProperties, HeadTailProperties
      <4>3. Tail(pipes[s].bytes)[i] = pipes[s].bytes[i + 1] /\ i + 1 \in DOMAIN pipes[s].bytes
        BY <2>1, <4>1, <4>2, HeadTailProperties
      <4> QED BY <2>1, <4>3
    <3> QED BY <2>3, <3>1, <3>2 DEF Read
  <2> QED BY <2>2, <2>3
<1>3. /\ pipes'[s].used = pipes[s].used /\ pipes'[s].made = pipes[s].made /\ pipes'[s].bytes = b
      /\ pipes'[s].readers = pipes[s].readers /\ pipes'[s].writers = pipes[s].writers
      /\ \A t \in PipeSlots \ {s} : pipes'[t] = pipes[t]
  <2> HIDE DEF s
  <2>1. pipes[s] \in PipeRecord
    BY <1>1
  <2> QED BY <1>1, <1>2, <2>1, SetBytes
<1>4. \A t \in PipeSlots, e \in {"read", "write"} : Ends(t, e)' = Ends(t, e)
  BY <1>1 DEF Ends
<1> HIDE DEF s
<1>5. \A t \in PipeSlots : /\ pipes'[t].used = pipes[t].used /\ pipes'[t].made = pipes[t].made
                           /\ pipes'[t].readers = pipes[t].readers
                           /\ pipes'[t].writers = pipes[t].writers
  BY <1>3
<1>6. LeftoversLast' /\ EndsCounted'
  BY <1>1, <1>4, <1>5 DEF DescriptorsInv, LeftoversLast, EndOf, EndsCounted
<1>7. PipesPrivate'
  <2>1. \A g \in Fds : Served(g)' => fds'[g].made = pipes'[fds'[g].pipe].made
    BY <1>1, <1>5 DEF Served, DescriptorsInv, FdTypes, PipesPrivate
  <2>2. \A t \in PipeSlots : \A i \in DOMAIN pipes'[t].bytes : pipes'[t].bytes[i] = pipes'[t].made
    BY <1>2, <1>3 DEF DescriptorsInv, PipesPrivate
  <2> QED BY <2>1, <2>2 DEF PipesPrivate
<1> QED BY <1>6, <1>7 DEF DescriptorsInv

LEMMA DescriptorsStep == ASSUME DescriptorsInv, [FdNext]_fdVars PROVE DescriptorsInv'
<1>1. CASE FdNext
  <2>1. FdTypes'
    BY <1>1, FdTypesStep DEF DescriptorsInv
  <2> QED BY <1>1, <2>1, OpenStep, PipeStep, CloseStep, BytesStep DEF FdNext
<1>2. CASE UNCHANGED fdVars
  <2>1. fds' = fds /\ nextFd' = nextFd /\ pipes' = pipes /\ made' = made
    BY <1>2 DEF fdVars
  <2>2. FdTypes' /\ LeftoversLast'
    BY <2>1 DEF DescriptorsInv, FdTypes, LeftoversLast, EndOf
  <2>3. PipesPrivate'
    BY <2>1 DEF DescriptorsInv, PipesPrivate, Served
  <2>4. EndsCounted'
    BY <2>1 DEF DescriptorsInv, EndsCounted, Ends
  <2> QED BY <2>2, <2>3, <2>4 DEF DescriptorsInv
<1> QED BY <1>1, <1>2

(* The inductive invariant of the descriptor table and the pipes behind it,
   across create_pipe's failures. *)
THEOREM DescriptorsInvariant == FdSpec => []DescriptorsInv
<1>1. DescriptorsInv /\ [FdNext]_fdVars => DescriptorsInv'
  BY DescriptorsStep
<1> QED BY <1>1, FdInitially, PTL DEF FdSpec

(* fs/pipe.rs:82-188: a descriptor that is served belongs to the pipe now in its
   slot, and the bytes there were written to that pipe, for tables of every size:
   also after a sys_pipe that could not have its second descriptor. *)
THEOREM FdPipesPrivate == FdSpec => []PipesPrivate
<1>1. DescriptorsInv => PipesPrivate
  BY DEF DescriptorsInv
<1> QED BY <1>1, DescriptorsInvariant, PTL

(* fs/pipe.rs:132-150: the reader and writer counts of a slot in use are the
   descriptors open on it, so it is given back with the last of them. *)
THEOREM FdEndsCounted == FdSpec => []EndsCounted
<1>1. DescriptorsInv => EndsCounted
  BY DEF DescriptorsInv
<1> QED BY <1>1, DescriptorsInvariant, PTL

-----------------------------------------------------------------------------
(* The keyboard *)

(* With one context polling, the interrupt handler or a thread. *)
OnePoller == Contexts \subseteq {{"irq"}, {"thread"}}

Strokes == Events \cup {Pause}
Codeset == Scancodes \cup {F0, E0, E1, "14", "77"}

(* feed() of one byte, given the count of a Pause sequence. *)
Quiet(n, b) == n > 0 \/ b \in {E1, F0, E0}
NextCount(n, b) ==
    IF n > 0 THEN (IF n + 1 >= PauseLength THEN 0 ELSE n + 1) ELSE IF b = E1 THEN 1 ELSE 0

(* The prefixes of a key, and what the decoder remembers after j of its bytes. *)
Ext(e) == IF e.extended THEN 1 ELSE 0
Rel(e) == IF e.pressed THEN 0 ELSE 1
FlagF(e, j) == e # Pause /\ ~e.pressed /\ j > Ext(e)
FlagX(e, j) == e # Pause /\ e.extended /\ j > 0
CountAt(e, j) == IF e = Pause THEN j ELSE 0

LEMMA EventFacts ==
    ASSUME NEW e \in Events
    PROVE  /\ e # Pause /\ e.key \in Scancodes /\ e.key \notin {F0, E0, E1}
           /\ e.extended \in BOOLEAN /\ e.pressed \in BOOLEAN
           /\ e = [key |-> e.key, extended |-> e.extended, pressed |-> e.pressed]
<1>1. /\ e.key \in Scancodes /\ e.extended \in BOOLEAN /\ e.pressed \in BOOLEAN
      /\ e = [key |-> e.key, extended |-> e.extended, pressed |-> e.pressed]
  BY DEF Events
<1>2. e.key \notin {F0, E0, E1}
  BY <1>1, KeyboardAssumption
<1>3. Pause.key = E1
  BY DEF Pause
<1> QED BY <1>1, <1>2, <1>3

LEMMA EventCodes ==
    ASSUME NEW e \in Events
    PROVE  /\ Codes(e) \in Seq(Codeset) /\ Len(Codes(e)) = 1 + Ext(e) + Rel(e)
           /\ \A i \in 1 .. Len(Codes(e)) :
                 Codes(e)[i] = IF i <= Ext(e) THEN E0 ELSE IF i <= Ext(e) + Rel(e) THEN F0 ELSE e.key
<1>1. e # Pause /\ e.key \in Codeset /\ F0 \in Codeset /\ E0 \in Codeset
  BY EventFacts DEF Codeset
<1> DEFINE u == IF e.extended THEN <<E0>> ELSE <<>>
           v == IF e.pressed THEN <<>> ELSE <<F0>>
           w == <<e.key>>
<1>2. Codes(e) = u \o v \o w
  BY <1>1, Zenon DEF Codes
<1>3. u \in Seq(Codeset) /\ Len(u) = Ext(e) /\ \A i \in 1 .. Len(u) : u[i] = E0
  BY <1>1 DEF Ext
<1>4. v \in Seq(Codeset) /\ Len(v) = Rel(e) /\ \A i \in 1 .. Len(v) : v[i] = F0
  BY <1>1 DEF Rel
<1>5. w \in Seq(Codeset) /\ Len(w) = 1 /\ w[1] = e.key
  BY <1>1
<1>6. Ext(e) \in {0, 1} /\ Rel(e) \in {0, 1}
  BY DEF Ext, Rel
<1> HIDE DEF u, v, w
<1>7. /\ u \o v \in Seq(Codeset) /\ Len(u \o v) = Ext(e) + Rel(e)
      /\ \A i \in 1 .. Ext(e) + Rel(e) : (u \o v)[i] = IF i <= Ext(e) THEN E0 ELSE F0
  <2>1. /\ u \o v \in Seq(Codeset) /\ Len(u \o v) = Ext(e) + Rel(e)
        /\ \A i \in 1 .. Ext(e) + Rel(e) :
              (u \o v)[i] = IF i <= Ext(e) THEN u[i] ELSE v[i - Ext(e)]
    <3>1. /\ u \o v \in Seq(Codeset) /\ Len(u \o v) = Len(u) + Len(v)
          /\ \A i \in 1 .. Len(u) + Len(v) :
                (u \o v)[i] = IF i <= Len(u) THEN u[i] ELSE v[i - Len(u)]
      <4>1. u \in Seq(Codeset) /\ v \in Seq(Codeset)
        BY <1>3, <1>4
      <4> QED BY <4>1, ConcatProperties
    <3> QED BY <1>3, <1>4, <3>1, Zenon
  <2>2. ASSUME NEW i \in 1 .. Ext(e) + Rel(e) PROVE (u \o v)[i] = IF i <= Ext(e) THEN E0 ELSE F0
    <3>1. CASE i <= Ext(e)
      BY <1>3, <1>6, <2>1, <3>1
    <3>2. CASE ~(i <= Ext(e))
      <4>1. i - Ext(e) \in 1 .. Rel(e)
        BY <1>6, <3>2
      <4> QED BY <1>4, <2>1, <3>2, <4>1
    <3> QED BY <3>1, <3>2
  <2> QED BY <2>1, <2>2
<1> DEFINE y == u \o v
           l == Ext(e) + Rel(e)
<1>8. y \in Seq(Codeset) /\ Len(y) = l /\ \A i \in 1 .. l : y[i] = IF i <= Ext(e) THEN E0 ELSE F0
  BY <1>7
<1>9. l \in Nat /\ Ext(e) <= l
  BY <1>6
<1>10. Codes(e) = y \o w
  BY <1>2
<1> HIDE DEF y, l
<1>11. /\ y \o w \in Seq(Codeset) /\ Len(y \o w) = l + 1
       /\ \A i \in 1 .. l + 1 : (y \o w)[i] = IF i <= l THEN y[i] ELSE w[i - l]
  <2>1. /\ y \o w \in Seq(Codeset) /\ Len(y \o w) = Len(y) + Len(w)
        /\ \A i \in 1 .. Len(y) + Len(w) :
              (y \o w)[i] = IF i <= Len(y) THEN y[i] ELSE w[i - Len(y)]
    <3>1. y \in Seq(Codeset) /\ w \in Seq(Codeset)
      BY <1>5, <1>8
    <3> QED BY <3>1, ConcatProperties
  <2> QED BY <1>5, <1>8, <2>1, Zenon
<1>12. ASSUME NEW i \in 1 .. l + 1
       PROVE  (y \o w)[i] = IF i <= Ext(e) THEN E0 ELSE IF i <= l THEN F0 ELSE e.key
  <2>1. CASE i <= l
    BY <1>8, <1>11, <2>1
  <2>2. CASE ~(i <= l)
    <3>1. i - l = 1 /\ ~(i <= Ext(e))
      BY <1>6, <1>9, <2>2
    <3> QED BY <1>5, <1>11, <2>2, <3>1
  <2> QED BY <2>1, <2>2
<1>13. l + 1 = 1 + Ext(e) + Rel(e) /\ l = Ext(e) + Rel(e)
  BY <1>6 DEF l
<1> QED BY <1>10, <1>11, <1>12, <1>13

LEMMA PauseCodes == Codes(Pause) \in Seq(Codeset) /\ Len(Codes(Pause)) = 8 /\ Codes(Pause)[1] = E1
<1>1. Codes(Pause) = <<E1, "14", "77", E1, F0, "14", F0, "77">>
  BY Zenon DEF Codes
<1> QED BY <1>1 DEF Codeset

LEMMA StrokeCodes ==
    ASSUME NEW e \in Strokes
    PROVE  Codes(e) \in Seq(Codeset) /\ Len(Codes(e)) \in Nat \ {0} /\ DOMAIN Codes(e) = 1 .. Len(Codes(e))
<1>1. Codes(e) \in Seq(Codeset) /\ Len(Codes(e)) \in Nat \ {0}
  BY EventCodes, PauseCodes DEF Strokes, Ext, Rel
<1> QED BY <1>1, LenProperties

(* What feed() makes of the next byte of a key. *)
LEMMA StrokeStep ==
    ASSUME NEW e \in Strokes, NEW j \in Nat, j < Len(Codes(e)),
           NEW b, b = Codes(e)[j + 1]
    PROVE  /\ j + 1 < Len(Codes(e)) \/ e = Pause => Quiet(CountAt(e, j), b)
           /\ j + 1 < Len(Codes(e)) =>
                /\ NextCount(CountAt(e, j), b) = CountAt(e, j + 1)
                /\ (FlagF(e, j) \/ (CountAt(e, j) = 0 /\ b = F0)) <=> FlagF(e, j + 1)
                /\ (FlagX(e, j) \/ (CountAt(e, j) = 0 /\ b = E0)) <=> FlagX(e, j + 1)
           /\ j + 1 = Len(Codes(e)) /\ e = Pause =>
                /\ NextCount(CountAt(e, j), b) = 0
                /\ ~(FlagF(e, j) \/ (CountAt(e, j) = 0 /\ b = F0))
                /\ ~(FlagX(e, j) \/ (CountAt(e, j) = 0 /\ b = E0))
           /\ j + 1 = Len(Codes(e)) /\ e # Pause =>
                /\ ~Quiet(CountAt(e, j), b) /\ CountAt(e, j) = 0 /\ b = e.key
                /\ FlagX(e, j) <=> e.extended
                /\ FlagF(e, j) <=> ~e.pressed
<1>0. E0 # E1 /\ F0 # E1 /\ E0 # F0
  BY DEF E0, E1, F0
<1>1. CASE e = Pause
  <2>1. Len(Codes(e)) = 8 /\ Codes(e)[1] = E1 /\ CountAt(e, j) = j /\ CountAt(e, j + 1) = j + 1
    BY <1>1, PauseCodes DEF CountAt
  <2>2. ~FlagF(e, j) /\ ~FlagX(e, j) /\ ~FlagF(e, j + 1) /\ ~FlagX(e, j + 1)
    BY <1>1 DEF FlagF, FlagX
  <2>3. CASE j = 0
    <3>1. b = E1 /\ b # F0 /\ b # E0
      BY <1>0, <2>1, <2>3
    <3>2. NextCount(CountAt(e, j), b) = 1 /\ Quiet(CountAt(e, j), b)
      BY <2>1, <2>3, <3>1 DEF NextCount, Quiet
    <3> QED BY <1>1, <2>1, <2>2, <2>3, <3>1, <3>2
  <2>4. CASE j # 0
    <3>1. j > 0 /\ j < 8 /\ PauseLength = 8
      BY <2>1, <2>4 DEF PauseLength
    <3>2. Quiet(CountAt(e, j), b) /\ NextCount(CountAt(e, j), b) = IF j + 1 >= 8 THEN 0 ELSE j + 1
      BY <2>1, <3>1 DEF NextCount, Quiet
    <3> QED BY <1>1, <2>1, <2>2, <3>1, <3>2
  <2> QED BY <2>3, <2>4
<1>2. CASE e # Pause
  <2>1. e \in Events
    BY <1>2 DEF Strokes
  <2>2. e.extended \in BOOLEAN /\ e.pressed \in BOOLEAN /\ e.key \notin {F0, E0, E1}
    BY <2>1, EventFacts
  <2>3. Len(Codes(e)) = 1 + Ext(e) + Rel(e)
    BY <2>1, EventCodes
  <2>4. Ext(e) \in {0, 1} /\ Rel(e) \in {0, 1}
    BY DEF Ext, Rel
  <2>5. b = IF j + 1 <= Ext(e) THEN E0 ELSE IF j + 1 <= Ext(e) + Rel(e) THEN F0 ELSE e.key
    <3>1. j + 1 \in 1 .. Len(Codes(e))
      BY <2>3, <2>4
    <3> QED BY <2>1, <3>1, EventCodes
  <2>6. CountAt(e, j) = 0 /\ CountAt(e, j + 1) = 0
    BY <1>2 DEF CountAt
  <2>7. CASE j + 1 <= Ext(e)
    <3>1. b = E0 /\ j = 0 /\ Ext(e) = 1 /\ e.extended
      BY <2>4, <2>5, <2>7 DEF Ext
    <3>2. Quiet(0, b) /\ NextCount(0, b) = 0
      BY <1>0, <3>1 DEF Quiet, NextCount
    <3>3. ~FlagF(e, 0) /\ ~FlagX(e, 0) /\ ~FlagF(e, 1) /\ FlagX(e, 1)
      BY <1>2, <3>1 DEF FlagF, FlagX
    <3> QED BY <1>0, <1>2, <2>3, <2>4, <2>6, <3>1, <3>2, <3>3
  <2>8. CASE ~(j + 1 <= Ext(e)) /\ j + 1 <= Ext(e) + Rel(e)
    <3>1. b = F0 /\ j = Ext(e) /\ Rel(e) = 1 /\ ~e.pressed
      BY <2>4, <2>5, <2>8 DEF Rel
    <3>2. Quiet(0, b) /\ NextCount(0, b) = 0
      BY <1>0, <3>1 DEF Quiet, NextCount
    <3>3. ~FlagF(e, j) /\ FlagF(e, j + 1) /\ (FlagX(e, j) <=> FlagX(e, j + 1))
      BY <1>2, <2>4, <3>1 DEF FlagF, FlagX, Ext
    <3> QED BY <1>0, <1>2, <2>3, <2>4, <2>6, <3>1, <3>2, <3>3
  <2>9. CASE ~(j + 1 <= Ext(e)) /\ ~(j + 1 <= Ext(e) + Rel(e))
    <3>1. b = e.key /\ j = Ext(e) + Rel(e) /\ j + 1 = Len(Codes(e))
      BY <2>3, <2>4, <2>5, <2>9
    <3>2. ~Quiet(0, b)
      BY <2>2, <3>1 DEF Quiet
    <3>3. FlagX(e, j) <=> e.extended
      BY <1>2, <2>2, <2>4, <3>1 DEF FlagX, Ext
    <3>4. FlagF(e, j) <=> ~e.pressed
      <4>1. Rel(e) = 1 <=> ~e.pressed
        BY <2>2 DEF Rel
      <4>2. FlagF(e, j) <=> ~e.pressed /\ j > Ext(e)
        BY <1>2 DEF FlagF
      <4>3. j > Ext(e) <=> Rel(e) = 1
        BY <2>4, <3>1
      <4> QED BY <4>1, <4>2, <4>3
    <3> QED BY <1>2, <2>6, <3>1, <3>2, <3>3, <3>4
  <2> QED BY <2>7, <2>8, <2>9
<1> QED BY <1>1, <1>2

-----------------------------------------------------------------------------
(* The decoder against what the keyboard has sent. st[k] is where the bytes of key
   k end, kn[k] the keys known among the first k. *)
Sent(ty, st) ==
    /\ st \in [0 .. Len(ty) -> Nat]
    /\ \A k \in 1 .. Len(ty) : st[k] = st[k - 1] + Len(Codes(ty[k])) /\ st[k] <= st[Len(ty)]

Listed(ty, kn) ==
    /\ kn \in [0 .. Len(ty) -> Seq(Events)] /\ kn[0] = <<>>
    /\ \A k \in 1 .. Len(ty) :
          kn[k] = IF IsKey(ty[k]) THEN Append(kn[k - 1], ty[k]) ELSE kn[k - 1]
    /\ \A k \in 0 .. Len(ty) :
          /\ Len(kn[k]) <= Len(kn[Len(ty)])
          /\ \A i \in 1 .. Len(kn[k]) : kn[k][i] = kn[Len(ty)][i]

(* n keys and j bytes of the next have been fed; fl is the rest. *)
Reached(ty, st, n, j, fl) ==
    /\ n \in 0 .. Len(ty) /\ j \in Nat
    /\ n < Len(ty) => j < Len(Codes(ty[n + 1]))
    /\ n = Len(ty) => j = 0
    /\ Len(fl) + (st[n] + j) = st[Len(ty)]
    /\ \A k \in 1 .. Len(ty) : \A i \in 1 .. Len(Codes(ty[k])) :
          st[k - 1] + i > st[n] + j => fl[(st[k - 1] + i) - (st[n] + j)] = Codes(ty[k])[i]

Remembered(ty, n, j, f, x, c) ==
    IF n < Len(ty)
    THEN (f <=> FlagF(ty[n + 1], j)) /\ (x <=> FlagX(ty[n + 1], j)) /\ c = CountAt(ty[n + 1], j)
    ELSE ~f /\ ~x /\ c = 0

Delivered(ev, known) ==
    ev \in Seq(Events) /\ Len(ev) <= Len(known) /\ (Len(known) <= QueueSize => ev = known)

TracksBy(ty, fl, f, x, c, ev, st, kn, n, j) ==
    /\ ty \in Seq(Strokes) /\ fl \in Seq(Codeset)
    /\ Sent(ty, st) /\ Listed(ty, kn) /\ Reached(ty, st, n, j, fl)
    /\ Remembered(ty, n, j, f, x, c) /\ Delivered(ev, kn[n])

Tracks(ty, fl, f, x, c, ev) == \E st, kn, n, j : TracksBy(ty, fl, f, x, c, ev, st, kn, n, j)

LEMMA TracksFromStart == Tracks(<<>>, <<>>, FALSE, FALSE, 0, <<>>)
<1> DEFINE ty == <<>>
           st == [k \in 0 .. 0 |-> 0]
           kn == [k \in 0 .. 0 |-> <<>>]
<1>1. ty \in Seq(Strokes) /\ ty \in Seq(Codeset) /\ Len(ty) = 0 /\ ty \in Seq(Events) /\ <<>> = ty
  BY EmptySeq
<1>2. st \in [0 .. 0 -> Nat] /\ st[0] = 0 /\ kn[0] = ty
  OBVIOUS
<1>3. kn \in [0 .. 0 -> Seq(Events)]
  BY EmptySeq
<1> HIDE DEF ty, st, kn
<1>4. Sent(ty, st)
  BY <1>1, <1>2 DEF Sent
<1>5. Listed(ty, kn)
  BY <1>1, <1>2, <1>3 DEF Listed
<1>6. Reached(ty, st, 0, 0, ty)
  BY <1>1, <1>2 DEF Reached
<1>7. Remembered(ty, 0, 0, FALSE, FALSE, 0)
  BY <1>1 DEF Remembered
<1>8. Delivered(ty, kn[0])
  BY <1>1, <1>2 DEF Delivered
<1>9. TracksBy(ty, ty, FALSE, FALSE, 0, ty, st, kn, 0, 0)
  BY <1>1, <1>4, <1>5, <1>6, <1>7, <1>8 DEF TracksBy
<1>10. Tracks(ty, ty, FALSE, FALSE, 0, ty)
  BY <1>9 DEF Tracks
<1> QED BY <1>10 DEF ty

(* A key is pressed or released. *)
LEMMA TracksTyped ==
    ASSUME NEW ty, NEW fl, NEW f, NEW x, NEW c, NEW ev, Tracks(ty, fl, f, x, c, ev),
           NEW e \in Strokes
    PROVE  Tracks(Append(ty, e), fl \o Codes(e), f, x, c, ev)
<1>1. PICK st, kn, n, j : TracksBy(ty, fl, f, x, c, ev, st, kn, n, j)
  BY DEF Tracks
<1>2. /\ ty \in Seq(Strokes) /\ fl \in Seq(Codeset)
      /\ Sent(ty, st) /\ Listed(ty, kn) /\ Reached(ty, st, n, j, fl)
      /\ Remembered(ty, n, j, f, x, c) /\ Delivered(ev, kn[n])
  BY <1>1 DEF TracksBy
<1> DEFINE m == Len(ty)
           cs == Codes(e)
           l == Len(cs)
           ty2 == Append(ty, e)
           fl2 == fl \o cs
           st2 == [k \in 0 .. m + 1 |-> IF k <= m THEN st[k] ELSE st[m] + l]
           last == IF IsKey(e) THEN Append(kn[m], e) ELSE kn[m]
           kn2 == [k \in 0 .. m + 1 |-> IF k <= m THEN kn[k] ELSE last]
<1>3. cs \in Seq(Codeset) /\ l \in Nat \ {0}
  BY StrokeCodes
<1>4. m \in Nat /\ n \in 0 .. m /\ j \in Nat
  BY <1>2, LenProperties DEF Reached
<1>5. /\ ty2 \in Seq(Strokes) /\ Len(ty2) = m + 1 /\ ty2[m + 1] = e
      /\ \A k \in 1 .. m : ty2[k] = ty[k]
  BY <1>2, AppendProperties
<1>6. /\ fl2 \in Seq(Codeset) /\ Len(fl2) = Len(fl) + l /\ Len(fl) \in Nat
      /\ \A i \in 1 .. Len(fl) : fl2[i] = fl[i]
      /\ \A i \in 1 .. l : fl2[Len(fl) + i] = cs[i]
  <2>1. /\ fl2 \in Seq(Codeset) /\ Len(fl2) = Len(fl) + l
        /\ \A i \in 1 .. Len(fl) + l : fl2[i] = IF i <= Len(fl) THEN fl[i] ELSE cs[i - Len(fl)]
    BY <1>2, <1>3, ConcatProperties
  <2>2. Len(fl) \in Nat
    BY <1>2, LenProperties
  <2> HIDE DEF fl2, cs, l
  <2>3. \A i \in 1 .. Len(fl) : fl2[i] = fl[i]
    BY <1>3, <2>1, <2>2
  <2>4. ASSUME NEW i \in 1 .. l PROVE fl2[Len(fl) + i] = cs[i]
    <3>1. Len(fl) + i \in 1 .. Len(fl) + l /\ ~(Len(fl) + i <= Len(fl)) /\ (Len(fl) + i) - Len(fl) = i
      BY <1>3, <2>2
    <3> QED BY <2>1, <3>1
  <2> QED BY <2>1, <2>2, <2>3, <2>4
<1>7. st \in [0 .. m -> Nat] /\ \A k \in 1 .. m : st[k] = st[k - 1] + Len(Codes(ty[k])) /\ st[k] <= st[m]
  BY <1>2 DEF Sent
<1>8. \A k \in 0 .. m : st[k] \in Nat
  BY <1>7
<1>9. kn \in [0 .. m -> Seq(Events)] /\ last \in Seq(Events)
  <2>1. kn \in [0 .. m -> Seq(Events)]
    BY <1>2 DEF Listed
  <2>3. kn[m] \in Seq(Events)
    BY <1>4, <2>1
  <2>2. IsKey(e) => e \in Events
    BY DEF IsKey, Strokes
  <2> QED BY <2>1, <2>2, <2>3, AppendProperties
<1>10. /\ st2 \in [0 .. m + 1 -> Nat] /\ st2[m + 1] = st[m] + l
       /\ \A k \in 0 .. m : st2[k] = st[k]
  <2> HIDE DEF l
  <2> QED BY <1>3, <1>4, <1>8
<1>11. /\ kn2 \in [0 .. m + 1 -> Seq(Events)] /\ kn2[m + 1] = last
       /\ \A k \in 0 .. m : kn2[k] = kn[k]
  <2> HIDE DEF last
  <2> QED BY <1>4, <1>9
<1> HIDE DEF m, cs, l, ty2, fl2, st2, kn2
<1>12. Sent(ty2, st2)
  <2>1. \A k \in 1 .. m + 1 :
           st2[k] = st2[k - 1] + Len(Codes(ty2[k])) /\ st2[k] <= st2[m + 1]
    <3> SUFFICES ASSUME NEW k \in 1 .. m + 1
                 PROVE  st2[k] = st2[k - 1] + Len(Codes(ty2[k])) /\ st2[k] <= st2[m + 1]
      OBVIOUS
    <3>1. CASE k <= m
      <4>1. k \in 1 .. m /\ k \in 0 .. m /\ k - 1 \in 0 .. m /\ m \in 0 .. m
        BY <1>4, <3>1
      <4>2. st2[k] = st[k] /\ st2[k - 1] = st[k - 1] /\ ty2[k] = ty[k] /\ st[k] \in Nat /\ st[m] \in Nat
        BY <1>5, <1>8, <1>10, <4>1
      <4>3. st[k] <= st[m] /\ st[m] <= st[m] + l
        BY <1>3, <1>7, <4>1, <4>2
      <4> QED BY <1>3, <1>7, <1>10, <4>1, <4>2, <4>3
    <3>2. CASE ~(k <= m)
      <4>1. k = m + 1 /\ k - 1 = m /\ m \in 0 .. m
        BY <1>4, <3>2
      <4>2. st2[k] = st[m] + l /\ st2[k - 1] = st[m] /\ Len(Codes(ty2[k])) = l /\ st[m] \in Nat
        BY <1>5, <1>8, <1>10, <4>1 DEF l, cs
      <4> QED BY <1>3, <4>1, <4>2
    <3> QED BY <3>1, <3>2
  <2> QED BY <1>5, <1>10, <2>1 DEF Sent
<1>13. Listed(ty2, kn2)
  <2>1. /\ \A k \in 1 .. m : kn[k] = IF IsKey(ty[k]) THEN Append(kn[k - 1], ty[k]) ELSE kn[k - 1]
        /\ \A k \in 0 .. m : Len(kn[k]) <= Len(kn[m]) /\ \A i \in 1 .. Len(kn[k]) : kn[k][i] = kn[m][i]
        /\ kn[0] = <<>>
    BY <1>2 DEF Listed, m
  <2>2. ASSUME NEW k \in 1 .. m + 1
        PROVE  kn2[k] = IF IsKey(ty2[k]) THEN Append(kn2[k - 1], ty2[k]) ELSE kn2[k - 1]
    <3>1. CASE k <= m
      <4>1. k \in 1 .. m /\ k \in 0 .. m /\ k - 1 \in 0 .. m
        BY <1>4, <3>1
      <4>2. kn2[k] = kn[k] /\ kn2[k - 1] = kn[k - 1] /\ ty2[k] = ty[k]
        BY <1>5, <1>11, <4>1
      <4> QED BY <2>1, <4>1, <4>2
    <3>2. CASE ~(k <= m)
      <4>1. k = m + 1 /\ k - 1 = m /\ m \in 0 .. m
        BY <1>4, <3>2
      <4>2. kn2[k] = last /\ kn2[k - 1] = kn[m] /\ ty2[k] = e
        BY <1>5, <1>11, <4>1
      <4> QED BY <4>2
    <3> QED BY <3>1, <3>2
  <2>3. /\ Len(kn[m]) <= Len(last) /\ \A i \in 1 .. Len(kn[m]) : kn[m][i] = last[i]
        /\ Len(kn[m]) \in Nat /\ Len(last) \in Nat
    <3>1. kn[m] \in Seq(Events)
      BY <1>4, <1>9
    <3>2. Len(kn[m]) \in Nat
      BY <3>1, LenProperties
    <3>3. CASE IsKey(e)
      <4>1. e \in Events /\ last = Append(kn[m], e)
        BY <3>3 DEF IsKey, Strokes
      <4>2. Len(last) = Len(kn[m]) + 1 /\ \A i \in 1 .. Len(kn[m]) : last[i] = kn[m][i]
        BY <3>1, <4>1, AppendProperties
      <4> HIDE DEF last
      <4> QED BY <3>2, <4>2
    <3>4. CASE ~IsKey(e)
      BY <3>2, <3>4
    <3> QED BY <3>3, <3>4
  <2> HIDE DEF last
  <2>4. ASSUME NEW k \in 0 .. m + 1
        PROVE  Len(kn2[k]) <= Len(kn2[m + 1]) /\ \A i \in 1 .. Len(kn2[k]) : kn2[k][i] = kn2[m + 1][i]
    <3>1. CASE k <= m
      <4>1. k \in 0 .. m
        BY <1>4, <3>1
      <4>2. kn2[k] = kn[k] /\ kn[k] \in Seq(Events)
        BY <1>9, <1>11, <4>1
      <4>3. Len(kn[k]) \in Nat
        BY <4>2, LenProperties
      <4>4. Len(kn[k]) <= Len(kn[m]) /\ \A i \in 1 .. Len(kn[k]) : kn[k][i] = kn[m][i]
        BY <2>1, <4>1
      <4> QED BY <1>11, <2>3, <4>2, <4>3, <4>4
    <3>2. CASE ~(k <= m)
      <4>1. k = m + 1
        BY <1>4, <3>2
      <4> QED BY <1>11, <2>3, <4>1
    <3> QED BY <3>1, <3>2
  <2>5. kn2[0] = <<>>
    BY <1>4, <1>11, <2>1
  <2> QED BY <1>5, <1>11, <2>2, <2>4, <2>5 DEF Listed
<1>14. /\ Len(fl) + (st[n] + j) = st[m] /\ (n < m => j < Len(Codes(ty[n + 1]))) /\ (n = m => j = 0)
       /\ \A k \in 1 .. m : \A i \in 1 .. Len(Codes(ty[k])) :
             st[k - 1] + i > st[n] + j => fl[(st[k - 1] + i) - (st[n] + j)] = Codes(ty[k])[i]
  BY <1>2 DEF Reached, m
<1>15. Reached(ty2, st2, n, j, fl2)
  <2>1. st[n] \in Nat /\ st[m] \in Nat /\ st2[n] = st[n] /\ st2[m + 1] = st[m] + l
    BY <1>4, <1>8, <1>10
  <2>2. n < m + 1 => j < Len(Codes(ty2[n + 1]))
    <3>1. CASE n < m
      <4>1. n + 1 \in 1 .. m
        BY <1>4, <3>1
      <4> QED BY <1>5, <1>14, <3>1, <4>1
    <3>2. CASE n = m
      BY <1>3, <1>5, <1>14, <3>2 DEF l, cs
    <3> QED BY <1>4, <3>1, <3>2
  <2>3. Len(fl2) + (st2[n] + j) = st2[m + 1]
    BY <1>3, <1>4, <1>6, <1>14, <2>1
  <2>4. ASSUME NEW k \in 1 .. m + 1, NEW i \in 1 .. Len(Codes(ty2[k])), st2[k - 1] + i > st2[n] + j
        PROVE  fl2[(st2[k - 1] + i) - (st2[n] + j)] = Codes(ty2[k])[i]
    <3>1. CASE k <= m
      <4>1. k \in 1 .. m /\ k - 1 \in 0 .. m /\ k \in 0 .. m
        BY <1>4, <3>1
      <4>2. ty2[k] = ty[k] /\ st2[k - 1] = st[k - 1] /\ st[k - 1] \in Nat
        BY <1>5, <1>8, <1>10, <4>1
      <4>3. ty[k] \in Strokes
        BY <1>2, <4>1, ElementOfSeq DEF m
      <4>4. Len(Codes(ty[k])) \in Nat
        BY <4>3, StrokeCodes
      <4>5. st[k] = st[k - 1] + Len(Codes(ty[k])) /\ st[k] <= st[m] /\ st[k] \in Nat
        BY <1>7, <1>8, <4>1
      <4>6. i \in Nat /\ i <= Len(Codes(ty[k])) /\ i \in 1 .. Len(Codes(ty[k]))
        BY <4>2, <4>4
      <4>7. st[k - 1] + i > st[n] + j
        BY <2>1, <2>4, <4>2
      <4>8. (st[k - 1] + i) - (st[n] + j) \in 1 .. Len(fl)
        <5>1. ASSUME NEW a \in Nat, NEW b \in Nat, NEW d \in Nat, NEW q \in Nat, NEW r \in Nat, NEW t \in Nat,
                     q + b = t, r <= d, a + d <= t, a + r > b
              PROVE  (a + r) - b \in 1 .. q
          BY <5>1
        <5>2. st[n] + j \in Nat /\ Len(fl) + (st[n] + j) = st[m]
          BY <1>4, <1>14, <2>1
        <5>3. st[k - 1] + Len(Codes(ty[k])) <= st[m]
          BY <4>5
        <5> QED BY <1>6, <2>1, <4>2, <4>4, <4>6, <4>7, <5>1, <5>2, <5>3
      <4>9. fl[(st[k - 1] + i) - (st[n] + j)] = Codes(ty[k])[i]
        BY <1>14, <4>1, <4>6, <4>7
      <4> QED BY <1>6, <2>1, <4>2, <4>8, <4>9
    <3>2. CASE ~(k <= m)
      <4>1. k = m + 1 /\ k - 1 = m /\ m \in 0 .. m
        BY <1>4, <3>2
      <4>2. ty2[k] = e /\ st2[k - 1] = st[m]
        BY <1>5, <1>10, <4>1
      <4>3. i \in 1 .. l /\ Codes(ty2[k])[i] = cs[i]
        BY <4>2 DEF l, cs
      <4>4. (st[m] + i) - (st[n] + j) = Len(fl) + i
        <5>1. ASSUME NEW b \in Nat, NEW q \in Nat, NEW r \in Nat, NEW t \in Nat, q + b = t
              PROVE  (t + r) - b = q + r
          BY <5>1
        <5>2. st[n] + j \in Nat
          BY <1>4, <2>1
        <5>3. i \in Nat
          BY <1>3, <4>3
        <5>4. Len(fl) + (st[n] + j) = st[m] /\ Len(fl) \in Nat /\ st[m] \in Nat
          BY <1>6, <1>14, <2>1
        <5> HIDE DEF m
        <5> QED BY <5>1, <5>2, <5>3, <5>4
      <4> QED BY <1>6, <2>1, <4>2, <4>3, <4>4
    <3> QED BY <3>1, <3>2
  <2>5. n \in 0 .. m + 1 /\ n # m + 1
    BY <1>4
  <2> QED BY <1>4, <1>5, <2>2, <2>3, <2>4, <2>5 DEF Reached
<1>16. Remembered(ty2, n, j, f, x, c)
  <2>1. n < m + 1
    BY <1>4
  <2>2. CASE n < m
    <3>1. n + 1 \in 1 .. m
      BY <1>4, <2>2
    <3> QED BY <1>2, <1>5, <2>1, <2>2, <3>1 DEF Remembered, m
  <2>3. CASE n = m
    <3>1. ~f /\ ~x /\ c = 0 /\ j = 0 /\ ty2[n + 1] = e
      BY <1>2, <1>4, <1>5, <1>14, <2>3 DEF Remembered, m
    <3>2. Ext(e) \in {0, 1}
      BY DEF Ext
    <3>3. ~FlagF(e, 0) /\ ~FlagX(e, 0) /\ CountAt(e, 0) = 0
      BY <3>2 DEF FlagF, FlagX, CountAt
    <3> QED BY <1>5, <2>1, <3>1, <3>3 DEF Remembered
  <2> QED BY <1>4, <2>2, <2>3
<1>17. Delivered(ev, kn2[n])
  BY <1>2, <1>4, <1>11
<1>18. TracksBy(ty2, fl2, f, x, c, ev, st2, kn2, n, j)
  BY <1>5, <1>6, <1>12, <1>13, <1>15, <1>16, <1>17 DEF TracksBy
<1> QED BY <1>18 DEF Tracks, ty2, fl2, cs

(* The next byte of those on their way is the next of the key it belongs to. *)
LEMMA NextByte ==
    ASSUME NEW ty, NEW fl, NEW f, NEW x, NEW c, NEW ev, NEW st, NEW kn, NEW n, NEW j,
           TracksBy(ty, fl, f, x, c, ev, st, kn, n, j), fl # <<>>
    PROVE  /\ n \in 0 .. Len(ty) - 1 /\ n + 1 \in 1 .. Len(ty) /\ ty[n + 1] \in Strokes
           /\ j \in Nat /\ j < Len(Codes(ty[n + 1])) /\ Head(fl) = Codes(ty[n + 1])[j + 1]
           /\ (f <=> FlagF(ty[n + 1], j)) /\ (x <=> FlagX(ty[n + 1], j)) /\ c = CountAt(ty[n + 1], j)
<1>1. /\ ty \in Seq(Strokes) /\ fl \in Seq(Codeset) /\ Sent(ty, st) /\ Reached(ty, st, n, j, fl)
      /\ Remembered(ty, n, j, f, x, c)
  BY DEF TracksBy
<1>2. Len(ty) \in Nat /\ Head(fl) = fl[1] /\ Len(fl) \in Nat /\ Len(fl) >= 1
  BY <1>1, NonEmptyDomain, LenProperties
<1>3. /\ n \in 0 .. Len(ty) /\ j \in Nat /\ (n < Len(ty) => j < Len(Codes(ty[n + 1]))) /\ (n = Len(ty) => j = 0)
      /\ Len(fl) + (st[n] + j) = st[Len(ty)]
  BY <1>1 DEF Reached
<1>4. st[n] \in Nat /\ st[Len(ty)] \in Nat
  BY <1>1, <1>2, <1>3 DEF Sent
<1>5. n # Len(ty)
  BY <1>2, <1>3, <1>4
<1>6. n \in 0 .. Len(ty) - 1 /\ n + 1 \in 1 .. Len(ty) /\ n < Len(ty) /\ (n + 1) - 1 = n
  BY <1>2, <1>3, <1>5
<1>7. ty[n + 1] \in Strokes
  BY <1>1, <1>6, ElementOfSeq
<1>8. j < Len(Codes(ty[n + 1])) /\ Len(Codes(ty[n + 1])) \in Nat
  BY <1>3, <1>6, <1>7, StrokeCodes
<1>9. j + 1 \in 1 .. Len(Codes(ty[n + 1]))
  BY <1>3, <1>8
<1>10. st[n] + (j + 1) > st[n] + j /\ (st[n] + (j + 1)) - (st[n] + j) = 1
  BY <1>3, <1>4
<1>11. fl[1] = Codes(ty[n + 1])[j + 1]
  <2>1. st[(n + 1) - 1] + (j + 1) > st[n] + j =>
           fl[(st[(n + 1) - 1] + (j + 1)) - (st[n] + j)] = Codes(ty[n + 1])[j + 1]
    BY <1>1, <1>6, <1>9 DEF Reached
  <2> QED BY <1>6, <1>10, <2>1
<1> QED BY <1>1, <1>2, <1>3, <1>6, <1>7, <1>8, <1>11 DEF Remembered

(* Feeding it moves on by one byte, to the next key after the last one. *)
LEMMA NextReached ==
    ASSUME NEW ty, NEW fl, NEW st, NEW n, NEW j, ty \in Seq(Strokes), fl \in Seq(Codeset), fl # <<>>,
           Sent(ty, st), Reached(ty, st, n, j, fl), n \in 0 .. Len(ty) - 1
    PROVE  IF j + 1 < Len(Codes(ty[n + 1])) THEN Reached(ty, st, n, j + 1, Tail(fl))
           ELSE Reached(ty, st, n + 1, 0, Tail(fl))
<1> DEFINE m == Len(ty)
           p == st[n] + j
           tl == Tail(fl)
<1>1. m \in Nat /\ n \in 0 .. m /\ n + 1 \in 1 .. m /\ (n + 1) - 1 = n /\ n < m
  BY LenProperties
<1>2. /\ tl \in Seq(Codeset) /\ Len(fl) \in Nat /\ Len(fl) >= 1 /\ Len(tl) = Len(fl) - 1
      /\ \A i \in 1 .. Len(fl) - 1 : tl[i] = fl[i + 1]
  BY NonEmptyDomain
<1>3. /\ st \in [0 .. m -> Nat]
      /\ \A k \in 1 .. m : st[k] = st[k - 1] + Len(Codes(ty[k])) /\ st[k] <= st[m]
  BY DEF Sent
<1>4. /\ j \in Nat /\ j < Len(Codes(ty[n + 1])) /\ Len(fl) + p = st[m]
      /\ \A k \in 1 .. m : \A i \in 1 .. Len(Codes(ty[k])) :
            st[k - 1] + i > p => fl[(st[k - 1] + i) - p] = Codes(ty[k])[i]
  BY <1>1 DEF Reached
<1>5. \A k \in 1 .. m : ty[k] \in Strokes /\ Len(Codes(ty[k])) \in Nat \ {0}
  BY StrokeCodes, ElementOfSeq
<1>6. \A k \in 0 .. m : st[k] \in Nat
  BY <1>3
<1>7. p \in Nat /\ st[m] \in Nat
  BY <1>1, <1>4, <1>6
<1> HIDE DEF p, tl, m
<1>8. Len(tl) + (p + 1) = st[m]
  BY <1>2, <1>4, <1>7
<1>9. ASSUME NEW k \in 1 .. m, NEW i \in 1 .. Len(Codes(ty[k])), st[k - 1] + i > p + 1
      PROVE  tl[(st[k - 1] + i) - (p + 1)] = Codes(ty[k])[i]
  <2>2. k - 1 \in 0 .. m /\ k \in 0 .. m
    BY <1>1
  <2>3. st[k - 1] \in Nat /\ Len(Codes(ty[k])) \in Nat /\ i \in Nat /\ i <= Len(Codes(ty[k]))
    BY <1>5, <1>6, <2>2
  <2>4. st[k - 1] + Len(Codes(ty[k])) <= Len(fl) + p
    BY <1>3, <1>4
  <2>5. /\ (st[k - 1] + i) - (p + 1) \in 1 .. Len(fl) - 1
        /\ ((st[k - 1] + i) - (p + 1)) + 1 = (st[k - 1] + i) - p /\ st[k - 1] + i > p
    <3>1. Len(fl) \in Nat /\ p \in Nat /\ st[k - 1] + i > p + 1
      BY <1>2, <1>7, <1>9
    <3> DEFINE a == st[k - 1]
               d == Len(Codes(ty[k]))
               q == Len(fl)
    <3>2. /\ a \in Nat /\ d \in Nat /\ q \in Nat /\ i \in Nat /\ p \in Nat
          /\ i <= d /\ a + d <= q + p /\ a + i > p + 1
      BY <2>3, <2>4, <3>1
    <3> HIDE DEF a, d, q
    <3>3. (a + i) - (p + 1) \in 1 .. q - 1 /\ ((a + i) - (p + 1)) + 1 = (a + i) - p /\ a + i > p
      BY <3>2
    <3> QED BY <3>3 DEF a, d, q
  <2>6. fl[(st[k - 1] + i) - p] = Codes(ty[k])[i]
    BY <1>4, <2>5
  <2> QED BY <1>2, <2>5, <2>6
<1>10. CASE j + 1 < Len(Codes(ty[n + 1]))
  <2>1. st[n] + (j + 1) = p + 1 /\ j + 1 \in Nat
    <3>1. \A a, b \in Nat : a + (b + 1) = (a + b) + 1
      OBVIOUS
    <3>2. st[n] \in Nat /\ j \in Nat /\ j + 1 \in Nat
      BY <1>1, <1>4, <1>6
    <3> QED BY <3>1, <3>2, Zenon DEF p
  <2>2. Reached(ty, st, n, j + 1, tl)
    BY <1>1, <1>8, <1>9, <1>10, <2>1 DEF Reached, m
  <2> QED BY <1>10, <2>2 DEF tl
<1>11. CASE ~(j + 1 < Len(Codes(ty[n + 1])))
  <2>1. j + 1 = Len(Codes(ty[n + 1]))
    BY <1>1, <1>4, <1>5, <1>11
  <2>2. st[n + 1] + 0 = p + 1
    <3>1. st[n + 1] = st[n] + (j + 1) /\ st[n] \in Nat
      BY <1>1, <1>3, <1>6, <2>1
    <3>2. \A a, b \in Nat : a + (b + 1) + 0 = (a + b) + 1
      OBVIOUS
    <3>3. j \in Nat
      BY <1>4
    <3> QED BY <3>1, <3>2, <3>3, Zenon DEF p
  <2>3. n + 1 < m => 0 < Len(Codes(ty[(n + 1) + 1]))
    <3>1. n + 1 < m => (n + 1) + 1 \in 1 .. m
      BY <1>1
    <3> QED BY <1>5, <3>1
  <2>4. n + 1 \in 0 .. m
    BY <1>1
  <2>5. Reached(ty, st, n + 1, 0, tl)
    BY <1>8, <1>9, <2>2, <2>3, <2>4 DEF Reached, m
  <2> QED BY <1>11, <2>5 DEF tl
<1> QED BY <1>10, <1>11

(* A byte that makes no event. *)
LEMMA TracksQuiet ==
    ASSUME NEW ty, NEW fl, NEW f \in BOOLEAN, NEW x \in BOOLEAN, NEW c, NEW ev, NEW b,
           Tracks(ty, fl, f, x, c, ev), fl # <<>>, b = Head(fl), Quiet(c, b)
    PROVE  Tracks(ty, Tail(fl), f \/ (c = 0 /\ b = F0), x \/ (c = 0 /\ b = E0), NextCount(c, b), ev)
<1>1. PICK st, kn, n, j : TracksBy(ty, fl, f, x, c, ev, st, kn, n, j)
  BY DEF Tracks
<1>2. /\ ty \in Seq(Strokes) /\ fl \in Seq(Codeset) /\ Sent(ty, st) /\ Listed(ty, kn)
      /\ Reached(ty, st, n, j, fl) /\ Delivered(ev, kn[n])
  BY <1>1 DEF TracksBy
<1> DEFINE e == ty[n + 1]
           f2 == f \/ (c = 0 /\ b = F0)
           x2 == x \/ (c = 0 /\ b = E0)
           c2 == NextCount(c, b)
<1>3. /\ n \in 0 .. Len(ty) - 1 /\ n + 1 \in 1 .. Len(ty) /\ e \in Strokes
      /\ j \in Nat /\ j < Len(Codes(e)) /\ b = Codes(e)[j + 1]
      /\ (f <=> FlagF(e, j)) /\ (x <=> FlagX(e, j)) /\ c = CountAt(e, j)
  BY <1>1, NextByte
<1>4. Tail(fl) \in Seq(Codeset)
  BY <1>2, NonEmptyDomain
<1>5. IF j + 1 < Len(Codes(e)) THEN Reached(ty, st, n, j + 1, Tail(fl))
      ELSE Reached(ty, st, n + 1, 0, Tail(fl))
  BY <1>2, <1>3, NextReached
<1>6. Len(ty) \in Nat /\ Len(Codes(e)) \in Nat /\ n \in Nat
  BY <1>2, <1>3, LenProperties, StrokeCodes
<1> HIDE DEF e
<1>7. /\ j + 1 < Len(Codes(e)) => c2 = CountAt(e, j + 1) /\ (f2 <=> FlagF(e, j + 1)) /\ (x2 <=> FlagX(e, j + 1))
      /\ j + 1 = Len(Codes(e)) /\ e = Pause => c2 = 0 /\ ~f2 /\ ~x2
      /\ j + 1 = Len(Codes(e)) => e = Pause
  <2>1. /\ j + 1 < Len(Codes(e)) =>
                /\ NextCount(CountAt(e, j), b) = CountAt(e, j + 1)
                /\ (FlagF(e, j) \/ (CountAt(e, j) = 0 /\ b = F0)) <=> FlagF(e, j + 1)
                /\ (FlagX(e, j) \/ (CountAt(e, j) = 0 /\ b = E0)) <=> FlagX(e, j + 1)
        /\ j + 1 = Len(Codes(e)) /\ e = Pause =>
                /\ NextCount(CountAt(e, j), b) = 0
                /\ ~(FlagF(e, j) \/ (CountAt(e, j) = 0 /\ b = F0))
                /\ ~(FlagX(e, j) \/ (CountAt(e, j) = 0 /\ b = E0))
        /\ j + 1 = Len(Codes(e)) /\ e # Pause => ~Quiet(CountAt(e, j), b)
    BY <1>3, StrokeStep
  <2> QED BY <1>3, <2>1, Zenon
<1> HIDE DEF f2, x2, c2
<1>8. CASE j + 1 < Len(Codes(e))
  <2>1. n < Len(ty)
    BY <1>3, <1>6
  <2>2. Remembered(ty, n, j + 1, f2, x2, c2)
    BY <1>7, <1>8, <2>1, Zenon DEF Remembered, e
  <2>3. TracksBy(ty, Tail(fl), f2, x2, c2, ev, st, kn, n, j + 1)
    BY <1>2, <1>4, <1>5, <1>8, <2>2, Zenon DEF TracksBy
  <2> QED BY <2>3, Zenon DEF Tracks, f2, x2, c2
<1>9. CASE ~(j + 1 < Len(Codes(e)))
  <2>1. j + 1 = Len(Codes(e)) /\ (n + 1) - 1 = n
    BY <1>3, <1>6, <1>9
  <2>2. c2 = 0 /\ ~f2 /\ ~x2 /\ e = Pause
    BY <1>7, <2>1
  <2>3. Remembered(ty, n + 1, 0, f2, x2, c2)
    <3>1. CASE n + 1 < Len(ty)
      <4> DEFINE g == ty[(n + 1) + 1]
      <4>1. Ext(g) \in {0, 1}
        BY DEF Ext
      <4>2. ~FlagF(g, 0) /\ ~FlagX(g, 0) /\ CountAt(g, 0) = 0
        BY <4>1 DEF FlagF, FlagX, CountAt
      <4> QED BY <2>2, <3>1, <4>2, Zenon DEF Remembered
    <3>2. CASE ~(n + 1 < Len(ty))
      BY <2>2, <3>2, Zenon DEF Remembered
    <3> QED BY <3>1, <3>2
  <2>4. kn[n + 1] = kn[n]
    <3>1. ~IsKey(e)
      BY <2>2 DEF IsKey
    <3> QED BY <1>2, <1>3, <2>1, <3>1 DEF Listed, e
  <2>5. TracksBy(ty, Tail(fl), f2, x2, c2, ev, st, kn, n + 1, 0)
    BY <1>2, <1>4, <1>5, <1>9, <2>3, <2>4, Zenon DEF TracksBy
  <2> QED BY <2>5, Zenon DEF Tracks, f2, x2, c2
<1> QED BY <1>8, <1>9

(* A byte that makes an event is the last of its key, and the event is that key. *)
LEMMA LastByte ==
    ASSUME NEW ty, NEW fl, NEW f, NEW x, NEW c, NEW ev, NEW st, NEW kn, NEW n, NEW j,
           TracksBy(ty, fl, f, x, c, ev, st, kn, n, j), fl # <<>>, ~Quiet(c, Head(fl))
    PROVE  /\ n \in 0 .. Len(ty) - 1 /\ n + 1 \in 1 .. Len(ty) /\ c = 0
           /\ j + 1 = Len(Codes(ty[n + 1])) /\ j \in Nat
           /\ ty[n + 1] \in Events /\ Head(fl) = ty[n + 1].key
           /\ (x <=> ty[n + 1].extended) /\ (f <=> ~ty[n + 1].pressed)
<1> DEFINE g == ty[n + 1]
           b == Head(fl)
<1>1. /\ n \in 0 .. Len(ty) - 1 /\ n + 1 \in 1 .. Len(ty) /\ g \in Strokes
      /\ j \in Nat /\ j < Len(Codes(g)) /\ b = Codes(g)[j + 1]
      /\ (f <=> FlagF(g, j)) /\ (x <=> FlagX(g, j)) /\ c = CountAt(g, j) /\ ~Quiet(c, b)
  BY NextByte
<1> HIDE DEF g, b
<1>2. Len(Codes(g)) \in Nat
  BY <1>1, StrokeCodes
<1>3. /\ j + 1 < Len(Codes(g)) \/ g = Pause => Quiet(CountAt(g, j), b)
      /\ j + 1 = Len(Codes(g)) /\ g # Pause =>
            CountAt(g, j) = 0 /\ b = g.key /\ (FlagX(g, j) <=> g.extended) /\ (FlagF(g, j) <=> ~g.pressed)
  BY <1>1, StrokeStep
<1>4. ~(j + 1 < Len(Codes(g))) /\ g # Pause /\ g \in Events
  BY <1>1, <1>3 DEF Strokes
<1>5. j + 1 = Len(Codes(g))
  BY <1>1, <1>2, <1>4
<1>6. c = 0 /\ b = g.key /\ (x <=> g.extended) /\ (f <=> ~g.pressed)
  BY <1>1, <1>3, <1>4, <1>5
<1> QED BY <1>1, <1>4, <1>5, <1>6 DEF g, b

LEMMA SameEvent ==
    ASSUME NEW g \in Events, NEW f \in BOOLEAN, NEW x \in BOOLEAN, NEW b,
           b = g.key, x <=> g.extended, f <=> ~g.pressed
    PROVE  Event(b, x, f) = g
<1>1. g.extended \in BOOLEAN /\ g.pressed \in BOOLEAN
      /\ g = [key |-> g.key, extended |-> g.extended, pressed |-> g.pressed]
  BY EventFacts
<1>2. x = g.extended /\ (~f) = g.pressed
  BY <1>1
<1>3. Event(b, x, f) = [key |-> b, extended |-> x, pressed |-> ~f]
  BY DEF Event
<1> QED BY <1>1, <1>2, <1>3

LEMMA EventTyped ==
    ASSUME NEW ty, NEW fl, NEW f \in BOOLEAN, NEW x \in BOOLEAN, NEW c, NEW ev, NEW b,
           Tracks(ty, fl, f, x, c, ev), fl # <<>>, b = Head(fl), ~Quiet(c, b)
    PROVE  Event(b, x, f) \in Events
<1>1. PICK st, kn, n, j : TracksBy(ty, fl, f, x, c, ev, st, kn, n, j)
  BY DEF Tracks
<1> DEFINE g == ty[n + 1]
<1>2. g \in Events /\ b = g.key /\ (x <=> g.extended) /\ (f <=> ~g.pressed)
  BY <1>1, LastByte
<1> HIDE DEF g
<1>3. Event(b, x, f) = g
  BY <1>2, SameEvent
<1> QED BY <1>2, <1>3

(* It is delivered if it is known and there is room. *)
LEMMA TracksKey ==
    ASSUME NEW ty, NEW fl, NEW f \in BOOLEAN, NEW x \in BOOLEAN, NEW c, NEW ev, NEW b, NEW ev2, NEW e,
           Tracks(ty, fl, f, x, c, ev), fl # <<>>, b = Head(fl), ~Quiet(c, b),
           e = Event(b, x, f), ev2 = ev \/ ev2 = Append(ev, e),
           e.key \in Unknown => ev2 = ev,
           e.key \notin Unknown /\ Len(ev) < QueueSize => ev2 = Append(ev, e)
    PROVE  Tracks(ty, Tail(fl), FALSE, FALSE, c, ev2)
<1>1. PICK st, kn, n, j : TracksBy(ty, fl, f, x, c, ev, st, kn, n, j)
  BY DEF Tracks
<1>2. /\ ty \in Seq(Strokes) /\ fl \in Seq(Codeset) /\ Sent(ty, st) /\ Listed(ty, kn)
      /\ Reached(ty, st, n, j, fl) /\ Delivered(ev, kn[n])
  BY <1>1 DEF TracksBy
<1> DEFINE g == ty[n + 1]
<1>3. /\ n \in 0 .. Len(ty) - 1 /\ n + 1 \in 1 .. Len(ty) /\ c = 0 /\ j + 1 = Len(Codes(g)) /\ j \in Nat
      /\ g \in Events /\ b = g.key /\ (x <=> g.extended) /\ (f <=> ~g.pressed)
  BY <1>1, LastByte
<1>4. Tail(fl) \in Seq(Codeset)
  BY <1>2, NonEmptyDomain
<1>5. IF j + 1 < Len(Codes(g)) THEN Reached(ty, st, n, j + 1, Tail(fl))
      ELSE Reached(ty, st, n + 1, 0, Tail(fl))
  BY <1>2, <1>3, NextReached
<1>6. Len(ty) \in Nat /\ n \in Nat
  BY <1>2, <1>3, LenProperties
<1> HIDE DEF g
<1>8. ~(j + 1 < Len(Codes(g))) /\ (n + 1) - 1 = n
  BY <1>3, <1>6
<1>9. g # Pause
  BY <1>3, EventFacts
<1>11. e = g /\ e \in Events
  <2>1. Event(b, x, f) = g
    BY <1>3, SameEvent
  <2> QED BY <1>3, <2>1
<1>12. Remembered(ty, n + 1, 0, FALSE, FALSE, c)
  <2>1. CASE n + 1 < Len(ty)
    <3> DEFINE h == ty[(n + 1) + 1]
    <3>1. Ext(h) \in {0, 1}
      BY DEF Ext
    <3>2. ~FlagF(h, 0) /\ ~FlagX(h, 0) /\ CountAt(h, 0) = 0
      BY <3>1 DEF FlagF, FlagX, CountAt
    <3> QED BY <1>3, <2>1, <3>2, Zenon DEF Remembered
  <2>2. CASE ~(n + 1 < Len(ty))
    BY <1>3, <2>2, Zenon DEF Remembered
  <2> QED BY <2>1, <2>2
<1>13. kn[n + 1] = IF IsKey(g) THEN Append(kn[n], g) ELSE kn[n]
  BY <1>2, <1>3, <1>8 DEF Listed, g
<1>14. kn[n] \in Seq(Events)
  <2>1. n \in 0 .. Len(ty)
    BY <1>3, <1>6
  <2> QED BY <1>2, <2>1 DEF Listed
<1>15. ev \in Seq(Events) /\ Len(ev) <= Len(kn[n]) /\ (Len(kn[n]) <= QueueSize => ev = kn[n])
  BY <1>2 DEF Delivered
<1>16. IsKey(g) <=> e.key \notin Unknown
  BY <1>9, <1>11 DEF IsKey
<1>17. Delivered(ev2, kn[n + 1])
  <2>1. Len(ev) \in Nat /\ Len(kn[n]) \in Nat /\ QueueSize \in Nat
    BY <1>14, <1>15, LenProperties, KeyboardAssumption
  <2>2. CASE ~IsKey(g)
    <3>1. ev2 = ev /\ kn[n + 1] = kn[n]
      BY <1>13, <1>16, <2>2
    <3> QED BY <1>15, <3>1 DEF Delivered
  <2>3. CASE IsKey(g)
    <3>1. kn[n + 1] = Append(kn[n], e)
      BY <1>11, <1>13, <2>3
    <3>2. Len(kn[n + 1]) = Len(kn[n]) + 1
      BY <1>11, <1>14, <3>1, AppendProperties
    <3>3. Append(ev, e) \in Seq(Events) /\ Len(Append(ev, e)) = Len(ev) + 1
      BY <1>11, <1>15, AppendProperties
    <3>4. ev2 \in Seq(Events) /\ Len(ev2) <= Len(kn[n + 1])
      BY <1>15, <2>1, <3>2, <3>3
    <3>5. ASSUME Len(kn[n + 1]) <= QueueSize PROVE ev2 = kn[n + 1]
      <4>1. ev = kn[n] /\ Len(ev) < QueueSize
        BY <1>15, <2>1, <3>2, <3>5
      <4> QED BY <1>16, <2>3, <3>1, <4>1
    <3> QED BY <3>4, <3>5 DEF Delivered
  <2> QED BY <2>2, <2>3
<1>18. TracksBy(ty, Tail(fl), FALSE, FALSE, c, ev2, st, kn, n + 1, 0)
  BY <1>2, <1>4, <1>5, <1>8, <1>12, <1>17, Zenon DEF TracksBy
<1> QED BY <1>18, Zenon DEF Tracks

(* KeysOf is the list the lemmas keep. *)
LEMMA KeysOfListed ==
    ASSUME NEW ty, Len(ty) \in Nat, NEW kn, Listed(ty, kn)
    PROVE  KeysOf(ty) = kn[Len(ty)]
<1> DEFINE m == Len(ty)
           F(w) == [i \in 0 .. m |->
                      IF i = 0 THEN <<>>
                      ELSE IF IsKey(ty[i]) THEN Append(w[i - 1], ty[i]) ELSE w[i - 1]]
           keys == CHOOSE w : w = F(w)
<1>1. KeysOf(ty) = keys[m]
  BY DEF KeysOf
<1>2. kn = F(kn)
  <2>1. kn = [i \in 0 .. m |-> kn[i]]
    BY DEF Listed
  <2>2. ASSUME NEW i \in 0 .. m
        PROVE  kn[i] = IF i = 0 THEN <<>>
                       ELSE IF IsKey(ty[i]) THEN Append(kn[i - 1], ty[i]) ELSE kn[i - 1]
    <3>1. CASE i = 0
      BY <3>1 DEF Listed
    <3>2. CASE i # 0
      <4>1. i \in 1 .. m
        BY <3>2
      <4> QED BY <3>2, <4>1 DEF Listed
    <3> QED BY <3>1, <3>2
  <2> QED BY <2>1, <2>2, Zenon
<1>3. keys = F(keys)
  BY <1>2, Zenon
<1>4. \A i \in 0 .. m : keys[i] = IF i = 0 THEN <<>>
                                   ELSE IF IsKey(ty[i]) THEN Append(keys[i - 1], ty[i]) ELSE keys[i - 1]
  <2>1. ASSUME NEW w, w = F(w), NEW i \in 0 .. m
        PROVE  w[i] = IF i = 0 THEN <<>>
                      ELSE IF IsKey(ty[i]) THEN Append(w[i - 1], ty[i]) ELSE w[i - 1]
    <3>1. F(w)[i] = IF i = 0 THEN <<>>
                      ELSE IF IsKey(ty[i]) THEN Append(w[i - 1], ty[i]) ELSE w[i - 1]
      OBVIOUS
    <3> HIDE DEF F
    <3> QED BY <2>1, <3>1, Zenon
  <2> HIDE DEF keys, F
  <2> QED BY <1>3, <2>1, Zenon
<1> HIDE DEF keys
<1> DEFINE S == {i \in Nat : i <= m => keys[i] = kn[i]}
<1>5. 0 \in S
  <2>1. 0 \in 0 .. m
    OBVIOUS
  <2>2. keys[0] = <<>>
    BY <1>4, <2>1
  <2> QED BY <2>2 DEF Listed
<1>6. ASSUME NEW i \in Nat, i \in S PROVE i + 1 \in S
  <2> SUFFICES ASSUME i + 1 <= m PROVE keys[i + 1] = kn[i + 1]
    OBVIOUS
  <2>1. i + 1 \in 0 .. m /\ i + 1 \in 1 .. m /\ i + 1 # 0 /\ (i + 1) - 1 = i /\ keys[i] = kn[i]
    BY <1>6
  <2>2. keys[i + 1] = IF IsKey(ty[i + 1]) THEN Append(keys[i], ty[i + 1]) ELSE keys[i]
    <3>1. keys[i + 1] = IF i + 1 = 0 THEN <<>>
             ELSE IF IsKey(ty[i + 1]) THEN Append(keys[(i + 1) - 1], ty[i + 1]) ELSE keys[(i + 1) - 1]
      BY <1>4, <2>1, Zenon
    <3> QED BY <2>1, <3>1
  <2>3. kn[i + 1] = IF IsKey(ty[i + 1]) THEN Append(kn[(i + 1) - 1], ty[i + 1]) ELSE kn[(i + 1) - 1]
    BY <2>1, Zenon DEF Listed
  <2> QED BY <2>1, <2>2, <2>3
<1> HIDE DEF S
<1>7. \A i \in Nat : i \in S
  BY <1>5, <1>6, NatInductive
<1> QED BY <1>1, <1>7 DEF S

(* What that says of the events. *)
LEMMA TracksDecodes ==
    ASSUME NEW ty, NEW fl, NEW f, NEW x, NEW c, NEW ev, Tracks(ty, fl, f, x, c, ev)
    PROVE  /\ Len(ev) <= Len(KeysOf(ty))
           /\ Len(KeysOf(ty)) <= QueueSize => \A i \in DOMAIN ev : ev[i] = KeysOf(ty)[i]
           /\ Len(KeysOf(ty)) <= QueueSize /\ fl = <<>> => ev = KeysOf(ty)
<1>1. PICK st, kn, n, j : TracksBy(ty, fl, f, x, c, ev, st, kn, n, j)
  BY DEF Tracks
<1>2. /\ ty \in Seq(Strokes) /\ fl \in Seq(Codeset) /\ Sent(ty, st) /\ Listed(ty, kn)
      /\ Reached(ty, st, n, j, fl) /\ Delivered(ev, kn[n])
  BY <1>1 DEF TracksBy
<1> DEFINE m == Len(ty)
           keys == KeysOf(ty)
<1>3. m \in Nat
  BY <1>2, LenProperties
<1>4. keys = kn[m]
  BY <1>2, <1>3, KeysOfListed
<1>5. n \in 0 .. m /\ j \in Nat
  BY <1>2 DEF Reached
<1>6. /\ kn[n] \in Seq(Events) /\ kn[m] \in Seq(Events)
      /\ Len(kn[n]) <= Len(kn[m]) /\ \A i \in 1 .. Len(kn[n]) : kn[n][i] = kn[m][i]
  BY <1>2, <1>3, <1>5 DEF Listed
<1>7. /\ ev \in Seq(Events) /\ Len(ev) <= Len(kn[n]) /\ (Len(kn[n]) <= QueueSize => ev = kn[n])
  BY <1>2 DEF Delivered
<1>8. Len(ev) \in Nat /\ Len(kn[n]) \in Nat /\ Len(kn[m]) \in Nat /\ QueueSize \in Nat /\ DOMAIN ev = 1 .. Len(ev)
  BY <1>6, <1>7, LenProperties, KeyboardAssumption
<1> HIDE DEF m, keys
<1>9. Len(ev) <= Len(keys)
  BY <1>4, <1>6, <1>7, <1>8
<1>10. ASSUME Len(keys) <= QueueSize PROVE ev = kn[n] /\ \A i \in DOMAIN ev : ev[i] = keys[i]
  <2>1. ev = kn[n]
    BY <1>4, <1>6, <1>7, <1>8, <1>10
  <2> QED BY <1>4, <1>6, <1>8, <2>1
<1>11. ASSUME fl = <<>> PROVE n = m
  <2> SUFFICES ASSUME n # m PROVE FALSE
    OBVIOUS
  <2>1. n \in 0 .. m - 1 /\ n + 1 \in 1 .. m /\ n < m /\ (n + 1) - 1 = n
    BY <1>3, <1>5
  <2>2. ty[n + 1] \in Strokes
    BY <1>2, <2>1, ElementOfSeq DEF m
  <2>3. Len(Codes(ty[n + 1])) \in Nat
    BY <2>2, StrokeCodes
  <2>4. j < Len(Codes(ty[n + 1])) /\ Len(fl) + (st[n] + j) = st[m]
    BY <1>2, <2>1 DEF Reached, m
  <2>5. st[n + 1] = st[n] + Len(Codes(ty[n + 1])) /\ st[n + 1] <= st[m] /\ st[n] \in Nat /\ st[m] \in Nat
    <3>1. st \in [0 .. m -> Nat] /\ \A k \in 1 .. m : st[k] = st[k - 1] + Len(Codes(ty[k])) /\ st[k] <= st[m]
      BY <1>2 DEF Sent, m
    <3>2. n \in 0 .. m /\ m \in 0 .. m
      BY <1>3, <1>5
    <3>3. st[n] \in Nat /\ st[m] \in Nat
      BY <3>1, <3>2
    <3>4. st[n + 1] = st[(n + 1) - 1] + Len(Codes(ty[n + 1])) /\ st[n + 1] <= st[m]
      BY <2>1, <3>1, Zenon
    <3> QED BY <2>1, <3>3, <3>4, Zenon
  <2>6. Len(fl) = 0
    BY <1>11
  <2> QED BY <1>5, <2>3, <2>4, <2>5, <2>6
<1> QED BY <1>4, <1>9, <1>10, <1>11 DEF keys

-----------------------------------------------------------------------------
(* Sequences with something in front. *)
LEMMA InFront ==
    ASSUME NEW S, NEW s \in Seq(S), NEW b \in S
    PROVE  /\ <<b>> \o s \in Seq(S) /\ <<b>> \o s # <<>>
           /\ Head(<<b>> \o s) = b /\ Tail(<<b>> \o s) = s
<1> DEFINE u == <<b>>
           t == u \o s
<1>1. u \in Seq(S) /\ Len(u) = 1 /\ u[1] = b
  OBVIOUS
<1>2. Len(s) \in Nat
  BY LenProperties
<1> HIDE DEF u
<1>3. t \in Seq(S) /\ Len(t) = Len(u) + Len(s) /\ \A i \in 1 .. Len(u) + Len(s) :
           t[i] = IF i <= Len(u) THEN u[i] ELSE s[i - Len(u)]
  BY <1>1, ConcatProperties
<1> HIDE DEF t
<1>4. t # <<>>
  <2>1. Len(t) # 0
    BY <1>1, <1>2, <1>3
  <2> QED BY <2>1
<1>5. /\ Head(t) = t[1] /\ Tail(t) \in Seq(S) /\ Len(Tail(t)) = Len(t) - 1
      /\ \A i \in 1 .. Len(t) - 1 : Tail(t)[i] = t[i + 1]
  BY <1>3, <1>4, NonEmptyDomain
<1>6. Head(t) = b
  BY <1>1, <1>2, <1>3, <1>5
<1>7. Len(Tail(t)) = Len(s)
  BY <1>1, <1>2, <1>3, <1>5
<1>8. ASSUME NEW i \in 1 .. Len(s) PROVE Tail(t)[i] = s[i]
  <2>1. i \in 1 .. Len(t) - 1 /\ i + 1 \in 1 .. Len(u) + Len(s) /\ ~(i + 1 <= Len(u)) /\ (i + 1) - Len(u) = i
    BY <1>1, <1>2, <1>3
  <2> QED BY <1>3, <1>5, <2>1
<1>9. Tail(t) = s
  BY <1>5, <1>7, <1>8, SeqEqual
<1> QED BY <1>3, <1>4, <1>6, <1>9 DEF t, u

LEMMA HeadFirst ==
    ASSUME NEW S, NEW s \in Seq(S), s # <<>>
    PROVE  <<Head(s)>> \o Tail(s) = s
<1> DEFINE h == Head(s)
           r == Tail(s)
           t == <<h>> \o r
<1>1. /\ h \in S /\ h = s[1] /\ r \in Seq(S) /\ Len(s) \in Nat /\ Len(s) >= 1 /\ Len(r) = Len(s) - 1
      /\ \A i \in 1 .. Len(s) - 1 : r[i] = s[i + 1]
  BY NonEmptyDomain
<1> HIDE DEF h, r
<1>2. t \in Seq(S) /\ t # <<>> /\ Head(t) = h /\ Tail(t) = r
  BY <1>1, InFront
<1> HIDE DEF t
<1>3. /\ Head(t) = t[1] /\ Len(t) \in Nat /\ Len(Tail(t)) = Len(t) - 1
      /\ \A i \in 1 .. Len(t) - 1 : Tail(t)[i] = t[i + 1]
  <2>1. t \in Seq(S) /\ t # <<>>
    BY <1>2
  <2> QED BY <2>1, NonEmptyDomain
<1>4. Len(t) = Len(s)
  <2>1. Len(Tail(t)) = Len(r)
    BY <1>2
  <2>2. Len(r) = Len(s) - 1 /\ Len(r) = Len(t) - 1 /\ Len(s) \in Nat /\ Len(t) \in Nat
    BY <1>1, <1>3, <2>1, Zenon
  <2> QED BY <2>2
<1>5. ASSUME NEW i \in 1 .. Len(t) PROVE t[i] = s[i]
  <2>1. CASE i = 1
    BY <1>1, <1>2, <1>3, <2>1
  <2>2. CASE i # 1
    <3>1. i - 1 \in 1 .. Len(s) - 1 /\ (i - 1) + 1 = i
      BY <1>1, <1>4, <2>2
    <3> QED BY <1>1, <1>2, <1>3, <1>4, <3>1
  <2> QED BY <2>1, <2>2
<1>6. t = s
  BY <1>2, <1>4, <1>5, SeqEqual
<1> QED BY <1>6 DEF t, h, r

(* What one may append. *)
LEMMA Behind ==
    ASSUME NEW S, NEW s \in Seq(S), NEW t \in Seq(S), NEW b \in S
    PROVE  s \o Append(t, b) = Append(s \o t, b)
<1> DEFINE u == <<b>>
<1>1. u \in Seq(S)
  OBVIOUS
<1>2. Append(t, b) = t \o u /\ s \o t \in Seq(S)
  BY AppendIsConcat, ConcatProperties
<1>3. Append(s \o t, b) = (s \o t) \o u
  BY <1>2, AppendIsConcat
<1> HIDE DEF u
<1>4. (s \o t) \o u = s \o (t \o u)
  BY <1>1, ConcatAssociative
<1> QED BY <1>2, <1>3, <1>4

LEMMA Moved ==
    ASSUME NEW S, NEW s \in Seq(S), NEW t \in Seq(S), t # <<>>
    PROVE  Append(s, Head(t)) \o Tail(t) = s \o t
<1> DEFINE h == Head(t)
           u == <<h>>
           r == Tail(t)
<1>1. h \in S /\ r \in Seq(S)
  BY HeadTailProperties
<1>2. u \o r = t
  BY HeadFirst
<1>3. u \in Seq(S) /\ Append(s, h) = s \o u
  BY <1>1, AppendIsConcat
<1> HIDE DEF h, u, r
<1>4. (s \o u) \o r = s \o (u \o r)
  <2>1. s \in Seq(S) /\ u \in Seq(S) /\ r \in Seq(S)
    BY <1>1, <1>3, Zenon
  <2> QED BY <2>1, ConcatAssociative
<1>5. Append(s, h) \o r = s \o t
  BY <1>2, <1>3, <1>4, Zenon
<1> QED BY <1>5 DEF h, r

-----------------------------------------------------------------------------
(* The inductive invariant: the bytes between the keyboard and the decoder, and
   what the decoder remembers, are those of the keys not decoded yet. *)
Working == {"feed", "clear", "push"}
Port == IF full THEN <<data>> \o wire ELSE wire
Flight == IF poll \in Working THEN <<byte>> \o Port ELSE Port
BreakFlag == IF poll = "push" THEN isBreak ELSE pendingF0
ExtendedFlag == IF poll = "push" THEN isExtended ELSE pendingE0

KeyTypes ==
    /\ contexts \in {{"irq"}, {"thread"}}
    /\ wire \in Seq(Codeset) /\ data \in Codeset /\ byte \in Codeset
    /\ full \in BOOLEAN /\ pendingF0 \in BOOLEAN /\ pendingE0 \in BOOLEAN
    /\ isBreak \in BOOLEAN /\ isExtended \in BOOLEAN
    /\ queue \in Seq(Events) /\ seen \in Seq(Events)

PollSteps ==
    /\ contexts = {"irq"} => poll = "out"
    /\ poll = "data" => full
    /\ poll \in {"clear", "push"} => ~Quiet(e1Count, byte)
    /\ poll = "clear" => isBreak = pendingF0 /\ isExtended = pendingE0
    /\ poll = "push" => ~pendingF0 /\ ~pendingE0

KeyInv ==
    /\ KeyTypes /\ PollSteps
    /\ Tracks(typed, Flight, BreakFlag, ExtendedFlag, e1Count, seen \o queue)

LEMMA KeyStarts == ASSUME OnePoller, KeyInit PROVE KeyInv
<1>1. KeyTypes
  <2>1. contexts \in {{"irq"}, {"thread"}}
    BY DEF OnePoller, KeyInit
  <2>2. wire \in Seq(Codeset) /\ queue \in Seq(Events) /\ seen \in Seq(Events)
    BY EmptySeq DEF KeyInit
  <2>3. data \in Codeset /\ byte \in Codeset
    BY DEF KeyInit, Codeset
  <2> QED BY <2>1, <2>2, <2>3 DEF KeyInit, KeyTypes
<1>2. PollSteps
  BY DEF KeyInit, PollSteps
<1>3. /\ typed = <<>> /\ Flight = <<>> /\ BreakFlag = FALSE /\ ExtendedFlag = FALSE /\ e1Count = 0
      /\ seen = <<>> /\ queue = <<>>
  BY DEF KeyInit, Flight, Port, Working, BreakFlag, ExtendedFlag
<1>4. seen \o queue = <<>>
  <2>1. <<>> \in Seq(Events)
    BY EmptySeq
  <2>2. <<>> \o <<>> = <<>>
    BY <2>1, ConcatEmptySeq
  <2> QED BY <1>3, <2>2
<1>5. Tracks(typed, Flight, BreakFlag, ExtendedFlag, e1Count, seen \o queue)
  BY <1>3, <1>4, TracksFromStart, Zenon
<1> QED BY <1>1, <1>2, <1>5 DEF KeyInv

LEMMA PortType ==
    ASSUME KeyTypes PROVE Port \in Seq(Codeset) /\ Flight \in Seq(Codeset)
<1>1. Port \in Seq(Codeset)
  <2>1. wire \in Seq(Codeset) /\ data \in Codeset
    BY DEF KeyTypes
  <2>2. <<data>> \o wire \in Seq(Codeset)
    BY <2>1, InFront
  <2> QED BY <2>1, <2>2 DEF Port
<1>2. byte \in Codeset
  BY DEF KeyTypes
<1>3. <<byte>> \o Port \in Seq(Codeset)
  BY <1>1, <1>2, InFront
<1> QED BY <1>1, <1>3 DEF Flight

LEMMA TypeKeeps == ASSUME KeyInv, NEW e \in Strokes, Type(e) PROVE KeyInv'
<1>1. KeyTypes /\ PollSteps /\ Tracks(typed, Flight, BreakFlag, ExtendedFlag, e1Count, seen \o queue)
  BY DEF KeyInv
<1>2. /\ typed' = Append(typed, e) /\ wire' = wire \o Codes(e)
      /\ UNCHANGED <<contexts, seen, data, full, irq, pendingF0, pendingE0, e1Count, poll, byte,
                     isBreak, isExtended, queue>>
  BY DEF Type, decoderVars, threadVars
<1> DEFINE cs == Codes(e)
<1>3. cs \in Seq(Codeset)
  BY StrokeCodes
<1> HIDE DEF cs
<1>4. wire \in Seq(Codeset) /\ data \in Codeset /\ byte \in Codeset /\ Port \in Seq(Codeset)
  BY <1>1, PortType DEF KeyTypes
<1>5. wire' = wire \o cs /\ wire' \in Seq(Codeset)
  BY <1>2, <1>3, <1>4, ConcatProperties DEF cs
<1>6. ASSUME NEW s \in Seq(Codeset), NEW b \in Codeset
      PROVE  (<<b>> \o s) \o cs = <<b>> \o (s \o cs)
  <2> DEFINE u == <<b>>
  <2>1. u \in Seq(Codeset)
    OBVIOUS
  <2> HIDE DEF u
  <2>2. (u \o s) \o cs = u \o (s \o cs)
    BY <1>3, <2>1, ConcatAssociative
  <2> QED BY <2>2 DEF u
<1>7. Port' = Port \o cs
  <2>1. CASE full
    BY <1>2, <1>4, <1>5, <1>6, <2>1 DEF Port
  <2>2. CASE ~full
    BY <1>2, <1>5, <2>2 DEF Port
  <2> QED BY <2>1, <2>2
<1>8. Flight' = Flight \o cs
  <2>1. CASE poll \in Working
    BY <1>2, <1>4, <1>6, <1>7, <2>1 DEF Flight
  <2>2. CASE poll \notin Working
    BY <1>2, <1>7, <2>2 DEF Flight
  <2> QED BY <2>1, <2>2
<1>9. KeyTypes' /\ PollSteps'
  BY <1>1, <1>2, <1>5 DEF KeyTypes, PollSteps
<1>10. /\ BreakFlag' = BreakFlag /\ ExtendedFlag' = ExtendedFlag
       /\ (seen \o queue)' = seen \o queue
  BY <1>2 DEF BreakFlag, ExtendedFlag
<1>11. Tracks(Append(typed, e), Flight \o cs, BreakFlag, ExtendedFlag, e1Count, seen \o queue)
  BY <1>1, TracksTyped DEF cs
<1>12. Tracks(typed, Flight, BreakFlag, ExtendedFlag, e1Count, seen \o queue)'
  BY <1>2, <1>8, <1>10, <1>11
<1> QED BY <1>9, <1>12 DEF KeyInv

LEMMA SameTracks ==
    ASSUME KeyInv, KeyTypes', PollSteps', typed' = typed, Flight' = Flight,
           BreakFlag' = BreakFlag, ExtendedFlag' = ExtendedFlag, e1Count' = e1Count,
           (seen \o queue)' = seen \o queue
    PROVE  KeyInv'
BY DEF KeyInv

LEMMA ArriveKeeps == ASSUME KeyInv, Arrive PROVE KeyInv'
<1>1. KeyTypes /\ PollSteps
  BY DEF KeyInv
<1>2. /\ wire # <<>> /\ ~full /\ data' = Head(wire) /\ wire' = Tail(wire) /\ full' = TRUE
      /\ UNCHANGED <<contexts, seen, typed, pendingF0, pendingE0, e1Count, poll, byte, isBreak,
                     isExtended, queue>>
  BY DEF Arrive, decoderVars, threadVars
<1>3. wire \in Seq(Codeset)
  BY <1>1 DEF KeyTypes
<1>4. Head(wire) \in Codeset /\ Tail(wire) \in Seq(Codeset)
  BY <1>2, <1>3, HeadTailProperties
<1>5. <<Head(wire)>> \o Tail(wire) = wire
  BY <1>2, <1>3, HeadFirst
<1>6. Port' = Port
  BY <1>2, <1>5, Zenon DEF Port
<1>7. Flight' = Flight
  BY <1>2, <1>6 DEF Flight
<1>8. KeyTypes' /\ PollSteps'
  BY <1>1, <1>2, <1>4 DEF KeyTypes, PollSteps
<1> QED BY <1>2, <1>7, <1>8, SameTracks DEF BreakFlag, ExtendedFlag

(* The steps of a poll between two bytes change nothing of that. *)
LEMMA PollKeeps ==
    ASSUME KeyInv, PollStatus \/ PollData \/ FeedRead \/ FeedClear PROVE KeyInv'
<1>1. KeyTypes /\ PollSteps
  BY DEF KeyInv
<1>2. contexts \in {{"irq"}, {"thread"}} /\ "irq" # "thread"
  BY <1>1 DEF KeyTypes
<1>3. CASE PollStatus
  <2>1. /\ "thread" \in contexts /\ poll = "out" /\ full /\ poll' = "data"
        /\ UNCHANGED <<contexts, seen, typed, wire, data, full, pendingF0, pendingE0, e1Count, byte,
                       isBreak, isExtended, queue>>
    BY <1>3 DEF PollStatus, portVars, decoderVars
  <2>2. contexts # {"irq"}
    BY <1>2, <2>1
  <2>3. KeyTypes' /\ PollSteps'
    BY <1>1, <2>1, <2>2 DEF KeyTypes, PollSteps
  <2>4. Flight' = Flight /\ BreakFlag' = BreakFlag /\ ExtendedFlag' = ExtendedFlag
    BY <2>1 DEF Flight, Port, Working, BreakFlag, ExtendedFlag
  <2> QED BY <2>1, <2>3, <2>4, SameTracks
<1>4. CASE PollData
  <2>1. /\ poll = "data" /\ poll' = "feed" /\ byte' = data /\ full' = FALSE
        /\ UNCHANGED <<contexts, seen, typed, wire, data, pendingF0, pendingE0, e1Count, isBreak,
                       isExtended, queue>>
    BY <1>4 DEF PollData, decoderVars
  <2>2. contexts # {"irq"} /\ full
    BY <1>1, <2>1 DEF PollSteps
  <2>3. KeyTypes' /\ PollSteps'
    BY <1>1, <2>1, <2>2 DEF KeyTypes, PollSteps
  <2>4. Flight = Port /\ Port = <<data>> \o wire /\ Port' = wire /\ Flight' = <<data>> \o wire
    BY <2>1, <2>2 DEF Flight, Port, Working
  <2>5. BreakFlag' = BreakFlag /\ ExtendedFlag' = ExtendedFlag
    BY <2>1 DEF BreakFlag, ExtendedFlag
  <2> QED BY <2>1, <2>3, <2>4, <2>5, SameTracks
<1>5. CASE FeedRead
  <2>1. /\ poll = "feed" /\ poll' = "clear" /\ ~Silent(byte) /\ isBreak' = pendingF0 /\ isExtended' = pendingE0
        /\ UNCHANGED <<contexts, seen, typed, wire, data, full, pendingF0, pendingE0, e1Count, byte, queue>>
    BY <1>5 DEF FeedRead, portVars, decoderVars
  <2>2. contexts # {"irq"} /\ ~Quiet(e1Count, byte)
    BY <1>1, <2>1 DEF PollSteps, Silent, Quiet
  <2>3. KeyTypes' /\ PollSteps'
    BY <1>1, <2>1, <2>2 DEF KeyTypes, PollSteps
  <2>4. Flight' = Flight /\ BreakFlag' = BreakFlag /\ ExtendedFlag' = ExtendedFlag
    BY <2>1 DEF Flight, Port, Working, BreakFlag, ExtendedFlag
  <2> QED BY <2>1, <2>3, <2>4, SameTracks
<1>6. CASE FeedClear
  <2>1. /\ poll = "clear" /\ poll' = "push" /\ pendingF0' = FALSE /\ pendingE0' = FALSE
        /\ UNCHANGED <<contexts, seen, typed, wire, data, full, e1Count, byte, isBreak, isExtended, queue>>
    BY <1>6 DEF FeedClear, portVars
  <2>2. contexts # {"irq"} /\ ~Quiet(e1Count, byte) /\ isBreak = pendingF0 /\ isExtended = pendingE0
    BY <1>1, <2>1 DEF PollSteps
  <2>3. KeyTypes' /\ PollSteps'
    BY <1>1, <2>1, <2>2 DEF KeyTypes, PollSteps
  <2>4. Flight' = Flight /\ BreakFlag' = BreakFlag /\ ExtendedFlag' = ExtendedFlag
    BY <2>1, <2>2 DEF Flight, Port, Working, BreakFlag, ExtendedFlag
  <2> QED BY <2>1, <2>3, <2>4, SameTracks
<1> QED BY <1>3, <1>4, <1>5, <1>6

LEMMA ReadKeeps == ASSUME KeyInv, ReadEvent PROVE KeyInv'
<1>1. KeyTypes /\ PollSteps
  BY DEF KeyInv
<1>2. /\ queue # <<>> /\ queue' = Tail(queue) /\ seen' = Append(seen, Head(queue))
      /\ UNCHANGED <<contexts, typed, wire, data, full, pendingF0, pendingE0, e1Count, poll, byte,
                     isBreak, isExtended>>
  BY DEF ReadEvent, portVars, decoderVars, threadVars
<1>3. queue \in Seq(Events) /\ seen \in Seq(Events)
  BY <1>1 DEF KeyTypes
<1>4. seen' \o queue' = seen \o queue
  BY <1>2, <1>3, Moved
<1>5. seen' \in Seq(Events) /\ queue' \in Seq(Events)
  BY <1>2, <1>3, HeadTailProperties, AppendProperties
<1>6. KeyTypes' /\ PollSteps'
  BY <1>1, <1>2, <1>5 DEF KeyTypes, PollSteps
<1>7. Flight' = Flight /\ BreakFlag' = BreakFlag /\ ExtendedFlag' = ExtendedFlag
  BY <1>2 DEF Flight, Port, BreakFlag, ExtendedFlag
<1> QED BY <1>2, <1>4, <1>6, <1>7, SameTracks

-----------------------------------------------------------------------------
(* feed() of a byte, from the thread and from the interrupt handler. *)
LEMMA PushKeeps ==
    ASSUME KeyTypes, NEW fl, NEW f \in BOOLEAN, NEW x \in BOOLEAN, NEW b,
           Tracks(typed, fl, f, x, e1Count, seen \o queue), fl # <<>>, b = Head(fl), ~Quiet(e1Count, b),
           Push(Event(b, x, f)), seen' = seen
    PROVE  queue' \in Seq(Events) /\ Tracks(typed, Tail(fl), FALSE, FALSE, e1Count, seen' \o queue')
<1> DEFINE e == Event(b, x, f)
           ev == seen \o queue
           ev2 == seen' \o queue'
<1>1. e \in Events
  BY EventTyped
<1>2. queue \in Seq(Events) /\ seen \in Seq(Events)
  BY DEF KeyTypes
<1>3. queue' = IF e.key \notin Unknown /\ Len(queue) < QueueSize THEN Append(queue, e) ELSE queue
  BY DEF Push
<1>4. e = Event(b, x, f) /\ Tracks(typed, fl, f, x, e1Count, ev)
  OBVIOUS
<1> HIDE DEF e
<1>5. seen \o Append(queue, e) = Append(ev, e) /\ Append(queue, e) \in Seq(Events)
  BY <1>1, <1>2, Behind, AppendProperties
<1>6. Len(ev) = Len(seen) + Len(queue) /\ Len(seen) \in Nat /\ Len(queue) \in Nat /\ QueueSize \in Nat
  BY <1>2, ConcatProperties, LenProperties, KeyboardAssumption
<1>7. ev2 = IF e.key \notin Unknown /\ Len(queue) < QueueSize THEN Append(ev, e) ELSE ev
  BY <1>3, <1>5
<1> HIDE DEF ev, ev2
<1>8. Len(ev) < QueueSize => Len(queue) < QueueSize
  BY <1>6
<1>9. /\ (ev2 = ev \/ ev2 = Append(ev, e)) /\ (e.key \in Unknown => ev2 = ev)
      /\ (e.key \notin Unknown /\ Len(ev) < QueueSize => ev2 = Append(ev, e))
  BY <1>7, <1>8
<1>10. Tracks(typed, Tail(fl), FALSE, FALSE, e1Count, ev2)
  BY <1>4, <1>9, TracksKey, Zenon
<1>11. queue' \in Seq(Events)
  BY <1>2, <1>3, <1>5
<1> QED BY <1>10, <1>11 DEF ev2

LEMMA FedKeeps ==
    ASSUME KeyInv, FeedPrefix \/ PollPush PROVE KeyInv'
<1>1. KeyTypes /\ PollSteps /\ Tracks(typed, Flight, BreakFlag, ExtendedFlag, e1Count, seen \o queue)
  BY DEF KeyInv
<1>2. byte \in Codeset /\ Port \in Seq(Codeset)
  BY <1>1, PortType DEF KeyTypes
<1>3. /\ Flight = <<byte>> \o Port /\ poll' = "out" /\ contexts' = contexts /\ typed' = typed
      /\ UNCHANGED <<wire, data, full, byte, isBreak, isExtended, seen>> /\ poll \in {"feed", "push"}
  BY DEF FeedPrefix, PollPush, Flight, Working, portVars
<1>4. Flight # <<>> /\ byte = Head(Flight) /\ Tail(Flight) = Port
  BY <1>2, <1>3, InFront
<1>5. BreakFlag \in BOOLEAN /\ ExtendedFlag \in BOOLEAN
  BY <1>1 DEF KeyTypes, BreakFlag, ExtendedFlag
<1>6. Flight' = Port /\ BreakFlag' = pendingF0' /\ ExtendedFlag' = pendingE0'
  BY <1>3 DEF Flight, Port, Working, BreakFlag, ExtendedFlag
<1>7. PollSteps'
  BY <1>1, <1>3 DEF PollSteps
<1>8. CASE FeedPrefix
  <2>1. /\ poll = "feed" /\ Quiet(e1Count, byte) /\ e1Count' = NextCount(e1Count, byte)
        /\ pendingF0' = (pendingF0 \/ (e1Count = 0 /\ byte = F0))
        /\ pendingE0' = (pendingE0 \/ (e1Count = 0 /\ byte = E0)) /\ queue' = queue
    BY <1>8 DEF FeedPrefix, Silent, Quiet, Prefix, NextCount
  <2>2. BreakFlag = pendingF0 /\ ExtendedFlag = pendingE0
    BY <2>1 DEF BreakFlag, ExtendedFlag
  <2>3. Tracks(typed, Tail(Flight), BreakFlag \/ (e1Count = 0 /\ byte = F0),
               ExtendedFlag \/ (e1Count = 0 /\ byte = E0), NextCount(e1Count, byte), seen \o queue)
    BY <1>1, <1>4, <1>5, <2>1, TracksQuiet
  <2>4. Tracks(typed, Flight, BreakFlag, ExtendedFlag, e1Count, seen \o queue)'
    BY <1>3, <1>4, <1>6, <2>1, <2>2, <2>3
  <2>5. KeyTypes'
    BY <1>1, <1>3, <2>1 DEF KeyTypes
  <2> QED BY <1>7, <2>4, <2>5 DEF KeyInv
<1>9. CASE PollPush
  <2>1. poll = "push" /\ Push(Event(byte, isExtended, isBreak)) /\ UNCHANGED <<pendingF0, pendingE0, e1Count>>
    BY <1>9 DEF PollPush, decoderVars
  <2>2. BreakFlag = isBreak /\ ExtendedFlag = isExtended /\ ~Quiet(e1Count, byte) /\ ~pendingF0 /\ ~pendingE0
    BY <1>1, <2>1 DEF BreakFlag, ExtendedFlag, PollSteps
  <2>3. queue' \in Seq(Events) /\ Tracks(typed, Tail(Flight), FALSE, FALSE, e1Count, seen' \o queue')
    BY <1>1, <1>3, <1>4, <1>5, <2>1, <2>2, PushKeeps
  <2>4. pendingF0' = FALSE /\ pendingE0' = FALSE
    BY <1>1, <2>1, <2>2 DEF KeyTypes
  <2>5. Tracks(typed, Flight, BreakFlag, ExtendedFlag, e1Count, seen \o queue)'
    BY <1>3, <1>4, <1>6, <2>1, <2>3, <2>4
  <2>6. KeyTypes'
    BY <1>1, <1>3, <2>1, <2>3 DEF KeyTypes
  <2> QED BY <1>7, <2>5, <2>6 DEF KeyInv
<1> QED BY <1>8, <1>9

LEMMA IrqKeeps == ASSUME KeyInv, Irq PROVE KeyInv'
<1>1. KeyTypes /\ PollSteps /\ Tracks(typed, Flight, BreakFlag, ExtendedFlag, e1Count, seen \o queue)
  BY DEF KeyInv
<1>2. /\ "irq" \in contexts /\ full' = FALSE
      /\ IF full THEN Feed(data) ELSE UNCHANGED <<pendingF0, pendingE0, e1Count, queue>>
      /\ UNCHANGED <<contexts, seen, typed, wire, data, poll, byte, isBreak, isExtended>>
  BY DEF Irq, decoderVars, threadVars
<1>3. contexts = {"irq"} /\ poll = "out"
  BY <1>1, <1>2 DEF KeyTypes, PollSteps
<1>4. wire \in Seq(Codeset) /\ data \in Codeset
  BY <1>1 DEF KeyTypes
<1>5. /\ Flight = Port /\ Flight' = wire /\ BreakFlag = pendingF0 /\ ExtendedFlag = pendingE0
      /\ BreakFlag' = pendingF0' /\ ExtendedFlag' = pendingE0'
  BY <1>2, <1>3 DEF Flight, Port, Working, BreakFlag, ExtendedFlag
<1>6. PollSteps'
  BY <1>1, <1>2, <1>3 DEF PollSteps
<1>7. CASE ~full
  <2>1. Flight' = Flight /\ UNCHANGED <<pendingF0, pendingE0, e1Count, queue>>
    BY <1>2, <1>5, <1>7 DEF Port
  <2>2. KeyTypes'
    BY <1>1, <1>2, <2>1 DEF KeyTypes
  <2> QED BY <1>2, <1>5, <1>6, <2>1, <2>2, SameTracks
<1>8. CASE full
  <2>1. Flight = <<data>> \o wire /\ Feed(data)
    BY <1>2, <1>5, <1>8 DEF Port
  <2>2. Flight # <<>> /\ data = Head(Flight) /\ Tail(Flight) = wire
    BY <1>4, <2>1, InFront
  <2>3. pendingF0 \in BOOLEAN /\ pendingE0 \in BOOLEAN
    BY <1>1 DEF KeyTypes
  <2>4. CASE Quiet(e1Count, data)
    <3>1. /\ e1Count' = NextCount(e1Count, data)
          /\ pendingF0' = (pendingF0 \/ (e1Count = 0 /\ data = F0))
          /\ pendingE0' = (pendingE0 \/ (e1Count = 0 /\ data = E0)) /\ queue' = queue
      BY <2>1, <2>4 DEF Feed, Silent, Quiet, Prefix, NextCount
    <3>2. Tracks(typed, Tail(Flight), pendingF0 \/ (e1Count = 0 /\ data = F0),
                 pendingE0 \/ (e1Count = 0 /\ data = E0), NextCount(e1Count, data), seen \o queue)
      BY <1>1, <1>5, <2>2, <2>3, <2>4, TracksQuiet
    <3>3. Tracks(typed, Flight, BreakFlag, ExtendedFlag, e1Count, seen \o queue)'
      BY <1>2, <1>5, <2>2, <3>1, <3>2
    <3>4. KeyTypes'
      BY <1>1, <1>2, <3>1 DEF KeyTypes
    <3> QED BY <1>6, <3>3, <3>4 DEF KeyInv
  <2>5. CASE ~Quiet(e1Count, data)
    <3>1. /\ pendingF0' = FALSE /\ pendingE0' = FALSE /\ e1Count' = e1Count
          /\ Push(Event(data, pendingE0, pendingF0))
      BY <2>1, <2>5 DEF Feed, Silent, Quiet
    <3>2. queue' \in Seq(Events) /\ Tracks(typed, Tail(Flight), FALSE, FALSE, e1Count, seen' \o queue')
      BY <1>1, <1>2, <1>5, <2>2, <2>3, <2>5, <3>1, PushKeeps
    <3>3. Tracks(typed, Flight, BreakFlag, ExtendedFlag, e1Count, seen \o queue)'
      BY <1>2, <1>5, <2>2, <3>1, <3>2
    <3>4. KeyTypes'
      BY <1>1, <1>2, <3>1, <3>2 DEF KeyTypes
    <3> QED BY <1>6, <3>3, <3>4 DEF KeyInv
  <2> QED BY <2>4, <2>5
<1> QED BY <1>7, <1>8

LEMMA KeySteps == KeyInv /\ [KeyNext]_keyVars => KeyInv'
<1> SUFFICES ASSUME KeyInv, [KeyNext]_keyVars PROVE KeyInv'
  OBVIOUS
<1>1. CASE \E e \in Events : Type(e)
  BY <1>1, TypeKeeps DEF Strokes
<1>2. CASE PauseKey /\ Type(Pause)
  BY <1>2, TypeKeeps DEF Strokes
<1>3. CASE UNCHANGED keyVars
  <2>1. /\ KeyTypes' /\ PollSteps' /\ typed' = typed /\ Flight' = Flight /\ BreakFlag' = BreakFlag
        /\ ExtendedFlag' = ExtendedFlag /\ e1Count' = e1Count /\ (seen \o queue)' = seen \o queue
    BY <1>3 DEF keyVars, KeyInv, KeyTypes, PollSteps, Flight, Port, BreakFlag, ExtendedFlag
  <2> QED BY <2>1, SameTracks
<1> QED BY <1>1, <1>2, <1>3, ArriveKeeps, IrqKeeps, PollKeeps, FedKeeps, ReadKeeps DEF KeyNext

(* The inductive invariant of the keyboard: the bytes on their way and what the
   decoder remembers are those of the keys not decoded yet. *)
THEOREM KeyInvariant ==
    ASSUME OnePoller
    PROVE  KeySpec => []KeyInv
<1>1. KeyInit => KeyInv
  BY KeyStarts
<1> QED BY <1>1, KeySteps, PTL DEF KeySpec

(* When only the interrupt handler polls, or only a thread, the events are the
   known keys pressed and released, in order and none lost while the queue has
   room, for all scancodes, Pause sequences between them, and any length of typing. *)
THEOREM KeyDecodesTyped ==
    ASSUME OnePoller
    PROVE  KeySpec => []DecodesTyped
<1>1. KeyInv => DecodesTyped
  <2> SUFFICES ASSUME KeyInv PROVE DecodesTyped
    OBVIOUS
  <2> DEFINE ev == seen \o queue
             keys == KeysOf(typed)
  <2>1. /\ Len(ev) <= Len(keys)
        /\ Len(keys) <= QueueSize => \A i \in DOMAIN ev : ev[i] = keys[i]
        /\ Len(keys) <= QueueSize /\ Flight = <<>> => ev = keys
    BY TracksDecodes DEF KeyInv
  <2>2. wire = <<>> /\ ~full /\ poll = "out" => Flight = <<>>
    BY DEF Flight, Port, Working
  <2> QED BY <2>1, <2>2, Zenon DEF DecodesTyped
<1> QED BY <1>1, KeyInvariant, PTL
=============================================================================
