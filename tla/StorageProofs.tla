---------------------------- MODULE StorageProofs ----------------------------
(* What the virtio block driver may rely on, for any number of pages and any    *)
(* width of the ring indices: until the first time-out the driver and the       *)
(* device are in step, although the device reads one descriptor at a time. And  *)
(* what the calls on names keep, for any number of inodes, entries and names:   *)
(* inodes are counted, and an entry names an inode of its own. And of the free  *)
(* space: no byte of the device is handed out twice and none is made up, for    *)
(* every size of the device and of the array, however the array is split,       *)
(* merged and duplicated.                                                       *)
EXTENDS FreeSpace, VirtioBlk, Names, ListLemmas

(* The page the status descriptor of the chain points to, and the data. *)
StatusDesc == IF short THEN desc[1] ELSE desc[2]
DataDesc == IF short THEN None ELSE desc[1]

Numbers == 0 .. req

Stages == {"second", "third", "whole", "done"}
ChainType == [entry : 0 .. Word - 1, header : Numbers, data : Numbers,
              status : Numbers, stage : Stages]

BlkTypes ==
    /\ pc \in {"idle", "desc0", "desc1", "desc2", "ring", "poll"}
    /\ req \in Nat /\ memory \in Nat /\ req + memory <= PageBudget
    /\ pc # "idle" => req # None
    /\ type \in [Requests -> Types]
    /\ status \in [Requests -> {"unset", "zero", "error"}]
    /\ result \in [Requests -> {"none", "ok", "eio", "enomem", "etimedout"}]
    /\ desc \in [0 .. 2 -> Numbers] /\ short \in BOOLEAN
    /\ chains \subseteq ChainType
    /\ ran \subseteq Numbers \X Numbers \X Numbers
    /\ {avail, last, used, seen} \subseteq 0 .. Word - 1
    /\ late \in BOOLEAN

(* Nothing is known of the requests to come. *)
Fresh == \A r \in Requests : r > req => status[r] = "unset" /\ result[r] = "none"

(* What the descriptors lead to while a request is written and waited for. *)
Described == desc[0] = req /\ DataDesc = DataOf(req) /\ StatusDesc = req

Wiring ==
    /\ pc = "desc1" => type[req] = "transfer" /\ desc[0] = req
    /\ pc = "desc2" => /\ desc[0] = req
                       /\ type[req] = "transfer" => desc[1] = req /\ ~short
    /\ pc = "ring" \/ pc = "poll" => Described

-----------------------------------------------------------------------------
(* The types *)

LEMMA BlkTypesInitially == BlkInit => BlkTypes
<1> SUFFICES ASSUME BlkInit PROVE BlkTypes
  OBVIOUS
<1>1. PageBudget \in Nat /\ 0 \in 0 .. Word - 1
  BY VirtioAssumption
<1>2. 0 \in Numbers /\ desc \in [0 .. 2 -> Numbers]
  BY DEF BlkInit, Numbers, None
<1>3. req + memory <= PageBudget /\ type \in [Requests -> Types]
  BY <1>1 DEF BlkInit, Types, None
<1>4. {avail, last, used, seen} \subseteq 0 .. Word - 1
  BY <1>1 DEF BlkInit
<1> QED BY <1>1, <1>2, <1>3, <1>4 DEF BlkInit, BlkTypes, None

LEMMA BlkTypesStep == ASSUME BlkTypes, [BlkNext]_blkVars PROVE BlkTypes'
<1> USE DEF BlkTypes
<1>0. PageBudget \in Nat /\ Word \in Nat \ {0, 1}
  BY VirtioAssumption
<1>1. ASSUME NEW t \in Types, Submit(t) PROVE BlkTypes'
  <2>1. /\ req' = req + 1 /\ req' # None /\ req' \in Nat /\ Numbers \subseteq Numbers'
        /\ req' \in Requests
    BY <1>0, <1>1 DEF Submit, Numbers, None, Requests
  <2>2. memory' \in Nat /\ req' + memory' <= PageBudget /\ pc' \in {"idle", "desc0"}
    BY <1>0, <1>1, <2>1 DEF Submit, Cost
  <2>3. /\ type' \in [Requests -> Types]
        /\ status' \in [Requests -> {"unset", "zero", "error"}]
        /\ result' \in [Requests -> {"none", "ok", "eio", "enomem", "etimedout"}]
    BY <1>1, <2>1 DEF Submit
  <2>4. /\ desc' \in [0 .. 2 -> Numbers'] /\ chains' \subseteq ChainType'
        /\ ran' \subseteq Numbers' \X Numbers' \X Numbers'
    BY <1>1, <2>1 DEF Submit, ChainType
  <2> QED BY <1>1, <2>1, <2>2, <2>3, <2>4 DEF Submit
<1>2. CASE DescHeader \/ DescData \/ DescStatus
  <2>1. req \in Numbers /\ Numbers' = Numbers
    BY <1>2 DEF DescHeader, DescData, DescStatus, Rest, Numbers
  <2>2. ChainType' = ChainType
    BY <2>1 DEF ChainType
  <2>3. desc' \in [0 .. 2 -> Numbers] /\ short' \in BOOLEAN
    BY <1>2, <2>1 DEF DescHeader, DescData, DescStatus
  <2> QED BY <1>2, <2>1, <2>2, <2>3 DEF DescHeader, DescData, DescStatus, Rest
<1>3. CASE Notify
  BY <1>0, <1>3 DEF Notify, Numbers, ChainType
<1>4. CASE Poll \/ TimeOut
  <2>1. Numbers' = Numbers /\ ChainType' = ChainType /\ last' \in 0 .. Word - 1 /\ late' \in BOOLEAN
    BY <1>4 DEF Poll, TimeOut, Return, Numbers, ChainType
  <2>2. result' \in [Requests -> {"none", "ok", "eio", "enomem", "etimedout"}]
    BY <1>4 DEF Poll, TimeOut, Return
  <2> QED BY <1>4, <2>1, <2>2 DEF Poll, TimeOut, Return
<1>5. CASE Fetch
  <2>1. /\ Numbers' = Numbers /\ ChainType' = ChainType
        /\ None \in Numbers /\ seen' \in 0 .. Word - 1
    BY <1>0, <1>5 DEF Fetch, driverVars, Numbers, None, ChainType
  <2>2. Chain \in ChainType
    BY <2>1 DEF Chain, ChainType, Stages
  <2> QED BY <1>5, <2>1, <2>2 DEF Fetch, driverVars
<1>6. ASSUME NEW c \in chains, FetchSecond(c) \/ FetchThird(c) PROVE BlkTypes'
  <2>1. UNCHANGED <<driverVars, status, used, seen, ran>>
    BY <1>6 DEF FetchSecond, FetchThird
  <2>2. Numbers' = Numbers /\ ChainType' = ChainType
    BY <2>1 DEF driverVars, Numbers, ChainType
  <2>3. c \in ChainType /\ desc[1] \in Numbers /\ desc[2] \in Numbers
    OBVIOUS
  <2>4. /\ [c EXCEPT !.status = desc[1], !.stage = "whole"] \in ChainType
        /\ [c EXCEPT !.data = desc[1], !.stage = "third"] \in ChainType
        /\ [c EXCEPT !.status = desc[2], !.stage = "whole"] \in ChainType
    BY <2>3 DEF ChainType, Stages
  <2>5. chains' \subseteq ChainType
    BY <1>6, <2>4 DEF FetchSecond, FetchThird, Advance
  <2> QED BY <2>1, <2>2, <2>5 DEF driverVars
<1>7. ASSUME NEW c \in chains, Perform(c) PROVE BlkTypes'
  <2>1. Numbers' = Numbers /\ ChainType' = ChainType
    BY <1>7 DEF Perform, driverVars, Numbers, ChainType
  <2>2. /\ [c EXCEPT !.stage = "done"] \in ChainType
        /\ <<c.header, c.data, c.status>> \in Numbers \X Numbers \X Numbers
    BY DEF ChainType, Stages
  <2>3. status' \in [Requests -> {"unset", "zero", "error"}]
    BY <1>7 DEF Perform
  <2> QED BY <1>7, <2>1, <2>2, <2>3 DEF Perform, Advance, driverVars
<1>8. ASSUME NEW c \in chains, Complete(c) PROVE BlkTypes'
  BY <1>0, <1>8 DEF Complete, driverVars, Numbers, ChainType
<1>9. CASE UNCHANGED blkVars
  BY <1>9 DEF blkVars, driverVars, Numbers, ChainType
<1> QED BY <1>1, <1>2, <1>3, <1>4, <1>5, <1>6, <1>7, <1>8, <1>9 DEF BlkNext, Driver, Device

-----------------------------------------------------------------------------
(* What holds before and after a time-out alike *)

FoundInv == BlkTypes /\ Fresh /\ Wiring

LEMMA CurrentRequest ==
    ASSUME BlkTypes
    PROVE  req \in Nat /\ PageBudget \in Nat /\ (req # None => req \in Requests)
<1>1. req \in Nat /\ memory \in Nat /\ PageBudget \in Nat /\ req + memory <= PageBudget
  BY VirtioAssumption DEF BlkTypes
<1>2. req <= PageBudget
  BY <1>1
<1> QED BY <1>1, <1>2 DEF Requests, None

(* What a whole request is stays fixed once it has been submitted. *)
LEMMA WholeKept ==
    ASSUME BlkTypes, NEW r \in Requests,
           type' = type \/ \E t \in Types : type' = [type EXCEPT ![req + 1] = t] /\ r # req + 1
    PROVE  Whole(r)' = Whole(r)
BY DEF BlkTypes, Whole, DataOf

LEMMA FoundInitially == BlkInit => FoundInv
<1> SUFFICES ASSUME BlkInit PROVE FoundInv
  OBVIOUS
<1>1. Fresh /\ Wiring
  BY DEF BlkInit, Fresh, Wiring
<1> QED BY <1>1, BlkTypesInitially DEF FoundInv

LEMMA FoundStep == ASSUME FoundInv, [BlkNext]_blkVars PROVE FoundInv'
<1> SUFFICES Fresh' /\ Wiring'
  BY BlkTypesStep DEF FoundInv
<1>1. BlkTypes' /\ BlkTypes /\ Fresh /\ Wiring
  BY BlkTypesStep DEF FoundInv
<1>2. ASSUME NEW t \in Types, Submit(t) PROVE Fresh' /\ Wiring'
  <2>1. req' = req + 1 /\ req' \in Requests /\ req \in Nat /\ pc' \in {"idle", "desc0"}
    BY <1>1, <1>2, VirtioAssumption DEF Submit, BlkTypes, None, Requests
  <2>2. \A r \in Requests \ {req'} : status'[r] = status[r] /\ result'[r] = result[r]
    BY <1>1, <1>2 DEF Submit, BlkTypes
  <2> QED BY <1>1, <2>1, <2>2 DEF Fresh, Wiring, Requests
<1>3. CASE DescHeader \/ DescData \/ DescStatus
  <2>1. /\ req' = req /\ type' = type /\ status' = status /\ result' = result
        /\ req \in Requests /\ desc \in [0 .. 2 -> Numbers]
        /\ type[req] \in {"transfer", "flush"}
    BY <1>1, <1>3, CurrentRequest
       DEF BlkTypes, DescHeader, DescData, DescStatus, Rest, Types
  <2>2. Fresh'
    BY <1>1, <2>1 DEF Fresh
  <2>3. ASSUME DescHeader PROVE Wiring'
    <3>1. pc' = IF type[req] = "flush" THEN "desc2" ELSE "desc1"
      BY <2>3 DEF DescHeader
    <3>2. desc'[0] = req
      BY <2>1, <2>3 DEF DescHeader
    <3> QED BY <2>1, <3>1, <3>2 DEF Wiring
  <2>4. ASSUME DescData PROVE Wiring'
    <3>1. pc' = "desc2" /\ desc'[0] = req /\ desc'[1] = req /\ ~short'
      BY <1>1, <2>1, <2>4 DEF DescData, Wiring
    <3> QED BY <2>1, <3>1 DEF Wiring
  <2>5. ASSUME DescStatus PROVE Wiring'
    <3>1. /\ desc'[0] = req /\ pc' = "ring"
          /\ type[req] = "flush" => desc'[1] = req /\ short'
          /\ type[req] = "transfer" => desc'[1] = req /\ desc'[2] = req /\ ~short'
      BY <1>1, <2>1, <2>5 DEF DescStatus, Wiring
    <3>2. Described'
      BY <2>1, <3>1 DEF Described, DataDesc, StatusDesc, DataOf
    <3> QED BY <2>1, <3>1, <3>2 DEF Wiring
  <2> QED BY <1>3, <2>2, <2>3, <2>4, <2>5
<1>4. CASE Notify \/ Poll \/ TimeOut
  <2>1. /\ req' = req /\ type' = type /\ status' = status /\ desc' = desc /\ short' = short
        /\ req \in Nat /\ req \in Requests /\ (pc' = "idle" \/ (pc' = "poll" /\ pc = "ring"))
    BY <1>1, <1>4, CurrentRequest DEF BlkTypes, Notify, Poll, TimeOut, Return
  <2>2. \A r \in Requests \ {req} : result'[r] = result[r]
    BY <1>1, <1>4 DEF BlkTypes, Notify, Poll, TimeOut, Return
  <2>3. Wiring'
    BY <1>1, <2>1 DEF Wiring, Described, DataDesc, StatusDesc, DataOf
  <2> QED BY <1>1, <2>1, <2>2, <2>3 DEF Fresh
<1>5. CASE Device
  <2>1. /\ pc' = pc /\ req' = req /\ type' = type /\ result' = result
        /\ desc' = desc /\ short' = short
    BY <1>5 DEF Device, Fetch, FetchSecond, FetchThird, Perform, Complete, driverVars
  <2>2. Wiring'
    BY <1>1, <2>1 DEF Wiring, Described, DataDesc, StatusDesc, DataOf
  <2>3. ASSUME NEW c \in chains, Perform(c) PROVE Fresh'
    <3>1. c.status \in Numbers
      BY <1>1 DEF BlkTypes, ChainType
    <3>2. \A r \in Requests : r > req => status'[r] = status[r]
      BY <1>1, <2>3, <3>1 DEF Perform, BlkTypes, Numbers
    <3> QED BY <1>1, <2>1, <3>2 DEF Fresh
  <2>4. ASSUME status' = status PROVE Fresh'
    BY <1>1, <2>1, <2>4 DEF Fresh
  <2>5. status' = status \/ \E c \in chains : Perform(c)
    BY <1>5 DEF Device, Fetch, FetchSecond, FetchThird, Complete
  <2> QED BY <2>2, <2>3, <2>4, <2>5
<1>6. CASE UNCHANGED blkVars
  <2>1. /\ pc' = pc /\ req' = req /\ type' = type /\ status' = status /\ result' = result
        /\ desc' = desc /\ short' = short
    BY <1>6 DEF blkVars, driverVars
  <2>2. Fresh'
    BY <1>1, <2>1 DEF Fresh
  <2> QED BY <1>1, <2>1, <2>2 DEF Wiring, Described, DataDesc, StatusDesc, DataOf
<1> QED BY <1>1, <1>2, <1>3, <1>4, <1>5, <1>6 DEF FoundInv, BlkNext, Driver

-----------------------------------------------------------------------------
(* In step until a time-out *)

(* Between requests nothing is on its way. *)
Settled == chains = {} /\ seen = avail /\ used = avail /\ last = avail

(* The device reads or works on a chain that is the current request: what it has
   read of it so far is what the descriptors say, since they do not change. *)
Ours(c) ==
    /\ c.header = desc[0]
    /\ c.stage = "second" => c.data = None
    /\ c.stage = "third" => ~short /\ c.data = desc[1]
    /\ c.stage \in {"whole", "done"} => c.data = DataDesc /\ c.status = StatusDesc

(* It has carried the request out and said so in the status byte. *)
Answered == status[req] \in {"zero", "error"} /\ Whole(req) \in ran

(* While the driver polls, the device has not taken the entry, works on the one
   chain there is, or has answered. *)
Polled ==
    /\ avail = (last + 1) % Word
    /\ result[req] = "none"
    /\ \/ chains = {} /\ seen = last /\ used = last
       \/ /\ seen = avail /\ used = last
          /\ \E c \in ChainType : chains = {c} /\ Ours(c) /\ (c.stage = "done" => Answered)
       \/ chains = {} /\ seen = avail /\ used = avail /\ Answered

InStep ==
    ~late => /\ pc # "poll" => Settled
             /\ pc = "poll" => Polled
             /\ pc # "idle" => result[req] = "none"

StepInv == InStep /\ InStepUntilTimeout

LEMMA StepInitially == BlkInit => StepInv
BY DEF BlkInit, StepInv, InStep, Settled, InStepUntilTimeout

LEMMA NextIndex ==
    ASSUME NEW i \in 0 .. Word - 1
    PROVE  (i + 1) % Word \in 0 .. Word - 1 /\ (i + 1) % Word # i
<1>1. Word \in Nat \ {0, 1} /\ i \in Nat /\ i < Word
  BY VirtioAssumption
<1>2. CASE i + 1 < Word
  BY <1>1, <1>2
<1>3. CASE i + 1 = Word
  BY <1>1, <1>3
<1> QED BY <1>1, <1>2, <1>3

LEMMA StepSubmit ==
    ASSUME FoundInv, StepInv, NEW t \in Types, Submit(t), ~late PROVE StepInv'
<1> USE DEF Submit
<1>1. /\ req' = req + 1 /\ req' \in Requests /\ req \in Nat
      /\ pc' \in {"idle", "desc0"} /\ UNCHANGED <<desc, short, avail, last, used, seen, chains, ran, late>>
  BY VirtioAssumption DEF FoundInv, BlkTypes, Requests
<1>2. \A r \in Requests \ {req'} :
         status'[r] = status[r] /\ result'[r] = result[r] /\ Whole(r)' = Whole(r)
  BY <1>1, WholeKept DEF FoundInv, BlkTypes
<1>3. result'[req'] \notin {"ok", "eio"} /\ (pc' # "idle" => result'[req'] = "none")
  BY <1>1 DEF FoundInv, BlkTypes, Fresh
<1>4. InStep'
  BY <1>1, <1>3 DEF StepInv, InStep, Settled
<1>5. ASSUME NEW c \in ran' PROVE \E r \in Requests : c = Whole(r)'
  <2>1. PICK r \in Requests : c = Whole(r)
    BY <1>1, <1>5 DEF StepInv, InStepUntilTimeout
  <2>2. c \in Numbers \X Numbers \X Numbers
    BY <1>1 DEF FoundInv, BlkTypes
  <2>3. r # req'
    BY <1>1, <2>1, <2>2 DEF Whole, Numbers
  <2> QED BY <1>2, <2>1, <2>3
<1>6. \A r \in Requests : result'[r] = "eio" => status'[r] = "error"
  BY <1>2, <1>3 DEF StepInv, InStepUntilTimeout
<1>7. \A r \in Requests : result'[r] = "ok" => Whole(r)' \in ran'
  BY <1>1, <1>2, <1>3 DEF StepInv, InStepUntilTimeout
<1> QED BY <1>4, <1>5, <1>6, <1>7 DEF StepInv, InStepUntilTimeout

LEMMA StepDriver ==
    ASSUME FoundInv, StepInv, DescHeader \/ DescData \/ DescStatus \/ Notify \/ Poll,
           ~late
    PROVE  StepInv'
<1>1. /\ UNCHANGED <<req, type, status, used, seen, chains, ran, late>>
      /\ req \in Requests
      /\ \A r : Whole(r)' = Whole(r)
  BY CurrentRequest
     DEF FoundInv, BlkTypes, DescHeader, DescData, DescStatus, Rest, Notify, Poll, Return, Whole,
         DataOf
<1>2. CASE DescHeader \/ DescData \/ DescStatus
  BY <1>1, <1>2 DEF StepInv, InStep, Settled, InStepUntilTimeout, DescHeader, DescData,
     DescStatus, Rest
<1>3. CASE Notify
  <2>1. Settled /\ result[req] = "none" /\ avail' = (avail + 1) % Word /\ pc' = "poll"
    BY <1>3 DEF StepInv, InStep, Notify
  <2>2. Polled' /\ result'[req] = "none"
    BY <1>1, <1>3, <2>1 DEF Settled, Polled, Notify
  <2>3. InStepUntilTimeout'
    BY <1>1, <1>3 DEF StepInv, InStepUntilTimeout, Notify
  <2> QED BY <1>1, <2>1, <2>2, <2>3 DEF StepInv, InStep
<1>4. CASE Poll
  <2>1. Polled /\ used # last /\ last' = used /\ pc' = "idle" /\ avail' = avail
    BY <1>4 DEF StepInv, InStep, Poll, Return
  <2>2. chains = {} /\ seen = avail /\ used = avail /\ Answered
    BY <2>1 DEF Polled
  <2>3. Settled'
    BY <1>1, <2>1, <2>2 DEF Settled
  <2>4. \A r \in Requests : result'[r] = "eio" => status[r] = "error"
    BY <1>1, <1>4, <2>2 DEF Poll, Return, Answered, FoundInv, BlkTypes, StepInv, InStepUntilTimeout
  <2>5. \A r \in Requests \ {req} : result'[r] = result[r]
    BY <1>1, <1>4 DEF Poll, Return, FoundInv, BlkTypes
  <2>6. \A r \in Requests : result'[r] = "ok" => Whole(r) \in ran
    BY <2>2, <2>5 DEF Answered, StepInv, InStepUntilTimeout
  <2> QED BY <1>1, <2>1, <2>3, <2>4, <2>6 DEF StepInv, InStep, InStepUntilTimeout
<1> QED BY <1>2, <1>3, <1>4

(* A step that carries out nothing and changes no status byte. *)
LEMMA StepQuiet ==
    ASSUME InStepUntilTimeout, UNCHANGED <<driverVars, status, ran>>
    PROVE  InStepUntilTimeout'
BY DEF InStepUntilTimeout, driverVars, Whole, DataOf

LEMMA StepDevice == ASSUME FoundInv, StepInv, Device, ~late PROVE StepInv'
<1>0. UNCHANGED <<pc, req, type, result, desc, short, avail, last, late, memory>>
  BY DEF Device, Fetch, FetchSecond, FetchThird, Perform, Complete, driverVars
<1>1. /\ UNCHANGED driverVars /\ ~late' /\ \A r : Whole(r)' = Whole(r)
      /\ ChainType' = ChainType /\ \A d : Ours(d)' = Ours(d)
  BY <1>0 DEF driverVars, Whole, DataOf, Ours, DataDesc, StatusDesc, ChainType, Numbers
<1>2. pc = "poll"
  BY DEF StepInv, InStep, Settled, Device, Fetch, FetchSecond, FetchThird, Perform, Complete
<1>3. /\ Polled /\ req \in Requests /\ Described
      /\ last \in 0 .. Word - 1 /\ avail # last /\ InStepUntilTimeout
  BY <1>2, CurrentRequest, NextIndex DEF StepInv, InStep, FoundInv, BlkTypes, Wiring, Polled
<1>4. SUFFICES Polled' /\ InStepUntilTimeout'
  BY <1>1, <1>2, <1>3 DEF StepInv, InStep, driverVars, Polled
<1>5. CASE Fetch
  <2>1. chains = {} /\ seen = last /\ used = last
    BY <1>3, <1>5 DEF Fetch, Polled
  <2>2. Chain \in ChainType /\ Ours(Chain) /\ Chain.stage # "done"
    BY <2>1, <1>3, CurrentRequest
       DEF Chain, ChainType, Stages, Ours, FoundInv, BlkTypes, Numbers, None
  <2>3. chains' = {Chain} /\ seen' = avail /\ used' = used
    BY <1>3, <1>5, <2>1 DEF Fetch, Polled
  <2>4. Polled'
    BY <1>1, <1>3, <2>1, <2>2, <2>3 DEF Polled, driverVars
  <2> QED BY <1>1, <1>3, <1>5, <2>4, StepQuiet DEF Fetch
<1>6. ASSUME NEW c \in chains, FetchSecond(c) \/ FetchThird(c)
      PROVE  Polled' /\ InStepUntilTimeout'
  <2>1. c \in ChainType /\ Ours(c) /\ chains = {c} /\ seen = avail /\ used = last
    BY <1>3, <1>6 DEF FetchSecond, FetchThird, Polled
  <2>2. desc[1] \in Numbers /\ desc[2] \in Numbers
    BY DEF FoundInv, BlkTypes
  <2>3. PICK d \in ChainType : chains' = {d} /\ Ours(d) /\ d.stage # "done"
    <3>1. CASE FetchSecond(c) /\ short
      <4> DEFINE d == [c EXCEPT !.status = desc[1], !.stage = "whole"]
      <4>1. d \in ChainType /\ Ours(d) /\ d.stage # "done"
        BY <2>1, <2>2, <3>1 DEF FetchSecond, ChainType, Stages, Ours, DataDesc, StatusDesc
      <4>2. chains' = {d}
        BY <2>1, <3>1 DEF FetchSecond, Advance
      <4> QED BY <4>1, <4>2
    <3>2. CASE FetchSecond(c) /\ ~short
      <4> DEFINE d == [c EXCEPT !.data = desc[1], !.stage = "third"]
      <4>1. d \in ChainType /\ Ours(d) /\ d.stage # "done"
        BY <2>1, <2>2, <3>2 DEF FetchSecond, ChainType, Stages, Ours, DataDesc, StatusDesc
      <4>2. chains' = {d}
        BY <2>1, <3>2 DEF FetchSecond, Advance
      <4> QED BY <4>1, <4>2
    <3>3. CASE FetchThird(c)
      <4> DEFINE d == [c EXCEPT !.status = desc[2], !.stage = "whole"]
      <4>1. d \in ChainType /\ Ours(d) /\ d.stage # "done"
        BY <2>1, <2>2, <3>3 DEF FetchThird, ChainType, Stages, Ours, DataDesc, StatusDesc
      <4>2. chains' = {d}
        BY <2>1, <3>3 DEF FetchThird, Advance
      <4> QED BY <4>1, <4>2
    <3> QED BY <1>6, <3>1, <3>2, <3>3
  <2>4. UNCHANGED <<status, used, seen, ran>>
    BY <1>6 DEF FetchSecond, FetchThird
  <2>5. Polled'
    BY <1>1, <1>3, <2>1, <2>3, <2>4 DEF Polled, driverVars
  <2> QED BY <1>1, <1>3, <2>4, <2>5, StepQuiet
<1>7. ASSUME NEW c \in chains, Perform(c) PROVE Polled' /\ InStepUntilTimeout'
  <2>1. c \in ChainType /\ Ours(c) /\ chains = {c} /\ seen = avail /\ used = last
    BY <1>3, <1>7 DEF Perform, Polled
  <2>2. <<c.header, c.data, c.status>> = Whole(req) /\ c.status = req /\ req # None
    BY <1>3, <1>7, <2>1, VirtioAssumption DEF Perform, Described, Ours, Whole, Requests, None
  <2>3. PICK s \in {"zero", "error"} : status' = [status EXCEPT ![req] = s]
    BY <1>7, <2>2 DEF Perform
  <2> DEFINE d == [c EXCEPT !.stage = "done"]
  <2>4. d \in ChainType /\ Ours(d) /\ d.stage = "done"
    BY <1>7, <2>1 DEF Perform, ChainType, Stages, Ours
  <2>5. chains' = {d} /\ UNCHANGED <<seen, used>> /\ ran' = ran \cup {Whole(req)}
    BY <1>7, <2>1, <2>2 DEF Perform, Advance
  <2>6. Answered' /\ \A r \in Requests \ {req} : status'[r] = status[r]
    BY <1>1, <1>3, <2>3, <2>5 DEF Answered, FoundInv, BlkTypes, driverVars
  <2> HIDE DEF d
  <2>7. Polled'
    BY <1>1, <1>3, <2>1, <2>4, <2>5, <2>6 DEF Polled, driverVars
  <2>8. result[req] = "none" /\ result' = result
    BY <1>0, <1>3 DEF Polled
  <2>9. \A r \in Requests : result'[r] = "eio" => status'[r] = "error"
    BY <1>1, <1>3, <2>6, <2>8 DEF InStepUntilTimeout
  <2>10. \A r \in Requests : result'[r] = "ok" => Whole(r)' \in ran'
    BY <1>1, <1>3, <2>5, <2>8 DEF InStepUntilTimeout
  <2>11. \A e \in ran' : \E r \in Requests : e = Whole(r)'
    BY <1>1, <1>3, <2>5 DEF InStepUntilTimeout
  <2> QED BY <2>7, <2>9, <2>10, <2>11 DEF InStepUntilTimeout
<1>8. ASSUME NEW c \in chains, Complete(c) PROVE Polled' /\ InStepUntilTimeout'
  <2>1. chains = {c} /\ seen = avail /\ used = last /\ Answered
    BY <1>3, <1>8 DEF Complete, Polled
  <2>2. chains' = {} /\ used' = avail /\ seen' = seen /\ status' = status /\ ran' = ran
    BY <1>3, <1>8, <2>1 DEF Complete, Polled
  <2>3. Polled'
    BY <1>0, <1>1, <1>3, <2>1, <2>2 DEF Polled, Answered
  <2> QED BY <1>1, <1>3, <2>2, <2>3, StepQuiet
<1> QED BY <1>5, <1>6, <1>7, <1>8 DEF Device

LEMMA StepKept == ASSUME FoundInv, StepInv, [BlkNext]_blkVars PROVE StepInv'
<1>1. CASE late \/ TimeOut
  <2>1. late' = late \/ TimeOut
    <3>1. CASE Device \/ UNCHANGED blkVars
      BY <3>1 DEF Device, Fetch, FetchSecond, FetchThird, Perform, Complete, driverVars, blkVars
    <3>2. CASE Driver
      BY <3>2 DEF Driver, Submit, DescHeader, DescData, DescStatus, Rest, Notify, Poll
    <3> QED BY <3>1, <3>2 DEF BlkNext
  <2>2. late'
    BY <1>1, <2>1 DEF TimeOut
  <2> QED BY <2>2 DEF StepInv, InStep, InStepUntilTimeout
<1>2. CASE ~late /\ UNCHANGED blkVars
  <2>1. /\ pc' = pc /\ req' = req /\ type' = type /\ result' = result /\ desc' = desc
        /\ short' = short /\ avail' = avail /\ last' = last /\ used' = used /\ seen' = seen
        /\ chains' = chains /\ late' = late /\ UNCHANGED <<driverVars, status, ran>>
        /\ ran' = ran /\ status' = status
    BY <1>2 DEF blkVars, driverVars
  <2>2. ChainType' = ChainType /\ \A c : Ours(c)' = Ours(c)
    BY <2>1 DEF ChainType, Numbers, Ours, DataDesc, StatusDesc
  <2>3. (Answered' <=> Answered) /\ (Settled' <=> Settled)
    BY <2>1 DEF Answered, Settled, Whole, DataOf
  <2>4. Polled' <=> Polled
    BY <2>1, <2>2, <2>3 DEF Polled
  <2> QED BY <1>2, <2>1, <2>3, <2>4, StepQuiet DEF StepInv, InStep
<1> QED BY <1>1, <1>2, StepSubmit, StepDriver, StepDevice DEF BlkNext, Driver

(* virtio_blk.rs:229-247: as long as no poll has timed out, the device carries out
   only whole requests, one that returns success among them, and a request fails
   only if the device says so. *)
THEOREM BlkInStepUntilTimeout == BlkSpec => []InStepUntilTimeout
<1>1. StepInv => InStepUntilTimeout
  BY DEF StepInv
<1>2. FoundInv /\ [BlkNext]_blkVars => FoundInv'
  BY FoundStep
<1>3. FoundInv /\ StepInv /\ [BlkNext]_blkVars => StepInv'
  BY StepKept
<1> QED BY <1>1, <1>2, <1>3, FoundInitially, StepInitially, PTL DEF BlkSpec

-----------------------------------------------------------------------------
(* Names. *)
EntryNames == Names \cup {NoName, ".", ".."}
Entries == [ino : Inos, name : EntryNames] \cup {HashRoot}
Modes == {"free", "file", "dir"}

(* What the disk holds: the hash root is the only entry whose inode is not there. *)
DiskOf(d) == d \in [mode : [Inos -> Modes], size : [Inos -> Nat],
                    area : [1 .. Slots -> Entries], free : Nat]

(* The sizes of the directories lie inside the area. *)
Fits(d) == \A i \in Inos : d.size[i] <= Slots

(* The slots of the root directory with an inode. *)
Used(d) == {s \in 1 .. d.size[RootIno] : d.area[s].ino \in Inos \ {0}}
Sound(d) ==
    /\ \A s \in Used(d) : d.mode[d.area[s].ino] # "free"
    /\ \A s, t \in Used(d) : d.area[s].ino = d.area[t].ino => s = t

Counted(d) == d.free >= Cardinality(FreeInos(d))
Exact(d) == d.free = Cardinality(FreeInos(d))

TreeInv ==
    /\ DiskOf(disk) /\ Counted(disk) /\ plain \in BOOLEAN
    /\ plain => Plain(disk) /\ Exact(disk) /\ Sound(disk)

-----------------------------------------------------------------------------
(* One step of path_walk, and the walks of the paths there are. *)
WalkStep(w, name) == IF w.ino = NoIno THEN w ELSE DirLookup(w.disk, w.ino, name)
Root(d) == [disk |-> d, ino |-> RootIno]

Steps(d, p, w) == [k \in 0 .. Len(p) |-> IF k = 0 THEN Root(d) ELSE WalkStep(w[k - 1], p[k])]

(* The recursive function of Walk satisfies its equation if any function does. *)
LEMMA WalkUnfolds ==
    ASSUME NEW d, NEW p, NEW u, u = Steps(d, p, u)
    PROVE  \E w : w = Steps(d, p, w) /\ Walk(d, p) = w[Len(p)]
<1> DEFINE F(w) == [k \in 0 .. Len(p) |->
                IF k = 0 THEN [disk |-> d, ino |-> RootIno]
                ELSE LET v == w[k - 1]
                     IN  IF v.ino = NoIno THEN v ELSE DirLookup(v.disk, v.ino, p[k])]
           walk == CHOOSE w : w = F(w)
<1>1. Walk(d, p) = walk[Len(p)]
  BY DEF Walk
<1>2. \A w : F(w) = Steps(d, p, w)
  BY DEF Steps, WalkStep, Root
<1>3. walk = F(walk)
  BY <1>2
<1> HIDE DEF walk, F
<1> QED BY <1>1, <1>2, <1>3

LEMMA WalkNone == \A d : Walk(d, <<>>) = Root(d)
<1> SUFFICES ASSUME NEW d PROVE Walk(d, <<>>) = Root(d)
  OBVIOUS
<1> DEFINE u == [k \in {0} |-> Root(d)]
<1>1. Len(<<>>) = 0 /\ 0 .. 0 = {0}
  OBVIOUS
<1>2. u = Steps(d, <<>>, u)
  BY <1>1 DEF Steps
<1>3. PICK w : w = Steps(d, <<>>, w) /\ Walk(d, <<>>) = w[0]
  BY <1>1, <1>2, WalkUnfolds
<1> QED BY <1>1, <1>3 DEF Steps

LEMMA WalkOne ==
    ASSUME NEW d, NEW p, Len(p) = 1
    PROVE  Walk(d, p) = WalkStep(Root(d), p[1])
<1> DEFINE u == [k \in 0 .. 1 |-> IF k = 0 THEN Root(d) ELSE WalkStep(Root(d), p[1])]
<1>1. u = Steps(d, p, u)
  <2>1. \A k \in 0 .. 1 : k = 0 \/ (k = 1 /\ k - 1 = 0)
    OBVIOUS
  <2> QED BY <2>1 DEF Steps
<1>2. PICK w : w = Steps(d, p, w) /\ Walk(d, p) = w[1]
  BY <1>1, WalkUnfolds
<1>3. 0 \in 0 .. 1 /\ 1 \in 0 .. 1 /\ 1 - 1 = 0
  OBVIOUS
<1>4. w[0] = Root(d)
  BY <1>2, <1>3 DEF Steps
<1>5. w[1] = WalkStep(w[0], p[1])
  BY <1>2, <1>3 DEF Steps
<1> QED BY <1>2, <1>4, <1>5

LEMMA WalkTwo ==
    ASSUME NEW d, NEW p, Len(p) = 2
    PROVE  Walk(d, p) = WalkStep(WalkStep(Root(d), p[1]), p[2])
<1> DEFINE u == [k \in 0 .. 2 |-> IF k = 0 THEN Root(d) ELSE
                    IF k = 1 THEN WalkStep(Root(d), p[1])
                    ELSE WalkStep(WalkStep(Root(d), p[1]), p[2])]
<1>1. u = Steps(d, p, u)
  <2>1. \A k \in 0 .. 2 : k = 0 \/ (k = 1 /\ k - 1 = 0) \/ (k = 2 /\ k - 1 = 1)
    OBVIOUS
  <2>2. u[0] = Root(d) /\ u[1] = WalkStep(Root(d), p[1])
    OBVIOUS
  <2> QED BY <2>1, <2>2 DEF Steps
<1>2. PICK w : w = Steps(d, p, w) /\ Walk(d, p) = w[2]
  BY <1>1, WalkUnfolds
<1>3. 0 \in 0 .. 2 /\ 1 \in 0 .. 2 /\ 2 \in 0 .. 2 /\ 1 - 1 = 0 /\ 2 - 1 = 1
  OBVIOUS
<1>4. w[0] = Root(d)
  BY <1>2, <1>3 DEF Steps
<1>5. w[1] = WalkStep(w[0], p[1])
  BY <1>2, <1>3 DEF Steps
<1>6. w[2] = WalkStep(w[1], p[2])
  BY <1>2, <1>3 DEF Steps
<1> QED BY <1>2, <1>4, <1>5, <1>6

-----------------------------------------------------------------------------
(* The operations on the disk, component by component. *)
LEMMA LeastIn == ASSUME NEW S, S \subseteq Nat, S # {} PROVE Least(S) \in S
<1>1. \E i \in S : \A j \in S : i <= j
  BY LeastNat
<1> QED BY <1>1 DEF Least

LEMMA DiskParts ==
    ASSUME NEW d, DiskOf(d)
    PROVE  /\ d.mode \in [Inos -> Modes] /\ d.size \in [Inos -> Nat]
           /\ d.area \in [1 .. Slots -> Entries] /\ d.free \in Nat
BY DEF DiskOf

MadeOf(d, m, z, a, f) == [d EXCEPT !.mode = m, !.size = z, !.area = a, !.free = f]

LEMMA DiskMade ==
    ASSUME NEW m \in [Inos -> Modes], NEW z \in [Inos -> Nat],
           NEW a \in [1 .. Slots -> Entries], NEW f \in Nat, NEW d, DiskOf(d)
    PROVE  LET e == MadeOf(d, m, z, a, f)
           IN  DiskOf(e) /\ e.mode = m /\ e.size = z /\ e.area = a /\ e.free = f
BY DEF DiskOf, MadeOf

LEMMA SpecialInos == /\ 0 \in Inos /\ NoIno \notin Inos /\ IndexIno \notin Inos /\ NoIno # 0
                     /\ Inos \subseteq Nat /\ NoName \notin Names /\ IsFiniteSet(Inos)
<1>1. IsFiniteSet(0 .. LastIno)
  BY NamesAssumption, FS_Interval
<1> QED BY <1>1, NamesAssumption DEF Inos, NoIno, IndexIno

LEMMA EntryFacts ==
    ASSUME NEW x \in Entries
    PROVE  /\ x.ino \in Inos \cup {IndexIno}
           /\ x.name \in Names => x.ino \in Inos
           /\ x.ino \notin Inos => x.name = NoName
BY SpecialInos DEF Entries, HashRoot

LEMMA SpecialEntries ==
    /\ HashRoot \in Entries /\ HashRoot.ino = IndexIno /\ HashRoot.name = NoName
    /\ EmptyEntry \in Entries /\ EmptyEntry.ino = 0 /\ EmptyEntry.name = NoName
BY SpecialInos DEF Entries, HashRoot, EmptyEntry, EntryNames

LEMMA IndexedParts ==
    ASSUME NEW d, DiskOf(d)
    PROVE  LET e == Indexed(d) IN
           /\ DiskOf(e) /\ e.mode = d.mode /\ e.size = d.size /\ e.free = d.free
           /\ e.area = [d.area EXCEPT ![1] = HashRoot] /\ Indexed(e) = e
<1> DEFINE e == Indexed(d)
           a == [d.area EXCEPT ![1] = HashRoot]
<1>1. e = [d EXCEPT !.area = a]
  BY DEF Indexed
<1>2. a \in [1 .. Slots -> Entries]
  BY DiskParts, SpecialEntries
<1>3. DiskOf(e) /\ e.mode = d.mode /\ e.size = d.size /\ e.free = d.free /\ e.area = a
  <2> HIDE DEF a, e
  <2> QED BY <1>1, <1>2 DEF DiskOf
<1>4. Indexed(e) = [e EXCEPT !.area = [a EXCEPT ![1] = HashRoot]]
  <2> HIDE DEF a
  <2>1. Indexed(e) = [e EXCEPT !.area = [e.area EXCEPT ![1] = HashRoot]]
    BY DEF Indexed
  <2> QED BY <1>3, <2>1
<1>5. [a EXCEPT ![1] = HashRoot] = a
  BY DiskParts
<1>6. Indexed(e) = e
  <2> HIDE DEF a, e
  <2> QED BY <1>3, <1>4, <1>5 DEF DiskOf
<1> QED BY <1>3, <1>6

(* A walk leaves the disk as it is or writes the hash root. *)
Same(d, e) == e = d \/ e = Indexed(d)

LEMMA SameParts ==
    ASSUME NEW d, DiskOf(d), NEW e, Same(d, e)
    PROVE  /\ DiskOf(e) /\ e.mode = d.mode /\ e.size = d.size /\ e.free = d.free
           /\ Indexed(e) = Indexed(d)
BY IndexedParts DEF Same

LEMMA SameAgain ==
    ASSUME NEW d, DiskOf(d), NEW e, Same(d, e), NEW f, Same(e, f)
    PROVE  Same(d, f)
BY IndexedParts DEF Same

LEMMA FoundParts ==
    ASSUME NEW d, DiskOf(d), Fits(d), NEW i \in Inos, NEW name, NEW s \in Found(d, i, name)
    PROVE  /\ s \in 1 .. Slots /\ s \in 1 .. d.size[i] /\ d.area[s] \in Entries
           /\ d.area[s].ino # 0 /\ d.area[s].name = name
           /\ Found(d, i, name) \subseteq Nat /\ Least(Found(d, i, name)) \in Found(d, i, name)
<1>1. d.size[i] \in Nat /\ d.size[i] <= Slots /\ Slots \in Nat
  BY DiskParts, NamesAssumption DEF Fits
<1>2. s \in 1 .. d.size[i] /\ d.area[s].ino # 0 /\ d.area[s].name = name
  BY DEF Found
<1>3. s \in 1 .. Slots
  BY <1>1, <1>2
<1>4. Found(d, i, name) \subseteq Nat
  BY <1>1 DEF Found
<1>5. Least(Found(d, i, name)) \in Found(d, i, name)
  BY <1>4, LeastIn
<1> QED BY <1>2, <1>3, <1>4, <1>5, DiskParts

(* dir_lookup finds an inode only in a directory, and reads it from the entry that
   a scan meets first. *)
LEMMA LookupParts ==
    ASSUME NEW d, DiskOf(d), Fits(d), NEW i \in Inos, NEW name \in Names
    PROVE  LET r == DirLookup(d, i, name)
               e == Indexed(d)
               s == Least(Found(e, i, name))
           IN  /\ Same(d, r.disk) /\ r.ino \in (Inos \ {0}) \cup {NoIno}
               /\ r.ino # NoIno => /\ d.mode[i] = "dir" /\ name \notin LongNames /\ r.disk = e
                                   /\ s \in Found(e, i, name) /\ e.area[s].ino = r.ino
               /\ r.ino = NoIno /\ d.mode[i] = "dir" /\ name \notin LongNames =>
                                   Found(e, i, name) = {}
<1> DEFINE r == DirLookup(d, i, name)
           e == Indexed(d)
           at == Found(e, i, name)
           s == Least(at)
<1>1. DiskOf(e) /\ e.size = d.size /\ e.area = [d.area EXCEPT ![1] = HashRoot]
  BY IndexedParts
<1>2. Fits(e)
  BY <1>1 DEF Fits
<1>3. ASSUME at # {}
      PROVE  /\ s \in at /\ e.area[s].ino \in Inos \ {0} /\ d.area[s].ino = e.area[s].ino
  <2> HIDE DEF e
  <2>1. s \in at /\ s \in 1 .. Slots /\ e.area[s] \in Entries /\ e.area[s].ino # 0 /\ e.area[s].name = name
    <3>1. PICK y \in at : TRUE
      BY <1>3
    <3>0. DiskOf(e) /\ Fits(e)
      BY <1>1, <1>2
    <3>2. s \in at
      BY <3>0, <3>1, FoundParts
    <3>3. ASSUME NEW x \in at
          PROVE  x \in 1 .. Slots /\ e.area[x] \in Entries /\ e.area[x].ino # 0 /\ e.area[x].name = name
      BY <3>0, FoundParts
    <3> HIDE DEF s, at
    <3> QED BY <3>2, <3>3
  <2>2. e.area[s].ino \in Inos
    BY <2>1, EntryFacts
  <2>3. s # 1
    BY <1>1, <2>1, SpecialEntries, SpecialInos, DiskParts
  <2> QED BY <1>1, <2>1, <2>2, <2>3, DiskParts
<1>4. CASE d.mode[i] # "dir" \/ name \in LongNames
  <2>1. r = [disk |-> d, ino |-> NoIno]
    BY <1>4 DEF DirLookup
  <2> QED BY <1>4, <2>1 DEF Same
<1>5. CASE ~(d.mode[i] # "dir" \/ name \in LongNames)
  <2>1. r = [disk |-> e, ino |-> IF at = {} THEN NoIno ELSE d.area[s].ino]
    BY <1>5 DEF DirLookup
  <2> HIDE DEF r, e, at, s
  <2>2. r.disk = e /\ r.ino = IF at = {} THEN NoIno ELSE d.area[s].ino
    BY <2>1
  <2>3. Same(d, r.disk)
    BY <2>2 DEF Same, e
  <2>4. r.ino # NoIno => at # {}
    BY <2>2
  <2>5. r.ino = NoIno => at = {}
    BY <1>3, <2>2, SpecialInos
  <2>6. r.ino \in (Inos \ {0}) \cup {NoIno} /\ (r.ino # NoIno => s \in at /\ e.area[s].ino = r.ino)
    BY <1>3, <2>2
  <2> QED BY <1>5, <2>2, <2>3, <2>5, <2>6 DEF r, e, at, s
<1> QED BY <1>4, <1>5

LEMMA SameFits ==
    ASSUME NEW d, DiskOf(d), Fits(d), NEW e, Same(d, e)
    PROVE  DiskOf(e) /\ Fits(e)
BY SameParts DEF Fits

(* One step of a walk. *)
LEMMA WalkStepParts ==
    ASSUME NEW d, DiskOf(d), Fits(d), NEW w, Same(d, w.disk), w.ino \in Inos \cup {NoIno},
           NEW name \in Names
    PROVE  LET r == WalkStep(w, name)
           IN  \/ Same(d, r.disk) /\ r.ino \in (Inos \ {0}) \cup {NoIno}
               \/ r = w /\ w.ino = NoIno
<1> DEFINE r == WalkStep(w, name)
<1>1. CASE w.ino = NoIno
  BY <1>1 DEF WalkStep
<1>2. CASE w.ino # NoIno
  <2>1. w.ino \in Inos /\ r = DirLookup(w.disk, w.ino, name)
    BY <1>2 DEF WalkStep
  <2>2. DiskOf(w.disk) /\ Fits(w.disk)
    BY SameFits
  <2> HIDE DEF r
  <2>3. Same(w.disk, r.disk) /\ r.ino \in (Inos \ {0}) \cup {NoIno}
    BY <2>1, <2>2, LookupParts
  <2>4. Same(d, r.disk)
    BY <2>3, SameAgain
  <2> QED BY <2>3, <2>4 DEF r
<1> QED BY <1>1, <1>2

(* The shapes of a path. *)
LEMMA PathParts ==
    ASSUME NEW p \in Paths
    PROVE  \/ p = <<>> /\ ParentOf(p) = <<>> /\ FilenameOf(p) = NoName
           \/ /\ Len(p) = 1 /\ p # <<>> /\ p[1] \in Names /\ p = <<p[1]>>
              /\ ParentOf(p) = <<>> /\ FilenameOf(p) = p[1]
           \/ /\ Len(p) = 2 /\ p # <<>> /\ p[1] \in Names /\ p[2] \in Names
              /\ ParentOf(p) \in Paths /\ Len(ParentOf(p)) = 1 /\ ParentOf(p)[1] = p[1]
              /\ ParentOf(p) # <<>> /\ FilenameOf(p) = p[2]
<1>1. CASE p = <<>>
  BY <1>1 DEF ParentOf, FilenameOf
<1>2. ASSUME NEW n \in Names, p = <<n>>
      PROVE  /\ Len(p) = 1 /\ p # <<>> /\ p[1] \in Names /\ p = <<p[1]>>
             /\ ParentOf(p) = <<>> /\ FilenameOf(p) = p[1]
  BY <1>2 DEF ParentOf, FilenameOf, Front, Last
<1>3. ASSUME NEW a \in Components, NEW b \in Components, p = <<a, b>>
      PROVE  /\ Len(p) = 2 /\ p # <<>> /\ p[1] \in Names /\ p[2] \in Names
             /\ ParentOf(p) \in Paths /\ Len(ParentOf(p)) = 1 /\ ParentOf(p)[1] = p[1]
             /\ ParentOf(p) # <<>> /\ FilenameOf(p) = p[2]
  <2>1. ParentOf(p) = <<a>> /\ FilenameOf(p) = b
    <3>1. p # <<>> /\ Len(p) = 2 /\ p[1] = a /\ p[2] = b
      BY <1>3
    <3>2. ParentOf(p) = SubSeq(p, 1, 1) /\ FilenameOf(p) = p[2]
      BY <3>1 DEF ParentOf, FilenameOf, Front, Last
    <3>3. SubSeq(p, 1, 1) = [i \in 1 .. 1 |-> p[i]]
      BY <3>1
    <3>4. [i \in 1 .. 1 |-> p[i]] = <<a>>
      BY <3>1
    <3> QED BY <3>1, <3>2, <3>3, <3>4
  <2>2. a \in Names /\ b \in Names
    BY DEF Names
  <2>3. <<a>> \in Paths
    BY <2>2 DEF Paths
  <2> QED BY <1>3, <2>1, <2>2, <2>3
<1> QED BY <1>1, <1>2, <1>3 DEF Paths

LEMMA RootParts ==
    ASSUME NEW d
    PROVE  Root(d).disk = d /\ Root(d).ino = 0
BY DEF Root, RootIno

(* Where a walk ends. *)
LEMMA WalkParts ==
    ASSUME NEW d, DiskOf(d), Fits(d), NEW p \in Paths
    PROVE  LET w == Walk(d, p)
           IN  /\ Same(d, w.disk) /\ w.ino \in Inos \cup {NoIno}
               /\ p # <<>> => w.ino # 0
               /\ p = <<>> => w.disk = d /\ w.ino = 0
<1> DEFINE w == Walk(d, p)
<1>1. Root(d).disk = d /\ Root(d).ino = 0 /\ Same(d, Root(d).disk) /\ Root(d).ino \in Inos \cup {NoIno}
  BY RootParts, SpecialInos DEF Same
<1>2. CASE p = <<>>
  BY <1>1, <1>2, WalkNone
<1>3. ASSUME NEW n \in Names
      PROVE  LET r == WalkStep(Root(d), n)
             IN  Same(d, r.disk) /\ r.ino \in (Inos \ {0}) \cup {NoIno}
  BY <1>1, WalkStepParts, SpecialInos
<1>4. CASE Len(p) = 1 /\ p[1] \in Names /\ p # <<>>
  <2>1. w = WalkStep(Root(d), p[1])
    <3>1. Len(p) = 1
      BY <1>4
    <3> QED BY <3>1, WalkOne
  <2> QED BY <1>3, <1>4, <2>1, SpecialInos
<1>5. CASE Len(p) = 2 /\ p[1] \in Names /\ p[2] \in Names /\ p # <<>>
  <2> DEFINE v == WalkStep(Root(d), p[1])
  <2>1. w = WalkStep(v, p[2])
    <3>1. Len(p) = 2
      BY <1>5
    <3> QED BY <3>1, WalkTwo
  <2>2. Same(d, v.disk) /\ v.ino \in (Inos \ {0}) \cup {NoIno}
    BY <1>3, <1>5
  <2> HIDE DEF v, w
  <2>3. \/ Same(d, w.disk) /\ w.ino \in (Inos \ {0}) \cup {NoIno}
        \/ w = v
    BY <1>5, <2>1, <2>2, WalkStepParts
  <2>4. Same(d, w.disk) /\ w.ino \in (Inos \ {0}) \cup {NoIno}
    BY <2>2, <2>3
  <2> QED BY <1>5, <2>4, SpecialInos DEF w
<1> QED BY <1>2, <1>4, <1>5, PathParts

LEMMA FreeFinite ==
    ASSUME NEW d
    PROVE  IsFiniteSet(FreeInos(d)) /\ Cardinality(FreeInos(d)) \in Nat
<1>1. FreeInos(d) \in SUBSET Inos
  BY DEF FreeInos
<1>2. IsFiniteSet(FreeInos(d))
  BY <1>1, FS_Subset, SpecialInos
<1> QED BY <1>2, FS_CardinalityType

(* alloc_inode *)
LEMMA AllocParts ==
    ASSUME NEW d, DiskOf(d), CanAlloc(d), NEW m \in {"file", "dir"}
    PROVE  LET n == NewIno(d)
               e == AllocInode(d, m)
           IN  /\ n \in Inos /\ d.mode[n] = "free"
               /\ DiskOf(e) /\ e.mode = [d.mode EXCEPT ![n] = m] /\ e.size = [d.size EXCEPT ![n] = 0]
               /\ e.area = d.area /\ e.free = d.free - 1
               /\ Counted(d) => Counted(e)
               /\ Exact(d) => Exact(e)
<1> DEFINE n == NewIno(d)
           e == AllocInode(d, m)
<1>1. n \in Inos /\ d.mode[n] = "free" /\ d.free > 0
  <2>1. FreeInos(d) \subseteq Nat /\ FreeInos(d) # {} /\ d.free > 0
    BY SpecialInos DEF FreeInos, CanAlloc
  <2>2. n \in FreeInos(d)
    BY <2>1, LeastIn DEF NewIno
  <2> QED BY <2>1, <2>2 DEF FreeInos
<1> DEFINE mo == [d.mode EXCEPT ![n] = m]
           si == [d.size EXCEPT ![n] = 0]
<1>2. e = MadeOf(d, mo, si, d.area, d.free - 1)
  BY DEF AllocInode, DiskOf, MadeOf
<1> HIDE DEF n, e
<1>3. mo \in [Inos -> Modes] /\ si \in [Inos -> Nat] /\ d.free - 1 \in Nat /\ d.area \in [1 .. Slots -> Entries]
  BY <1>1, DiskParts DEF Modes
<1>4. DiskOf(e) /\ e.mode = mo /\ e.size = si /\ e.area = d.area /\ e.free = d.free - 1
  <2> HIDE DEF mo, si
  <2> QED BY <1>2, <1>3, DiskMade
<1>5. FreeInos(e) = FreeInos(d) \ {n} /\ n \in FreeInos(d)
  BY <1>1, <1>4, DiskParts DEF FreeInos
<1>6. Cardinality(FreeInos(e)) = Cardinality(FreeInos(d)) - 1 /\ Cardinality(FreeInos(d)) \in Nat
  BY <1>5, FreeFinite, FS_RemoveElement
<1>7. (Counted(d) => Counted(e)) /\ (Exact(d) => Exact(e))
  <2>1. d.free \in Nat /\ e.free = d.free - 1
    BY <1>4, DiskParts
  <2> QED BY <1>6, <2>1 DEF Counted, Exact
<1> QED BY <1>1, <1>4, <1>7 DEF n, e

(* free_inode *)
LEMMA FreeParts ==
    ASSUME NEW d, DiskOf(d), NEW i \in Inos
    PROVE  LET e == FreeInode(d, i)
           IN  /\ DiskOf(e) /\ e.mode = [d.mode EXCEPT ![i] = "free"] /\ e.size = [d.size EXCEPT ![i] = 0]
               /\ e.area = d.area /\ e.free = d.free + 1
               /\ Counted(d) => Counted(e)
               /\ Exact(d) /\ d.mode[i] # "free" => Exact(e)
<1> DEFINE e == FreeInode(d, i)
           mo == [d.mode EXCEPT ![i] = "free"]
           si == [d.size EXCEPT ![i] = 0]
<1>1. e = MadeOf(d, mo, si, d.area, d.free + 1)
  BY DEF FreeInode, DiskOf, MadeOf
<1> HIDE DEF e
<1>2. mo \in [Inos -> Modes] /\ si \in [Inos -> Nat] /\ d.free + 1 \in Nat /\ d.area \in [1 .. Slots -> Entries]
  BY DiskParts DEF Modes
<1>3. DiskOf(e) /\ e.mode = mo /\ e.size = si /\ e.area = d.area /\ e.free = d.free + 1
  <2> HIDE DEF mo, si
  <2> QED BY <1>1, <1>2, DiskMade
<1>4. FreeInos(e) = FreeInos(d) \cup {i} /\ (i \in FreeInos(d) <=> d.mode[i] = "free")
  BY <1>3, DiskParts DEF FreeInos
<1>5. /\ Cardinality(FreeInos(e)) =
            IF d.mode[i] = "free" THEN Cardinality(FreeInos(d)) ELSE Cardinality(FreeInos(d)) + 1
      /\ Cardinality(FreeInos(d)) \in Nat
  BY <1>4, FreeFinite, FS_AddElement
<1>6. (Counted(d) => Counted(e)) /\ (Exact(d) /\ d.mode[i] # "free" => Exact(e))
  <2>1. d.free \in Nat /\ e.free = d.free + 1
    BY <1>3, DiskParts
  <2> QED BY <1>5, <2>1 DEF Counted, Exact
<1> QED BY <1>3, <1>6 DEF e

(* The area with a new entry, and without one. *)
Entered(a, s, ino, name) == [a EXCEPT ![s] = [ino |-> ino, name |-> name]]
Emptied(a, s) == [[a EXCEPT ![s] = EmptyEntry] EXCEPT ![1] = HashRoot]

Longer(z, i) == [z EXCEPT ![i] = z[i] + 1]

(* dir_add *)
LEMMA AddParts ==
    ASSUME NEW d, DiskOf(d), NEW i \in Inos, NEW ino \in Inos, NEW name \in EntryNames
    PROVE  LET e == DirAdd(d, i, ino, name)
           IN  /\ DiskOf(e) /\ e.mode = d.mode /\ e.free = d.free
               /\ e.size = Longer(d.size, i)
               /\ e.area = Entered(d.area, d.size[i] + 1, ino, name)
<1> DEFINE e == DirAdd(d, i, ino, name)
           si == [d.size EXCEPT ![i] = d.size[i] + 1]
           ar == [d.area EXCEPT ![d.size[i] + 1] = [ino |-> ino, name |-> name]]
<1>1. e = MadeOf(d, d.mode, si, ar, d.free)
  BY DEF DirAdd, DiskOf, MadeOf
<1> HIDE DEF e
<1>2. si \in [Inos -> Nat] /\ d.mode \in [Inos -> Modes] /\ d.free \in Nat
  BY DiskParts
<1>3. ar \in [1 .. Slots -> Entries]
  <2>1. [ino |-> ino, name |-> name] \in Entries
    BY DEF Entries
  <2> QED BY <2>1, DiskParts
<1> HIDE DEF si, ar
<1>4. DiskOf(e) /\ e.mode = d.mode /\ e.size = si /\ e.area = ar /\ e.free = d.free
  BY <1>1, <1>2, <1>3, DiskMade
<1> QED BY <1>4 DEF e, si, ar, Entered, Longer

(* dir_remove *)
LEMMA RemoveParts ==
    ASSUME NEW d, DiskOf(d), NEW i, NEW name
    PROVE  LET e == DirRemove(d, i, name)
               s == Least(Found(d, i, name))
           IN  /\ DiskOf(e) /\ e.mode = d.mode /\ e.size = d.size /\ e.free = d.free
               /\ e.area = Emptied(d.area, s)
<1> DEFINE s == Least(Found(d, i, name))
           ar == [d.area EXCEPT ![s] = EmptyEntry]
           f == [d EXCEPT !.area[s] = EmptyEntry]
<1>1. f = MadeOf(d, d.mode, d.size, ar, d.free)
  BY DEF DiskOf, MadeOf
<1>2. ar \in [1 .. Slots -> Entries]
  BY DiskParts, SpecialEntries
<1>3. DirRemove(d, i, name) = Indexed(f)
  BY DEF DirRemove
<1> HIDE DEF f, ar
<1>4. DiskOf(f) /\ f.mode = d.mode /\ f.size = d.size /\ f.area = ar /\ f.free = d.free
  BY <1>1, <1>2, DiskParts, DiskMade
<1> QED BY <1>3, <1>4, IndexedParts DEF ar, Emptied

-----------------------------------------------------------------------------
(* In every file system, plain or not, no call counts too few free inodes. *)
Good(d) == DiskOf(d) /\ Counted(d)

LEMMA CountedSame ==
    ASSUME NEW d, NEW e, e.mode = d.mode, e.free = d.free
    PROVE  (Counted(d) => Counted(e)) /\ (Exact(d) => Exact(e))
<1>1. FreeInos(e) = FreeInos(d)
  BY DEF FreeInos
<1> QED BY <1>1 DEF Counted, Exact

LEMMA SameGood ==
    ASSUME NEW d, Good(d), Fits(d), NEW e, Same(d, e)
    PROVE  Good(e) /\ Fits(e)
BY SameParts, SameFits, CountedSame DEF Good

LEMMA FilenameType == ASSUME NEW p \in Paths PROVE FilenameOf(p) \in EntryNames /\ ParentOf(p) \in Paths
<1>1. <<>> \in Paths
  BY DEF Paths
<1> QED BY <1>1, PathParts DEF EntryNames

LEMMA WalkGood ==
    ASSUME NEW d, Good(d), Fits(d), NEW p \in Paths
    PROVE  Good(Walk(d, p).disk) /\ Fits(Walk(d, p).disk) /\ Walk(d, p).ino \in Inos \cup {NoIno}
<1>1. Same(d, Walk(d, p).disk) /\ Walk(d, p).ino \in Inos \cup {NoIno}
  BY WalkParts DEF Good
<1> QED BY <1>1, SameGood

LEMMA AddGood ==
    ASSUME NEW d, Good(d), NEW i \in Inos, NEW ino \in Inos, NEW name \in EntryNames
    PROVE  Good(DirAdd(d, i, ino, name))
<1> DEFINE e == DirAdd(d, i, ino, name)
<1>0. DiskOf(d)
  BY DEF Good
<1>1. DiskOf(e) /\ e.mode = d.mode /\ e.free = d.free
  BY <1>0, AddParts
<1> HIDE DEF e
<1>2. Good(e)
  BY <1>1, CountedSame DEF Good
<1> QED BY <1>2 DEF e

LEMMA RemoveGood ==
    ASSUME NEW d, Good(d), NEW i, NEW name
    PROVE  Good(DirRemove(d, i, name))
<1> DEFINE e == DirRemove(d, i, name)
<1>0. DiskOf(d)
  BY DEF Good
<1>1. DiskOf(e) /\ e.mode = d.mode /\ e.free = d.free
  BY <1>0, RemoveParts
<1> HIDE DEF e
<1>2. Good(e)
  BY <1>1, CountedSame DEF Good
<1> QED BY <1>2 DEF e

LEMMA MakeGood ==
    ASSUME NEW d, Good(d), NEW i \in Inos \cup {NoIno}, NEW name \in EntryNames, NEW m \in {"file", "dir"}
    PROVE  Good(Make(d, i, name, m))
<1>1. CASE i = NoIno \/ ~CanAlloc(d) \/ ~CanAdd(name)
  BY <1>1 DEF Make
<1>2. CASE ~(i = NoIno \/ ~CanAlloc(d) \/ ~CanAdd(name))
  <2>1. Make(d, i, name, m) = DirAdd(AllocInode(d, m), i, NewIno(d), name) /\ i \in Inos /\ CanAlloc(d)
    BY <1>2 DEF Make
  <2>2. Good(AllocInode(d, m)) /\ NewIno(d) \in Inos
    BY <2>1, AllocParts DEF Good
  <2> QED BY <2>1, <2>2, AddGood
<1> QED BY <1>1, <1>2

LEMMA UnlinkedGood ==
    ASSUME NEW d, Good(d), Fits(d), NEW p \in Paths
    PROVE  Good(Unlinked(d, p))
<1> DEFINE parent == Walk(d, ParentOf(p))
           target == Walk(parent.disk, p)
           name == FilenameOf(p)
<1>1. Good(parent.disk) /\ Fits(parent.disk)
  BY WalkGood, FilenameType
<1>2. Good(target.disk) /\ target.ino \in Inos \cup {NoIno}
  BY <1>1, WalkGood
<1>3. \/ Unlinked(d, p) = parent.disk
      \/ Unlinked(d, p) = target.disk
      \/ target.ino # NoIno /\ Unlinked(d, p) = FreeInode(DirRemove(target.disk, parent.ino, name), target.ino)
  BY DEF Unlinked
<1> HIDE DEF parent, target, name
<1>4. target.ino # NoIno => Good(FreeInode(DirRemove(target.disk, parent.ino, name), target.ino))
  <2> SUFFICES ASSUME target.ino # NoIno
               PROVE  Good(FreeInode(DirRemove(target.disk, parent.ino, name), target.ino))
    OBVIOUS
  <2>1. Good(DirRemove(target.disk, parent.ino, name)) /\ target.ino \in Inos
    BY <1>2, RemoveGood
  <2> QED BY <2>1, FreeParts DEF Good
<1> QED BY <1>1, <1>2, <1>3, <1>4

LEMMA OpenGood == ASSUME Good(disk), Fits(disk), NEW p \in Paths, Open(p) PROVE Good(disk')
<1> DEFINE target == Walk(disk, p)
           parent == Walk(target.disk, ParentOf(p))
<1>1. disk' = target.disk \/ disk' = Make(parent.disk, parent.ino, FilenameOf(p), "file")
  BY DEF Open
<1>2. Good(target.disk) /\ Fits(target.disk)
  BY WalkGood
<1> HIDE DEF target
<1>3. Good(parent.disk) /\ parent.ino \in Inos \cup {NoIno}
  BY <1>2, WalkGood, FilenameType
<1> HIDE DEF parent
<1>4. Good(Make(parent.disk, parent.ino, FilenameOf(p), "file"))
  BY <1>3, MakeGood, FilenameType
<1> QED BY <1>1, <1>2, <1>4

LEMMA SymlinkGood == ASSUME Good(disk), Fits(disk), NEW p \in Paths, Symlink(p) PROVE Good(disk')
<1> DEFINE parent == Walk(disk, ParentOf(p))
<1>1. disk' = Make(parent.disk, parent.ino, FilenameOf(p), "file")
  BY DEF Symlink
<1>2. Good(parent.disk) /\ parent.ino \in Inos \cup {NoIno}
  BY WalkGood, FilenameType
<1> HIDE DEF parent
<1> QED BY <1>1, <1>2, MakeGood, FilenameType

LEMMA MkdirGood == ASSUME Good(disk), Fits(disk), NEW p \in Paths, Mkdir(p) PROVE Good(disk')
<1> DEFINE parent == Walk(disk, ParentOf(p))
           name == FilenameOf(p)
           made == Make(parent.disk, parent.ino, name, "dir")
           self == NewIno(parent.disk)
<1>1. disk' = IF Makes(parent.disk, parent.ino, name)
              THEN DirAdd(DirAdd(made, self, self, "."), self, parent.ino, "..") ELSE parent.disk
  BY DEF Mkdir
<1>2. Good(parent.disk) /\ parent.ino \in Inos \cup {NoIno} /\ name \in EntryNames
  BY WalkGood, FilenameType
<1> HIDE DEF parent, name
<1>3. Good(made)
  BY <1>2, MakeGood
<1>4. CASE Makes(parent.disk, parent.ino, name)
  <2>1. self \in Inos /\ parent.ino \in Inos
    BY <1>2, <1>4, AllocParts DEF Makes, Good
  <2>2. "." \in EntryNames /\ ".." \in EntryNames
    BY DEF EntryNames
  <2> HIDE DEF made, self
  <2>3. Good(DirAdd(made, self, self, "."))
    BY <1>3, <2>1, <2>2, AddGood
  <2>4. Good(DirAdd(DirAdd(made, self, self, "."), self, parent.ino, ".."))
    BY <2>1, <2>2, <2>3, AddGood
  <2> QED BY <1>1, <1>4, <2>4
<1>5. CASE ~Makes(parent.disk, parent.ino, name)
  BY <1>1, <1>2, <1>5
<1> QED BY <1>4, <1>5

LEMMA RmdirGood == ASSUME Good(disk), Fits(disk), NEW p \in Paths, Rmdir(p) PROVE Good(disk')
<1> DEFINE parent == Walk(disk, ParentOf(p))
           target == Walk(parent.disk, p)
<1>1. disk' = target.disk \/ disk' = Unlinked(disk, p)
  BY DEF Rmdir
<1>2. Good(parent.disk) /\ Fits(parent.disk)
  BY WalkGood, FilenameType
<1>3. Good(target.disk)
  BY <1>2, WalkGood
<1> QED BY <1>1, <1>3, UnlinkedGood

LEMMA RenameGood ==
    ASSUME Good(disk), Fits(disk), NEW old \in Paths, NEW new \in Paths, Rename(old, new)
    PROVE  Good(disk')
<1> DEFINE oldParent == Walk(disk, ParentOf(old))
           newParent == Walk(oldParent.disk, ParentOf(new))
           target == Walk(newParent.disk, old)
           existing == Walk(target.disk, new)
           cleared == IF existing.ino # NoIno THEN Unlinked(existing.disk, new) ELSE existing.disk
           added == DirAdd(cleared, newParent.ino, target.ino, FilenameOf(new))
<1>1. disk' = IF oldParent.ino = NoIno THEN oldParent.disk
              ELSE IF newParent.ino = NoIno THEN newParent.disk
              ELSE IF target.ino = NoIno THEN target.disk
              ELSE IF ~CanAdd(FilenameOf(new)) THEN cleared
              ELSE IF CanRemove(added, oldParent.ino, FilenameOf(old))
              THEN DirRemove(added, oldParent.ino, FilenameOf(old))
              ELSE IF CanRemove(added, newParent.ino, FilenameOf(new))
              THEN DirRemove(added, newParent.ino, FilenameOf(new))
              ELSE added
  BY DEF Rename
<1>2. Good(oldParent.disk) /\ Fits(oldParent.disk)
  BY WalkGood, FilenameType
<1> HIDE DEF oldParent
<1>3. Good(newParent.disk) /\ Fits(newParent.disk) /\ newParent.ino \in Inos \cup {NoIno}
  BY <1>2, WalkGood, FilenameType
<1> HIDE DEF newParent
<1>4. Good(target.disk) /\ Fits(target.disk) /\ target.ino \in Inos \cup {NoIno}
  BY <1>3, WalkGood
<1> HIDE DEF target
<1>5. Good(existing.disk) /\ Fits(existing.disk)
  BY <1>4, WalkGood
<1> HIDE DEF existing
<1>6. Good(cleared)
  BY <1>5, UnlinkedGood
<1> HIDE DEF cleared
<1>7. newParent.ino # NoIno /\ target.ino # NoIno => Good(added)
  BY <1>3, <1>4, <1>6, AddGood, FilenameType
<1> HIDE DEF added
<1>8. CASE \/ oldParent.ino = NoIno \/ newParent.ino = NoIno \/ target.ino = NoIno
           \/ ~CanAdd(FilenameOf(new))
  BY <1>1, <1>2, <1>3, <1>4, <1>6, <1>8
<1>9. CASE ~(\/ oldParent.ino = NoIno \/ newParent.ino = NoIno \/ target.ino = NoIno
             \/ ~CanAdd(FilenameOf(new)))
  <2>1. \/ disk' = DirRemove(added, oldParent.ino, FilenameOf(old))
        \/ disk' = DirRemove(added, newParent.ino, FilenameOf(new))
        \/ disk' = added
    BY <1>1, <1>9
  <2> QED BY <1>7, <1>9, <2>1, RemoveGood
<1> QED BY <1>8, <1>9

-----------------------------------------------------------------------------
(* In a plain file system the count is exact and entries have inodes of their own. *)
Tidy(d) == DiskOf(d) /\ Fits(d) /\ Plain(d) /\ Exact(d) /\ Sound(d)

LEMMA TidyParts ==
    ASSUME NEW d, Tidy(d)
    PROVE  /\ DiskOf(d) /\ Fits(d) /\ Exact(d) /\ Sound(d) /\ Plain(d)
           /\ d.mode \in [Inos -> Modes] /\ d.size \in [Inos -> Nat]
           /\ d.area \in [1 .. Slots -> Entries]
           /\ d.mode[0] = "dir" /\ d.size[0] \in Nat /\ d.size[0] <= Slots
           /\ \A i \in Inos \ {0} : d.mode[i] # "dir" /\ d.size[i] = 0
           /\ \A s \in 1 .. d.size[0] : s \in 1 .. Slots /\ s \in Nat /\ d.area[s] \in Entries
<1>1. DiskOf(d) /\ Fits(d) /\ Exact(d) /\ Sound(d) /\ Plain(d)
  BY DEF Tidy
<1>2. /\ d.mode \in [Inos -> Modes] /\ d.size \in [Inos -> Nat]
      /\ d.area \in [1 .. Slots -> Entries]
  BY <1>1, DiskParts
<1>3. d.size[0] \in Nat /\ d.size[0] <= Slots /\ Slots \in Nat
  BY <1>1, <1>2, SpecialInos, NamesAssumption DEF Fits
<1>4. \A s \in 1 .. d.size[0] : s \in 1 .. Slots /\ s \in Nat
  BY <1>3
<1> QED BY <1>1, <1>2, <1>3, <1>4 DEF Plain, RootIno

LEMMA EmptiedAt ==
    ASSUME NEW a \in [1 .. Slots -> Entries], NEW s, NEW t \in 1 .. Slots
    PROVE  Emptied(a, s)[t] = IF t = 1 THEN HashRoot ELSE IF t = s THEN EmptyEntry ELSE a[t]
BY DEF Emptied

LEMMA EnteredAt ==
    ASSUME NEW a \in [1 .. Slots -> Entries], NEW s, NEW ino, NEW name, NEW t \in 1 .. Slots
    PROVE  /\ t = s => Entered(a, s, ino, name)[t].ino = ino /\ Entered(a, s, ino, name)[t].name = name
           /\ t # s => Entered(a, s, ino, name)[t] = a[t]
BY DEF Entered

(* Taking entries out of the root directory disturbs nothing. *)
Unused(x) == x.name = NoName /\ x.ino \notin Inos \ {0}

LEMMA SpecialUnused == Unused(HashRoot) /\ Unused(EmptyEntry)
BY SpecialEntries, SpecialInos DEF Unused

LEMMA SoundShrinks ==
    ASSUME NEW d, NEW e, Sound(d), e.mode = d.mode, e.size[RootIno] = d.size[RootIno],
           \A s \in 1 .. d.size[RootIno] : e.area[s] = d.area[s] \/ Unused(e.area[s])
    PROVE  Sound(e)
<1>1. \A s \in Used(e) : s \in Used(d) /\ e.area[s] = d.area[s]
  BY DEF Used, Unused
<1> QED BY <1>1 DEF Sound

LEMMA TidyShrinks ==
    ASSUME NEW d, NEW e, Tidy(d), DiskOf(e), e.mode = d.mode, e.size = d.size, e.free = d.free,
           \A s \in 1 .. d.size[RootIno] : e.area[s] = d.area[s] \/ Unused(e.area[s])
    PROVE  Tidy(e)
<1>1. Sound(e) /\ Exact(e) /\ Fits(e)
  BY SoundShrinks, CountedSame DEF Tidy, Fits
<1>2. Plain(e)
  BY DEF Tidy, Plain, Unused
<1> QED BY <1>1, <1>2 DEF Tidy

LEMMA IndexedTidy ==
    ASSUME NEW d, Tidy(d)
    PROVE  Tidy(Indexed(d))
<1> DEFINE e == Indexed(d)
<1>1. DiskOf(d)
  BY DEF Tidy
<1>2. DiskOf(e) /\ e.mode = d.mode /\ e.size = d.size /\ e.free = d.free
  BY <1>1, IndexedParts
<1>3. e.area = [d.area EXCEPT ![1] = HashRoot]
  BY <1>1, IndexedParts
<1> HIDE DEF e
<1>4. \A s \in 1 .. d.size[RootIno] : e.area[s] = d.area[s] \/ Unused(e.area[s])
  BY <1>3, TidyParts, SpecialUnused DEF RootIno
<1> QED BY <1>2, <1>4, TidyShrinks DEF e

LEMMA SameTidy == ASSUME NEW d, Tidy(d), NEW e, Same(d, e) PROVE Tidy(e)
BY IndexedTidy DEF Same

(* Where walks end in a plain file system: nowhere below a file. *)
LEMMA WalkTidy ==
    ASSUME NEW d, Tidy(d), NEW p \in Paths
    PROVE  LET w == Walk(d, p)
               e == Indexed(d)
               s == Least(Found(e, 0, p[1]))
           IN  /\ Same(d, w.disk) /\ Tidy(w.disk) /\ w.ino \in Inos \cup {NoIno}
               /\ p = <<>> => w.disk = d /\ w.ino = 0
               /\ p # <<>> => w.ino # 0
               /\ Len(p) = 2 => w.ino = NoIno
               /\ Len(p) = 1 /\ w.ino # NoIno =>
                     /\ w.disk = e /\ p[1] \notin LongNames
                     /\ s \in Found(e, 0, p[1]) /\ e.area[s].ino = w.ino
               /\ Len(p) = 1 /\ w.ino = NoIno /\ p[1] \notin LongNames => Found(e, 0, p[1]) = {}
<1> DEFINE w == Walk(d, p)
           e == Indexed(d)
           s == Least(Found(e, 0, p[1]))
<1>1. DiskOf(d) /\ Fits(d) /\ d.mode[0] = "dir" /\ \A i \in Inos \ {0} : d.mode[i] # "dir"
  BY TidyParts
<1>2. /\ Same(d, w.disk) /\ w.ino \in Inos \cup {NoIno} /\ (p # <<>> => w.ino # 0)
      /\ p = <<>> => w.disk = d /\ w.ino = 0
  BY <1>1, WalkParts
<1>3. Tidy(w.disk)
  BY <1>2, SameTidy
<1>4. Root(d).disk = d /\ Root(d).ino = 0 /\ 0 # NoIno /\ 0 \in Inos
  BY RootParts, SpecialInos
<1>5. Len(p) \in {1, 2} => p[1] \in Names
  BY PathParts
<1>6. ASSUME Len(p) = 2 PROVE w.ino = NoIno
  <2> DEFINE v == WalkStep(Root(d), p[1])
  <2>1. w = WalkStep(v, p[2]) /\ v = DirLookup(d, 0, p[1]) /\ p[1] \in Names /\ p[2] \in Names
    <3>1. w = WalkStep(v, p[2])
      BY <1>6, WalkTwo
    <3>2. p[1] \in Names /\ p[2] \in Names
      BY <1>6, PathParts
    <3> QED BY <1>4, <3>1, <3>2 DEF WalkStep
  <2> HIDE DEF v, w
  <2>2. Same(d, v.disk) /\ v.ino \in (Inos \ {0}) \cup {NoIno}
    BY <1>1, <1>4, <2>1, LookupParts
  <2>3. CASE v.ino = NoIno
    BY <2>1, <2>3 DEF WalkStep
  <2>4. CASE v.ino # NoIno
    <3>1. w = DirLookup(v.disk, v.ino, p[2]) /\ v.ino \in Inos \ {0}
      BY <2>1, <2>2, <2>4 DEF WalkStep
    <3>2. DiskOf(v.disk) /\ Fits(v.disk) /\ v.disk.mode = d.mode
      BY <1>1, <2>2, SameFits, SameParts
    <3>3. v.disk.mode[v.ino] # "dir"
      BY <1>1, <3>1, <3>2
    <3> QED BY <2>1, <3>1, <3>2, <3>3, LookupParts
  <2> QED BY <2>3, <2>4
<1>7. ASSUME Len(p) = 1
      PROVE  /\ w.ino # NoIno => /\ w.disk = e /\ p[1] \notin LongNames
                                 /\ s \in Found(e, 0, p[1]) /\ e.area[s].ino = w.ino
             /\ w.ino = NoIno /\ p[1] \notin LongNames => Found(e, 0, p[1]) = {}
  <2>1. w = WalkStep(Root(d), p[1])
    BY <1>7, WalkOne
  <2>2. w = DirLookup(d, 0, p[1])
    BY <1>4, <2>1 DEF WalkStep
  <2>3. p[1] \in Names
    BY <1>5, <1>7
  <2> HIDE DEF w
  <2> QED BY <1>1, <1>4, <2>2, <2>3, LookupParts
<1> QED BY <1>2, <1>3, <1>6, <1>7

(* A new inode is nobody's, so an entry for it in the root directory is its own;
   an entry put into a file ends the plain state. *)
LEMMA MakeTidy ==
    ASSUME NEW d, Tidy(d), d.size[0] + 1 <= Slots, NEW i \in Inos \cup {NoIno},
           NEW name \in EntryNames, NEW m \in {"file", "dir"}, Plain(Make(d, i, name, m))
    PROVE  Exact(Make(d, i, name, m)) /\ Sound(Make(d, i, name, m))
<1> DEFINE n == NewIno(d)
           a == AllocInode(d, m)
           e == DirAdd(a, i, n, name)
<1>1. CASE i = NoIno \/ ~CanAlloc(d) \/ ~CanAdd(name)
  BY <1>1 DEF Make, Tidy
<1>2. CASE ~(i = NoIno \/ ~CanAlloc(d) \/ ~CanAdd(name))
  <2>1. Make(d, i, name, m) = e /\ i \in Inos /\ CanAlloc(d) /\ Plain(e)
    BY <1>2 DEF Make
  <2>2. /\ DiskOf(d) /\ Exact(d) /\ Sound(d) /\ d.mode \in [Inos -> Modes] /\ d.size \in [Inos -> Nat]
        /\ d.area \in [1 .. Slots -> Entries] /\ d.mode[0] = "dir" /\ d.size[0] \in Nat
        /\ \A t \in 1 .. d.size[0] : t \in 1 .. Slots
    BY TidyParts
  <2>3. n \in Inos /\ d.mode[n] = "free"
    BY <2>1, <2>2, AllocParts
  <2>4. /\ DiskOf(a) /\ a.mode = [d.mode EXCEPT ![n] = m] /\ a.size = [d.size EXCEPT ![n] = 0]
        /\ a.area = d.area /\ Exact(a)
    BY <2>1, <2>2, AllocParts
  <2> HIDE DEF n, a
  <2>5. /\ e.mode = a.mode /\ e.free = a.free /\ e.size = Longer(a.size, i)
        /\ e.area = Entered(a.area, a.size[i] + 1, n, name)
    <3>1. DiskOf(a) /\ i \in Inos /\ n \in Inos
      BY <2>1, <2>3, <2>4
    <3> QED BY <3>1, AddParts
  <2> HIDE DEF e
  <2>6. Exact(e)
    BY <2>4, <2>5, CountedSame
  <2>7. i = 0
    <3>1. a.size[i] \in Nat /\ e.size[i] = a.size[i] + 1
      BY <2>1, <2>4, <2>5, DiskParts DEF Longer
    <3>2. e.size[i] # 0
      BY <3>1
    <3> QED BY <2>1, <3>2 DEF Plain, RootIno
  <2>8. n # 0 /\ a.size[0] = d.size[0] /\ e.size[0] = d.size[0] + 1
    <3>1. n # 0
      BY <2>2, <2>3
    <3> QED BY <2>2, <2>4, <2>5, <2>7, <3>1, SpecialInos DEF Longer
  <2> DEFINE z == d.size[0] + 1
  <2>9. z \in 1 .. Slots /\ z \notin 1 .. d.size[0] /\ 1 .. z = 1 .. d.size[0] \cup {z}
    BY <2>2, NamesAssumption
  <2>10. e.area[z].ino = n /\ \A t \in 1 .. d.size[0] : e.area[t] = d.area[t]
    <3>1. e.area = Entered(d.area, z, n, name)
      BY <2>4, <2>5, <2>7, <2>8
    <3> HIDE DEF z
    <3> QED BY <2>2, <2>9, <3>1, EnteredAt
  <2> HIDE DEF z
  <2>11. \A t \in Used(e) : t = z \/ (t \in Used(d) /\ e.area[t] = d.area[t])
    BY <2>8, <2>9, <2>10 DEF Used, RootIno, z
  <2>12. \A t \in Used(d) : d.area[t].ino \in Inos /\ d.mode[d.area[t].ino] # "free" /\ d.area[t].ino # n
    BY <2>2, <2>3 DEF Sound, Used
  <2>13. \A x \in Inos : d.mode[x] # "free" => e.mode[x] # "free"
    BY <2>2, <2>3, <2>4, <2>5
  <2>14. e.mode[n] # "free"
    BY <2>2, <2>3, <2>4, <2>5
  <2>15. \A t \in Used(e) : e.mode[e.area[t].ino] # "free"
    BY <2>10, <2>11, <2>12, <2>13, <2>14
  <2>16. \A s, t \in Used(e) : e.area[s].ino = e.area[t].ino => s = t
    BY <2>2, <2>10, <2>11, <2>12 DEF Sound
  <2> QED BY <2>1, <2>6, <2>15, <2>16 DEF Sound
<1> QED BY <1>1, <1>2

(* Removing a file of the root directory: its entry goes and its inode is free. *)
LEMMA UnlinkedOne ==
    ASSUME NEW d, Tidy(d), NEW p \in Paths, Len(p) = 1, Walk(d, p).ino # NoIno
    PROVE  LET e == Indexed(d)
               s == Least(Found(e, 0, p[1]))
               u == Unlinked(d, p)
               x == Walk(d, p).ino
           IN  /\ Tidy(u) /\ s \in Found(e, 0, p[1]) /\ e.area[s].ino = x
               /\ u.area = Emptied(e.area, s) /\ u.size[0] = d.size[0]
               /\ \A i \in Inos : e.mode[i] # "free" /\ i # x => u.mode[i] # "free"
<1> DEFINE e == Indexed(d)
           s == Least(Found(e, 0, p[1]))
           u == Unlinked(d, p)
           w == Walk(d, p)
           x == w.ino
           r == DirRemove(e, 0, p[1])
<1>1. Tidy(e)
  BY IndexedTidy
<1>2. /\ x \in Inos /\ x # 0 /\ w.disk = e /\ p[1] \notin LongNames /\ p # <<>>
      /\ s \in Found(e, 0, p[1]) /\ e.area[s].ino = x
  <2>1. p # <<>>
    BY PathParts
  <2> QED BY <2>1, WalkTidy
<1>3. ParentOf(p) = <<>> /\ FilenameOf(p) = p[1] /\ p[1] \in Names
  BY PathParts
<1>4. Walk(d, ParentOf(p)).disk = d /\ Walk(d, ParentOf(p)).ino = 0
  BY <1>3, WalkNone, RootParts
<1>5. CanRemove(e, 0, p[1])
  BY <1>1, <1>2, TidyParts DEF CanRemove, CanAdd
<1>6. u = FreeInode(r, x)
  <2>1. 0 # NoIno /\ x # NoIno
    BY SpecialInos
  <2> QED BY <1>2, <1>3, <1>4, <1>5, <2>1 DEF Unlinked
<1> HIDE DEF e, w, u
<1>7. /\ DiskOf(e) /\ Fits(e) /\ Exact(e) /\ Sound(e) /\ Plain(e) /\ e.mode \in [Inos -> Modes]
      /\ e.size \in [Inos -> Nat] /\ e.area \in [1 .. Slots -> Entries] /\ e.size[0] \in Nat
      /\ \A i \in Inos \ {0} : e.size[i] = 0
      /\ \A t \in 1 .. e.size[0] : t \in 1 .. Slots
      /\ e.mode[0] = "dir" /\ \A i \in Inos \ {0} : e.mode[i] # "dir"
  BY <1>1, TidyParts
<1>8. r.mode = e.mode /\ r.size = e.size /\ r.free = e.free /\ r.area = Emptied(e.area, s) /\ DiskOf(r)
  BY <1>7, RemoveParts
<1> HIDE DEF r, s
<1>9. Exact(r)
  BY <1>7, <1>8, CountedSame
<1>10. s \in 1 .. e.size[0] /\ s \in Used(e)
  BY <1>2 DEF Found, Used, RootIno
<1>11. e.mode[x] # "free"
  BY <1>2, <1>7, <1>10 DEF Sound
<1>12. /\ DiskOf(u) /\ u.mode = [r.mode EXCEPT ![x] = "free"] /\ u.size = [r.size EXCEPT ![x] = 0]
       /\ u.area = r.area /\ Exact(u)
  BY <1>2, <1>6, <1>8, <1>9, <1>11, FreeParts
<1>13. u.size = e.size
  BY <1>2, <1>7, <1>8, <1>12
<1>14. \A t \in 1 .. e.size[0] : (u.area[t] = e.area[t] /\ t # s) \/ Unused(u.area[t])
  <2> SUFFICES ASSUME NEW t \in 1 .. e.size[0] PROVE (u.area[t] = e.area[t] /\ t # s) \/ Unused(u.area[t])
    OBVIOUS
  <2>1. t \in 1 .. Slots
    BY <1>7
  <2>2. u.area[t] = IF t = 1 THEN HashRoot ELSE IF t = s THEN EmptyEntry ELSE e.area[t]
    BY <1>7, <1>8, <1>12, <2>1, EmptiedAt
  <2> QED BY <2>2, SpecialUnused
<1>15. \A t \in Used(u) : t \in Used(e) /\ u.area[t] = e.area[t] /\ t # s
  BY <1>13, <1>14 DEF Used, Unused, RootIno
<1>16. \A t \in Used(u) : u.area[t].ino # x /\ u.area[t].ino \in Inos /\ e.mode[u.area[t].ino] # "free"
  BY <1>2, <1>7, <1>10, <1>15 DEF Sound, Used
<1>17. \A i \in Inos : i # x => u.mode[i] = e.mode[i]
  BY <1>2, <1>7, <1>8, <1>12
<1>18. Sound(u)
  BY <1>7, <1>15, <1>16, <1>17 DEF Sound
<1>19. Plain(u)
  <2>1. u.mode[0] = "dir" /\ \A i \in Inos \ {0} : u.mode[i] # "dir"
    BY <1>2, <1>7, <1>8, <1>12, SpecialInos
  <2>2. \A t \in 1 .. e.size[0] : u.area[t].name = NoName \/ u.area[t] = e.area[t]
    BY <1>14 DEF Unused
  <2> QED BY <1>7, <1>13, <2>1, <2>2 DEF Plain, RootIno
<1>20. Fits(u)
  BY <1>7, <1>13 DEF Fits
<1>21. e.size = d.size
  BY TidyParts, IndexedParts DEF e
<1> QED BY <1>2, <1>8, <1>12, <1>13, <1>17, <1>18, <1>19, <1>20, <1>21 DEF Tidy, e, s, u, w

(* Tidy, with room for one more entry in the root directory. *)
Roomy(d) == Tidy(d) /\ d.size[0] + 1 <= Slots

LEMMA WalkRoomy ==
    ASSUME NEW d, Roomy(d), NEW p \in Paths
    PROVE  /\ Roomy(Walk(d, p).disk) /\ Walk(d, p).disk.size = d.size
           /\ Walk(d, p).ino \in Inos \cup {NoIno}
<1>1. Tidy(d) /\ DiskOf(d)
  BY DEF Roomy, Tidy
<1>2. Same(d, Walk(d, p).disk) /\ Tidy(Walk(d, p).disk) /\ Walk(d, p).ino \in Inos \cup {NoIno}
  BY <1>1, WalkTidy
<1>3. Walk(d, p).disk.size = d.size
  BY <1>1, <1>2, SameParts
<1> QED BY <1>2, <1>3 DEF Roomy

(* Removing any path leaves the file system tidy, or takes the root directory away. *)
LEMMA UnlinkedRoomy ==
    ASSUME NEW d, Roomy(d), NEW p \in Paths
    PROVE  Roomy(Unlinked(d, p)) \/ Unlinked(d, p).mode[0] = "free"
<1> DEFINE parent == Walk(d, ParentOf(p))
           target == Walk(parent.disk, p)
           name == FilenameOf(p)
           r == DirRemove(target.disk, parent.ino, name)
<1>1. /\ parent.ino = NoIno => Unlinked(d, p) = parent.disk
      /\ parent.ino # NoIno /\ target.ino = NoIno => Unlinked(d, p) = target.disk
      /\ \/ Unlinked(d, p) = parent.disk \/ Unlinked(d, p) = target.disk
         \/ Unlinked(d, p) = FreeInode(r, target.ino)
  BY DEF Unlinked
<1>2. Roomy(parent.disk)
  BY FilenameType, WalkRoomy
<1>3. Roomy(target.disk)
  BY <1>2, WalkRoomy
<1>t. Tidy(d) /\ Tidy(parent.disk) /\ Tidy(target.disk)
  BY <1>2, <1>3 DEF Roomy
<1>4. CASE p = <<>>
  <2>1. target.ino = 0
    BY <1>t, <1>4, WalkTidy
  <2> HIDE DEF target, parent
  <2>2. DiskOf(r)
    BY <1>t, RemoveParts, TidyParts
  <2>3. FreeInode(r, 0).mode = [r.mode EXCEPT ![0] = "free"] /\ r.mode \in [Inos -> Modes]
    BY <2>2, FreeParts, SpecialInos, DiskParts
  <2>4. FreeInode(r, 0).mode[0] = "free"
    BY <2>3, SpecialInos
  <2> QED BY <1>1, <1>2, <1>3, <2>1, <2>4
<1>5. CASE Len(p) = 1
  <2>1. ParentOf(p) = <<>>
    BY <1>5, PathParts
  <2>2. parent.disk = d /\ parent.ino # NoIno
    BY <2>1, WalkNone, RootParts, SpecialInos
  <2>3. CASE target.ino = NoIno
    BY <1>1, <1>3, <2>2, <2>3
  <2>4. CASE target.ino # NoIno
    <3>1. Walk(d, p).ino # NoIno
      BY <2>2, <2>4
    <3>2. Tidy(Unlinked(d, p)) /\ Unlinked(d, p).size[0] = d.size[0]
      BY <1>t, <1>5, <3>1, UnlinkedOne
    <3> QED BY <3>2 DEF Roomy
  <2> QED BY <2>3, <2>4
<1>6. CASE Len(p) = 2
  <2>1. target.ino = NoIno
    BY <1>t, <1>6, WalkTidy
  <2> QED BY <1>1, <1>2, <1>3, <2>1
<1> QED BY <1>4, <1>5, <1>6, PathParts

(* Removing the root itself, once a lookup has put the hash root in its first slot. *)
LEMMA UnlinkedRoot ==
    ASSUME NEW d, Tidy(d), Found(d, 0, NoName) # {}
    PROVE  Unlinked(d, <<>>).mode[0] = "free"
<1>1. ParentOf(<<>>) = <<>> /\ FilenameOf(<<>>) = NoName
  BY DEF ParentOf, FilenameOf
<1>2. Walk(d, <<>>).disk = d /\ Walk(d, <<>>).ino = 0 /\ 0 # NoIno
  BY WalkNone, RootParts, SpecialInos
<1>3. CanRemove(d, 0, NoName)
  BY TidyParts, SpecialInos DEF CanRemove, CanAdd, Names
<1> DEFINE r == DirRemove(d, 0, NoName)
<1>4. Unlinked(d, <<>>) = FreeInode(r, 0)
  BY <1>1, <1>2, <1>3 DEF Unlinked
<1>5. DiskOf(r)
  BY RemoveParts, TidyParts
<1> HIDE DEF r
<1>6. FreeInode(r, 0).mode = [r.mode EXCEPT ![0] = "free"] /\ r.mode \in [Inos -> Modes]
  BY <1>5, FreeParts, SpecialInos, DiskParts
<1> QED BY <1>4, <1>6, SpecialInos

(* rename, when the entry of the old name is still there: the new entry and the
   old one are of the same inode, and one of the two goes. *)
LEMMA RenamedKept ==
    ASSUME NEW c, Tidy(c), c.size[0] + 1 <= Slots, NEW s \in Used(c), NEW n \in EntryNames,
           c.area[s].name \in Names \ LongNames
    PROVE  LET o == c.area[s].name
               a == DirAdd(c, 0, c.area[s].ino, n)
               f == DirRemove(a, 0, o)
           IN  CanRemove(a, 0, o) /\ Exact(f) /\ Sound(f)
<1> DEFINE o == c.area[s].name
           x == c.area[s].ino
           a == DirAdd(c, 0, x, n)
           f == DirRemove(a, 0, o)
           z == c.size[0] + 1
           r == Least(Found(a, 0, o))
<1>1. /\ DiskOf(c) /\ Fits(c) /\ Exact(c) /\ Sound(c) /\ Plain(c) /\ c.mode \in [Inos -> Modes]
      /\ c.size \in [Inos -> Nat] /\ c.area \in [1 .. Slots -> Entries]
      /\ c.mode[0] = "dir" /\ c.size[0] \in Nat
      /\ \A t \in 1 .. c.size[0] : t \in 1 .. Slots
  BY TidyParts
<1>2. s \in 1 .. c.size[0] /\ x \in Inos \ {0}
  BY DEF Used, RootIno
<1> HIDE DEF x
<1>3. /\ DiskOf(a) /\ a.mode = c.mode /\ a.free = c.free /\ a.size = Longer(c.size, 0)
      /\ a.area = Entered(c.area, z, x, n)
  <2>1. DiskOf(c) /\ 0 \in Inos /\ x \in Inos
    BY <1>1, <1>2, SpecialInos
  <2> QED BY <2>1, AddParts
<1> HIDE DEF a
<1>4. z \in 1 .. Slots /\ z \notin 1 .. c.size[0] /\ 1 .. z = 1 .. c.size[0] \cup {z}
  BY <1>1, NamesAssumption
<1>5. a.size[0] = z
  BY <1>1, <1>3, SpecialInos DEF Longer
<1> HIDE DEF z
<1>6. /\ a.area[z].ino = x /\ a.area[z].name = n
      /\ \A t \in 1 .. c.size[0] : a.area[t] = c.area[t]
  BY <1>1, <1>3, <1>4, EnteredAt
<1> HIDE DEF o
<1>7. s \in Found(a, 0, o)
  BY <1>2, <1>4, <1>5, <1>6 DEF Found, o, x
<1>8. \A t \in Found(a, 0, o) : t = s \/ t = z
  <2> SUFFICES ASSUME NEW t \in Found(a, 0, o), t # z PROVE t = s
    OBVIOUS
  <2>1. t \in 1 .. c.size[0] /\ c.area[t].name = o
    BY <1>4, <1>5, <1>6 DEF Found
  <2>2. o # NoName
    BY SpecialInos DEF o
  <2> QED BY <1>1, <1>2, <2>1, <2>2 DEF Plain, RootIno, o
<1>9. r \in Found(a, 0, o)
  <2>1. Found(a, 0, o) \subseteq Nat /\ Found(a, 0, o) # {}
    <3>1. s \in Nat /\ z \in Nat
      BY <1>1, <1>2, <1>4
    <3> QED BY <1>7, <1>8, <3>1
  <2> QED BY <2>1, LeastIn
<1>10. CanRemove(a, 0, o)
  BY <1>1, <1>3, <1>7 DEF CanRemove, CanAdd, o
<1>11. f.mode = a.mode /\ f.size = a.size /\ f.free = a.free /\ f.area = Emptied(a.area, r)
  BY <1>3, RemoveParts
<1>12. r = s \/ r = z
  BY <1>8, <1>9
<1> HIDE DEF f, r
<1>13. Exact(f)
  BY <1>1, <1>3, <1>11, CountedSame
<1>14. \A t \in Used(f) : t # r /\ f.area[t] = a.area[t] /\ (t = z \/ (t \in Used(c) /\ f.area[t] = c.area[t]))
  <2> SUFFICES ASSUME NEW t \in Used(f)
               PROVE  t # r /\ f.area[t] = a.area[t] /\ (t = z \/ (t \in Used(c) /\ f.area[t] = c.area[t]))
    OBVIOUS
  <2>1. t \in 1 .. z /\ t \in 1 .. Slots /\ f.area[t].ino \in Inos \ {0}
    BY <1>1, <1>4, <1>5, <1>11 DEF Used, RootIno
  <2>2. a.area \in [1 .. Slots -> Entries]
    BY <1>3, DiskParts
  <2>3. f.area[t] = IF t = 1 THEN HashRoot ELSE IF t = r THEN EmptyEntry ELSE a.area[t]
    BY <1>11, <2>1, <2>2, EmptiedAt
  <2>4. t # r /\ f.area[t] = a.area[t]
    BY <2>1, <2>3, SpecialUnused DEF Unused
  <2> QED BY <1>4, <1>6, <2>1, <2>4 DEF Used, RootIno
<1>15. \A t \in Used(c) : c.area[t].ino = x => t = s
  BY <1>1 DEF Sound, x
<1>16. c.mode[x] # "free"
  BY <1>1 DEF Sound, x
<1>17. \A t \in Used(f) : f.mode[f.area[t].ino] # "free"
  BY <1>1, <1>3, <1>6, <1>11, <1>14, <1>16 DEF Sound
<1>18. \A t, v \in Used(f) : f.area[t].ino = f.area[v].ino => t = v
  BY <1>1, <1>6, <1>12, <1>14, <1>15 DEF Sound
<1> QED BY <1>10, <1>13, <1>17, <1>18 DEF Sound, f, o, x, a

(* rename onto itself: the entry went with the file it named, and the new one,
   which is the only one of its name, goes too. *)
LEMMA RenamedGone ==
    ASSUME NEW c, Tidy(c), c.size[0] + 1 <= Slots, NEW x \in Inos \ {0},
           NEW o \in Names \ LongNames, Found(c, 0, o) = {}
    PROVE  LET a == DirAdd(c, 0, x, o)
               f == DirRemove(a, 0, o)
           IN  CanRemove(a, 0, o) /\ Exact(f) /\ Sound(f)
<1> DEFINE a == DirAdd(c, 0, x, o)
           f == DirRemove(a, 0, o)
           z == c.size[0] + 1
           r == Least(Found(a, 0, o))
<1>1. /\ DiskOf(c) /\ Fits(c) /\ Exact(c) /\ Sound(c) /\ Plain(c) /\ c.mode \in [Inos -> Modes]
      /\ c.size \in [Inos -> Nat] /\ c.area \in [1 .. Slots -> Entries]
      /\ c.mode[0] = "dir" /\ c.size[0] \in Nat
      /\ \A t \in 1 .. c.size[0] : t \in 1 .. Slots
  BY TidyParts
<1>2. o \in EntryNames
  BY DEF EntryNames
<1>3. /\ DiskOf(a) /\ a.mode = c.mode /\ a.free = c.free /\ a.size = Longer(c.size, 0)
      /\ a.area = Entered(c.area, z, x, o)
  BY <1>1, <1>2, AddParts, SpecialInos
<1> HIDE DEF a
<1>4. z \in 1 .. Slots /\ z \notin 1 .. c.size[0] /\ 1 .. z = 1 .. c.size[0] \cup {z} /\ z \in Nat
  BY <1>1, NamesAssumption
<1>5. a.size[0] = z
  BY <1>1, <1>3, SpecialInos DEF Longer
<1>z. z \in 1 .. z
  BY <1>4
<1> HIDE DEF z
<1>6. /\ a.area[z].ino = x /\ a.area[z].name = o
      /\ \A t \in 1 .. c.size[0] : a.area[t] = c.area[t]
  BY <1>1, <1>3, <1>4, EnteredAt
<1>7. Found(a, 0, o) = {z}
  <2>1. z \in Found(a, 0, o)
    BY <1>5, <1>6, <1>z DEF Found
  <2>2. ASSUME NEW t \in Found(a, 0, o), t # z PROVE FALSE
    <3>1. t \in Found(c, 0, o)
      BY <1>4, <1>5, <1>6, <2>2 DEF Found
    <3> QED BY <3>1
  <2> QED BY <2>1, <2>2
<1>8. r = z
  <2>1. {z} \subseteq Nat /\ {z} # {}
    BY <1>4
  <2>2. Least({z}) \in {z}
    BY <2>1, LeastIn
  <2> QED BY <1>7, <2>2
<1>9. CanRemove(a, 0, o)
  BY <1>1, <1>3, <1>7 DEF CanRemove, CanAdd
<1>10. f.mode = a.mode /\ f.size = a.size /\ f.free = a.free /\ f.area = Emptied(a.area, r)
  BY <1>3, RemoveParts
<1> HIDE DEF f, r
<1>11. Exact(f)
  BY <1>1, <1>3, <1>10, CountedSame
<1>12. \A t \in Used(f) : t \in Used(c) /\ f.area[t] = c.area[t]
  <2> SUFFICES ASSUME NEW t \in Used(f) PROVE t \in Used(c) /\ f.area[t] = c.area[t]
    OBVIOUS
  <2>1. t \in 1 .. z /\ t \in 1 .. Slots /\ f.area[t].ino \in Inos \ {0}
    BY <1>1, <1>4, <1>5, <1>10 DEF Used, RootIno
  <2>2. a.area \in [1 .. Slots -> Entries]
    BY <1>3, DiskParts
  <2>3. f.area[t] = IF t = 1 THEN HashRoot ELSE IF t = r THEN EmptyEntry ELSE a.area[t]
    BY <1>10, <2>1, <2>2, EmptiedAt
  <2>4. t # z /\ f.area[t] = a.area[t]
    BY <1>8, <2>1, <2>3, SpecialUnused DEF Unused
  <2> QED BY <1>4, <1>6, <2>1, <2>4 DEF Used, RootIno
<1>13. Sound(f)
  BY <1>1, <1>3, <1>10, <1>12 DEF Sound
<1> QED BY <1>9, <1>11, <1>13 DEF f, a

-----------------------------------------------------------------------------
(* The calls in a plain file system that stays plain. *)
Fine(d) == Plain(d) => Exact(d) /\ Sound(d)

LEMMA TidyFine == ASSUME NEW d, Tidy(d) PROVE Fine(d)
BY DEF Tidy, Fine

LEMMA MakeFine ==
    ASSUME NEW d, Roomy(d), NEW i \in Inos \cup {NoIno}, NEW name \in EntryNames, NEW m \in {"file", "dir"}
    PROVE  Fine(Make(d, i, name, m))
BY MakeTidy DEF Fine, Roomy

LEMMA OpenFine == ASSUME Roomy(disk), NEW p \in Paths, Open(p) PROVE Fine(disk')
<1> DEFINE target == Walk(disk, p)
           parent == Walk(target.disk, ParentOf(p))
<1>1. disk' = target.disk \/ disk' = Make(parent.disk, parent.ino, FilenameOf(p), "file")
  BY DEF Open
<1>2. Roomy(target.disk)
  BY WalkRoomy
<1> HIDE DEF target
<1>3. Roomy(parent.disk) /\ parent.ino \in Inos \cup {NoIno} /\ FilenameOf(p) \in EntryNames
  BY <1>2, WalkRoomy, FilenameType
<1> HIDE DEF parent
<1>4. Fine(Make(parent.disk, parent.ino, FilenameOf(p), "file")) /\ Fine(target.disk)
  BY <1>2, <1>3, MakeFine, TidyFine DEF Roomy
<1> QED BY <1>1, <1>4

LEMMA SymlinkFine == ASSUME Roomy(disk), NEW p \in Paths, Symlink(p) PROVE Fine(disk')
<1> DEFINE parent == Walk(disk, ParentOf(p))
<1>1. disk' = Make(parent.disk, parent.ino, FilenameOf(p), "file")
  BY DEF Symlink
<1>2. Roomy(parent.disk) /\ parent.ino \in Inos \cup {NoIno} /\ FilenameOf(p) \in EntryNames
  BY WalkRoomy, FilenameType
<1> HIDE DEF parent
<1> QED BY <1>1, <1>2, MakeFine

(* A new directory ends the plain state. *)
LEMMA MkdirFine == ASSUME Roomy(disk), NEW p \in Paths, Mkdir(p) PROVE Fine(disk')
<1> DEFINE parent == Walk(disk, ParentOf(p))
           name == FilenameOf(p)
           made == Make(parent.disk, parent.ino, name, "dir")
           self == NewIno(parent.disk)
           dot == DirAdd(made, self, self, ".")
           alloc == AllocInode(parent.disk, "dir")
<1>1. disk' = IF Makes(parent.disk, parent.ino, name) THEN DirAdd(dot, self, parent.ino, "..") ELSE parent.disk
  BY DEF Mkdir
<1>2. Roomy(parent.disk) /\ parent.ino \in Inos \cup {NoIno} /\ name \in EntryNames
  BY WalkRoomy, FilenameType
<1> HIDE DEF parent, name
<1>3. CASE ~Makes(parent.disk, parent.ino, name)
  BY <1>1, <1>2, <1>3, TidyFine DEF Roomy
<1>4. CASE Makes(parent.disk, parent.ino, name)
  <2>1. CanAlloc(parent.disk) /\ parent.ino \in Inos /\ made = DirAdd(alloc, parent.ino, self, name)
    BY <1>2, <1>4 DEF Makes, Make
  <2>2. DiskOf(parent.disk) /\ parent.disk.mode[0] = "dir" /\ parent.disk.mode \in [Inos -> Modes]
    BY <1>2, TidyParts DEF Roomy
  <2>3. self \in Inos /\ parent.disk.mode[self] = "free"
    BY <2>1, <2>2, AllocParts
  <2>4. DiskOf(alloc) /\ alloc.mode = [parent.disk.mode EXCEPT ![self] = "dir"]
    BY <2>1, <2>2, AllocParts
  <2> HIDE DEF self, alloc
  <2>5. self # 0 /\ alloc.mode[self] = "dir" /\ DiskOf(alloc)
    BY <2>2, <2>3, <2>4
  <2>6. DiskOf(made) /\ made.mode = alloc.mode
    BY <1>2, <2>1, <2>3, <2>5, AddParts
  <2>7. "." \in EntryNames /\ ".." \in EntryNames
    BY DEF EntryNames
  <2> HIDE DEF made
  <2>8. DiskOf(dot) /\ dot.mode = made.mode
    BY <2>3, <2>6, <2>7, AddParts
  <2> HIDE DEF dot
  <2>9. DirAdd(dot, self, parent.ino, "..").mode = dot.mode
    BY <2>1, <2>3, <2>7, <2>8, AddParts
  <2>10. disk'.mode[self] = "dir"
    BY <1>1, <1>4, <2>5, <2>6, <2>8, <2>9
  <2> QED BY <2>3, <2>5, <2>10 DEF Fine, Plain, RootIno
<1> QED BY <1>3, <1>4

LEMMA RootGoneFine == ASSUME NEW d, d.mode[0] = "free" PROVE Fine(d)
BY DEF Fine, Plain, RootIno

LEMMA UnlinkedFine == ASSUME NEW d, Roomy(d), NEW p \in Paths PROVE Fine(Unlinked(d, p))
BY UnlinkedRoomy, TidyFine, RootGoneFine DEF Roomy

LEMMA RmdirFine == ASSUME Roomy(disk), NEW p \in Paths, Rmdir(p) PROVE Fine(disk')
<1> DEFINE parent == Walk(disk, ParentOf(p))
           target == Walk(parent.disk, p)
<1>1. disk' = target.disk \/ disk' = Unlinked(disk, p)
  BY DEF Rmdir
<1>2. Roomy(parent.disk)
  BY WalkRoomy, FilenameType
<1>3. Roomy(target.disk)
  BY <1>2, WalkRoomy
<1> QED BY <1>1, <1>3, UnlinkedFine, TidyFine DEF Roomy

(* An entry without an inode, as rename of the root makes it, is nobody's. *)
LEMMA RootEntryFine ==
    ASSUME NEW c, Roomy(c), NEW n \in EntryNames
    PROVE  LET a == DirAdd(c, 0, 0, n)
           IN  /\ DiskOf(a) /\ Exact(a) /\ Sound(a)
               /\ \A i, name : Exact(DirRemove(a, i, name)) /\ Sound(DirRemove(a, i, name))
<1> DEFINE a == DirAdd(c, 0, 0, n)
           z == c.size[0] + 1
<1>1. /\ DiskOf(c) /\ Exact(c) /\ Sound(c) /\ c.size \in [Inos -> Nat]
      /\ c.area \in [1 .. Slots -> Entries] /\ c.size[0] \in Nat
      /\ \A t \in 1 .. c.size[0] : t \in 1 .. Slots
  BY TidyParts DEF Roomy
<1>2. DiskOf(a) /\ a.mode = c.mode /\ a.free = c.free /\ a.size = Longer(c.size, 0)
      /\ a.area = Entered(c.area, z, 0, n)
  BY <1>1, AddParts, SpecialInos
<1> HIDE DEF a
<1>3. z \in 1 .. Slots /\ z \notin 1 .. c.size[0] /\ 1 .. z = 1 .. c.size[0] \cup {z}
  BY <1>1, NamesAssumption DEF Roomy
<1>4. a.size[0] = z
  BY <1>1, <1>2, SpecialInos DEF Longer
<1> HIDE DEF z
<1>5. a.area[z].ino = 0 /\ \A t \in 1 .. c.size[0] : a.area[t] = c.area[t]
  BY <1>1, <1>2, <1>3, EnteredAt
<1>6. \A t \in Used(a) : t \in Used(c) /\ a.area[t] = c.area[t]
  BY <1>3, <1>4, <1>5 DEF Used, RootIno
<1>7. Exact(a) /\ Sound(a)
  <2>1. Exact(a)
    BY <1>1, <1>2, CountedSame
  <2>2. Sound(a)
    BY <1>1, <1>2, <1>6 DEF Sound
  <2> QED BY <2>1, <2>2
<1>8. ASSUME NEW i, NEW name PROVE Exact(DirRemove(a, i, name)) /\ Sound(DirRemove(a, i, name))
  <2> DEFINE f == DirRemove(a, i, name)
             r == Least(Found(a, i, name))
  <2>1. f.mode = a.mode /\ f.size = a.size /\ f.free = a.free /\ f.area = Emptied(a.area, r)
    BY <1>2, RemoveParts
  <2> HIDE DEF f, r
  <2>2. \A s \in 1 .. a.size[RootIno] : f.area[s] = a.area[s] \/ Unused(f.area[s])
    <3> SUFFICES ASSUME NEW s \in 1 .. z PROVE f.area[s] = a.area[s] \/ Unused(f.area[s])
      BY <1>4 DEF RootIno
    <3>1. s \in 1 .. Slots /\ a.area \in [1 .. Slots -> Entries]
      BY <1>1, <1>2, <1>3, DiskParts
    <3>2. f.area[s] = IF s = 1 THEN HashRoot ELSE IF s = r THEN EmptyEntry ELSE a.area[s]
      BY <2>1, <3>1, EmptiedAt
    <3> QED BY <3>2, SpecialUnused
  <2>3. Sound(f)
    BY <1>7, <2>1, <2>2, SoundShrinks
  <2>4. Exact(f)
    BY <1>7, <2>1, CountedSame
  <2> QED BY <2>3, <2>4 DEF f
<1> QED BY <1>2, <1>7, <1>8 DEF a

(* A looked-up disk has the hash root in its first slot. *)
LEMMA FirstSlot ==
    ASSUME NEW d, DiskOf(d), Indexed(d) = d, 1 \in 1 .. Slots
    PROVE  d.area[1].ino = IndexIno /\ d.area[1].name = NoName
<1>1. d.area \in [1 .. Slots -> Entries] /\ d.area = [d.area EXCEPT ![1] = HashRoot]
  BY DiskParts, IndexedParts
<1>2. d.area[1] = HashRoot
  BY <1>1
<1> QED BY <1>2, SpecialEntries

(* rename of a file of the root directory to a name there, which may be its own. *)
LEMMA RenameFile ==
    ASSUME NEW d, Roomy(d), Indexed(d) = d, NEW o \in Names \ LongNames, NEW s \in Found(d, 0, o),
           NEW p \in Paths, Len(p) = 1, p[1] \notin LongNames
    PROVE  LET w == Walk(d, p)
               c == IF w.ino # NoIno THEN Unlinked(w.disk, p) ELSE w.disk
               a == DirAdd(c, 0, d.area[s].ino, p[1])
               f == DirRemove(a, 0, o)
           IN  CanRemove(a, 0, o) /\ Exact(f) /\ Sound(f)
<1> DEFINE w == Walk(d, p)
           c == IF w.ino # NoIno THEN Unlinked(w.disk, p) ELSE w.disk
           a == DirAdd(c, 0, d.area[s].ino, p[1])
           f == DirRemove(a, 0, o)
           t == Least(Found(d, 0, p[1]))
<1>1. /\ Tidy(d) /\ DiskOf(d) /\ d.size[0] + 1 <= Slots /\ Plain(d)
      /\ d.area \in [1 .. Slots -> Entries] /\ d.size[0] \in Nat
      /\ \A u \in 1 .. d.size[0] : u \in 1 .. Slots /\ u \in Nat /\ d.area[u] \in Entries
  BY TidyParts DEF Roomy
<1>2. s \in 1 .. d.size[0] /\ d.area[s].ino # 0 /\ d.area[s].name = o
  BY DEF Found
<1>3. d.area[s].ino \in Inos \ {0} /\ s \in Used(d)
  <2>1. d.area[s].ino \in Inos
    BY <1>1, <1>2, EntryFacts
  <2> QED BY <1>2, <2>1 DEF Used, RootIno
<1>4. p[1] \in Names /\ p[1] \in EntryNames
  BY PathParts DEF EntryNames
<1>5. w.disk = d
  <2>1. Same(d, w.disk)
    BY <1>1, WalkTidy
  <2> QED BY <2>1 DEF Same
<1>6. CASE w.ino = NoIno
  <2>1. c = d
    BY <1>5, <1>6
  <2> HIDE DEF w, c
  <2>2. CanRemove(DirAdd(d, 0, d.area[s].ino, p[1]), 0, o)
        /\ Exact(DirRemove(DirAdd(d, 0, d.area[s].ino, p[1]), 0, o))
        /\ Sound(DirRemove(DirAdd(d, 0, d.area[s].ino, p[1]), 0, o))
    BY <1>1, <1>2, <1>3, <1>4, RenamedKept
  <2> QED BY <2>1, <2>2 DEF w, c
<1>7. CASE w.ino # NoIno
  <2>1. c = Unlinked(d, p)
    BY <1>5, <1>7
  <2>2. /\ Tidy(Unlinked(d, p)) /\ t \in Found(d, 0, p[1])
        /\ Unlinked(d, p).area = Emptied(d.area, t) /\ Unlinked(d, p).size[0] = d.size[0]
    BY <1>1, <1>7, UnlinkedOne
  <2>3. Tidy(c) /\ t \in Found(d, 0, p[1]) /\ c.area = Emptied(d.area, t) /\ c.size[0] = d.size[0]
    BY <2>1, <2>2
  <2>4. t \in 1 .. d.size[0] /\ d.area[t].name = p[1]
    BY <2>3 DEF Found
  <2>5. \A u \in 1 .. d.size[0] :
           c.area[u] = IF u = 1 THEN HashRoot ELSE IF u = t THEN EmptyEntry ELSE d.area[u]
    BY <1>1, <2>3, EmptiedAt
  <2> HIDE DEF w, c, t
  <2>6. CASE t = s
    <3>1. p[1] = o
      BY <1>2, <2>4, <2>6
    <3>2. o # NoName
      BY SpecialInos
    <3>3. ASSUME NEW u \in Found(c, 0, o) PROVE FALSE
      <4>1. u \in 1 .. d.size[0] /\ c.area[u].name = o
        BY <2>3, <3>3 DEF Found
      <4>2. u # t /\ c.area[u] = d.area[u]
        BY <2>5, <3>2, <4>1, SpecialEntries
      <4>3. d.area[u].name = d.area[s].name /\ d.area[s].name # NoName /\ u # s
        BY <1>2, <2>6, <3>2, <4>1, <4>2
      <4> QED BY <1>1, <1>2, <4>1, <4>3 DEF Plain, RootIno
    <3>4. Found(c, 0, o) = {}
      BY <3>3
    <3>5. c.size[0] + 1 <= Slots
      BY <1>1, <2>3
    <3>6. CanRemove(DirAdd(c, 0, d.area[s].ino, o), 0, o)
          /\ Exact(DirRemove(DirAdd(c, 0, d.area[s].ino, o), 0, o))
          /\ Sound(DirRemove(DirAdd(c, 0, d.area[s].ino, o), 0, o))
      BY <1>3, <2>3, <3>4, <3>5, RenamedGone
    <3> QED BY <3>1, <3>6 DEF w, c
  <2>7. CASE t # s
    <3>1. s # 1
      <4> SUFFICES ASSUME s = 1 PROVE FALSE
        OBVIOUS
      <4>1. d.area[1].name = NoName
        BY <1>1, <1>2, FirstSlot
      <4> QED BY <1>2, <4>1, SpecialInos
    <3>2. c.area[s] = d.area[s]
      BY <1>2, <2>5, <2>7, <3>1
    <3>3. s \in Used(c)
      BY <1>2, <1>3, <2>3, <3>2 DEF Used, RootIno
    <3>4. c.size[0] + 1 <= Slots /\ c.area[s].name = o /\ c.area[s].name \in Names \ LongNames
      BY <1>1, <1>2, <2>3, <3>2
    <3>5. CanRemove(DirAdd(c, 0, c.area[s].ino, p[1]), 0, c.area[s].name)
          /\ Exact(DirRemove(DirAdd(c, 0, c.area[s].ino, p[1]), 0, c.area[s].name))
          /\ Sound(DirRemove(DirAdd(c, 0, c.area[s].ino, p[1]), 0, c.area[s].name))
      BY <1>4, <2>3, <3>3, <3>4, RenamedKept
    <3>6. c.area[s].ino = d.area[s].ino
      BY <3>2
    <3> QED BY <3>4, <3>5, <3>6 DEF w, c
  <2> QED BY <2>6, <2>7
<1> QED BY <1>6, <1>7

LEMMA RenameFine ==
    ASSUME Roomy(disk), NEW old \in Paths, NEW new \in Paths, Rename(old, new)
    PROVE  Fine(disk')
<1> DEFINE oldParent == Walk(disk, ParentOf(old))
           newParent == Walk(oldParent.disk, ParentOf(new))
           target == Walk(newParent.disk, old)
           existing == Walk(target.disk, new)
           cleared == IF existing.ino # NoIno THEN Unlinked(existing.disk, new) ELSE existing.disk
           o == FilenameOf(old)
           n == FilenameOf(new)
           added == DirAdd(cleared, newParent.ino, target.ino, n)
<1>1. disk' = IF oldParent.ino = NoIno THEN oldParent.disk
              ELSE IF newParent.ino = NoIno THEN newParent.disk
              ELSE IF target.ino = NoIno THEN target.disk
              ELSE IF ~CanAdd(n) THEN cleared
              ELSE IF CanRemove(added, oldParent.ino, o) THEN DirRemove(added, oldParent.ino, o)
              ELSE IF CanRemove(added, newParent.ino, n) THEN DirRemove(added, newParent.ino, n)
              ELSE added
  BY DEF Rename
<1>2. ParentOf(old) \in Paths /\ ParentOf(new) \in Paths /\ n \in EntryNames
  BY FilenameType
<1>3. Roomy(oldParent.disk) /\ oldParent.ino \in Inos \cup {NoIno}
  BY <1>2, WalkRoomy
<1>4. Roomy(newParent.disk) /\ newParent.ino \in Inos \cup {NoIno}
  BY <1>2, <1>3, WalkRoomy
<1>5. Roomy(target.disk) /\ target.ino \in Inos \cup {NoIno}
  BY <1>4, WalkRoomy
<1>6. Roomy(existing.disk)
  BY <1>5, WalkRoomy
<1>7. (Roomy(cleared) \/ cleared.mode[0] = "free") /\ DiskOf(cleared)
  <2>1. Good(existing.disk) /\ Fits(existing.disk) /\ DiskOf(existing.disk)
    <3>1. DiskOf(existing.disk) /\ Fits(existing.disk) /\ Exact(existing.disk)
      BY <1>6, TidyParts DEF Roomy
    <3>2. Counted(existing.disk)
      BY <3>1, FreeFinite DEF Exact, Counted
    <3> QED BY <3>1, <3>2 DEF Good
  <2>2. Roomy(Unlinked(existing.disk, new)) \/ Unlinked(existing.disk, new).mode[0] = "free"
    BY <1>6, UnlinkedRoomy
  <2>3. DiskOf(Unlinked(existing.disk, new))
    BY <2>1, UnlinkedGood DEF Good
  <2> QED BY <1>6, <2>1, <2>2, <2>3
<1>8. CASE oldParent.ino = NoIno \/ newParent.ino = NoIno \/ target.ino = NoIno
  <2>1. disk' = oldParent.disk \/ disk' = newParent.disk \/ disk' = target.disk
    BY <1>1, <1>8
  <2> QED BY <1>3, <1>4, <1>5, <2>1, TidyFine DEF Roomy
<1>9. CASE ~(oldParent.ino = NoIno \/ newParent.ino = NoIno \/ target.ino = NoIno)
  <2> DEFINE removed(i, name) == DirRemove(added, i, name)
  <2>1. CASE ~CanAdd(n)
    <3>1. disk' = cleared
      BY <1>1, <1>9, <2>1
    <3> QED BY <1>7, <3>1, TidyFine, RootGoneFine DEF Roomy
  <2>2. CASE CanAdd(n)
    <3>1. /\ disk' = removed(oldParent.ino, o) \/ disk' = removed(newParent.ino, n) \/ disk' = added
          /\ CanRemove(added, oldParent.ino, o) => disk' = removed(oldParent.ino, o)
      BY <1>1, <1>9, <2>2
    <3>2. newParent.ino \in Inos /\ target.ino \in Inos
      BY <1>4, <1>5, <1>9
    <3> HIDE DEF cleared
    <3>3. DiskOf(added) /\ added.mode = cleared.mode /\ added.size = Longer(cleared.size, newParent.ino)
      BY <1>2, <1>7, <3>2, AddParts
    <3> HIDE DEF added
    <3>4. \A i, name : removed(i, name).mode = added.mode /\ removed(i, name).size = added.size
      BY <3>3, RemoveParts
    <3>5. disk'.mode = cleared.mode /\ disk'.size = added.size
      BY <3>1, <3>3, <3>4
    <3>6. CASE cleared.mode[0] = "free"
      BY <3>5, <3>6, RootGoneFine
    <3>7. CASE Roomy(cleared) /\ newParent.ino # 0
      <4>1. cleared.size \in [Inos -> Nat]
        BY <1>7, DiskParts
      <4>2. disk'.size[newParent.ino] # 0
        BY <3>2, <3>3, <3>5, <4>1 DEF Longer
      <4> QED BY <3>2, <3>7, <4>2 DEF Fine, Plain, RootIno
    <3>8. CASE Roomy(cleared) /\ newParent.ino = 0 /\ target.ino = 0
      <4>1. added = DirAdd(cleared, 0, 0, n)
        BY <3>8 DEF added
      <4>2. /\ Exact(added) /\ Sound(added)
            /\ \A i, name : Exact(removed(i, name)) /\ Sound(removed(i, name))
        BY <1>2, <3>8, <4>1, RootEntryFine
      <4> QED BY <3>1, <4>2 DEF Fine
    <3>9. CASE Roomy(cleared) /\ newParent.ino = 0 /\ target.ino # 0
      <4> DEFINE d == target.disk
                 s == Least(Found(d, 0, old[1]))
      <4>t. Tidy(newParent.disk) /\ Tidy(oldParent.disk) /\ DiskOf(newParent.disk) /\ Tidy(d) /\ DiskOf(d)
        BY <1>3, <1>4, <1>5 DEF Roomy, Tidy
      <4>1. Len(old) = 1 /\ old # <<>>
        <5>1. old # <<>> /\ Len(old) # 2
          BY <1>9, <3>9, <4>t, WalkTidy
        <5> QED BY <5>1, PathParts
      <4>2. o = old[1] /\ old[1] \in Names /\ ParentOf(old) = <<>>
        BY <4>1, PathParts
      <4>3. oldParent.ino = 0
        BY <4>2, WalkNone, RootParts
      <4>4. /\ d = Indexed(newParent.disk) /\ old[1] \notin LongNames
            /\ s \in Found(d, 0, old[1]) /\ d.area[s].ino = target.ino
        <5>1. /\ target.disk = Indexed(newParent.disk) /\ old[1] \notin LongNames
              /\ Least(Found(Indexed(newParent.disk), 0, old[1])) \in Found(Indexed(newParent.disk), 0, old[1])
              /\ Indexed(newParent.disk).area[Least(Found(Indexed(newParent.disk), 0, old[1]))].ino = target.ino
          BY <1>9, <4>t, <4>1, WalkTidy
        <5> QED BY <5>1
      <4>5. Indexed(d) = d
        BY <4>t, <4>4, IndexedParts
      <4>6. CASE new = <<>>
        <5>1. existing.disk = d /\ existing.ino = 0 /\ 0 # NoIno
          BY <4>6, WalkNone, RootParts, SpecialInos
        <5>2. cleared = Unlinked(d, <<>>)
          BY <4>6, <5>1 DEF cleared
        <5>3. s \in 1 .. d.size[0]
          BY <4>4 DEF Found
        <5>4. d.size[0] \in Nat /\ d.size[0] <= Slots
          BY <4>t, TidyParts
        <5>5. 1 \in 1 .. d.size[0] /\ 1 \in 1 .. Slots
          BY <5>3, <5>4, NamesAssumption
        <5>6. d.area[1].ino = IndexIno /\ d.area[1].name = NoName
          BY <4>t, <4>5, <5>5, FirstSlot
        <5>7. 1 \in Found(d, 0, NoName)
          BY <5>5, <5>6, SpecialInos DEF Found
        <5>8. cleared.mode[0] = "free"
          BY <4>t, <5>2, <5>7, UnlinkedRoot
        <5> QED BY <3>6, <5>8
      <4>7. CASE Len(new) = 1
        <5>1. n = new[1] /\ new[1] \notin LongNames
          BY <2>2, <4>7, PathParts DEF CanAdd
        <5>2. old[1] \in Names \ LongNames /\ Roomy(d)
          BY <1>5, <4>2, <4>4
        <5> DEFINE ww == Walk(d, new)
                   cc == IF ww.ino # NoIno THEN Unlinked(ww.disk, new) ELSE ww.disk
                   aa == DirAdd(cc, 0, d.area[s].ino, new[1])
                   ff == DirRemove(aa, 0, old[1])
        <5>3. CanRemove(aa, 0, old[1]) /\ Exact(ff) /\ Sound(ff)
          <6> HIDE DEF s, d
          <6> QED BY <4>4, <4>5, <4>7, <5>1, <5>2, RenameFile
        <5>4. cc = cleared
          BY DEF cleared
        <5>5. aa = added
          <6> HIDE DEF cc
          <6> QED BY <3>9, <4>4, <5>1, <5>4 DEF added
        <5>6. ff = removed(oldParent.ino, o) /\ CanRemove(added, oldParent.ino, o)
          <6> HIDE DEF aa
          <6> QED BY <4>2, <4>3, <5>3, <5>5
        <5> HIDE DEF ff
        <5>7. disk' = ff
          BY <3>1, <5>6
        <5> QED BY <5>3, <5>7 DEF Fine
      <4>8. CASE Len(new) = 2
        <5>1. ParentOf(new) \in Paths /\ ParentOf(new) # <<>>
          BY <4>8, PathParts
        <5>2. newParent.ino # 0
          BY <4>t, <5>1, WalkTidy
        <5> QED BY <3>9, <5>2
      <4> QED BY <4>6, <4>7, <4>8, PathParts
    <3> QED BY <1>7, <3>6, <3>7, <3>8, <3>9
  <2> QED BY <2>1, <2>2
<1> QED BY <1>8, <1>9

-----------------------------------------------------------------------------
(* The file system at its start, and every call. *)
LEMMA TreeStarts == TreeInit => TreeInv
<1> SUFFICES ASSUME TreeInit PROVE TreeInv
  OBVIOUS
<1>1. /\ disk.mode = [i \in Inos |-> IF i = RootIno THEN "dir" ELSE "free"]
      /\ disk.size = [i \in Inos |-> 0] /\ disk.area = [s \in 1 .. Slots |-> EmptyEntry]
      /\ disk.free = LastIno /\ plain = TRUE
  BY DEF TreeInit
<1>2. DiskOf(disk)
  <2>1. disk.mode \in [Inos -> Modes]
    BY <1>1 DEF Modes
  <2>2. disk.size \in [Inos -> Nat] /\ disk.area \in [1 .. Slots -> Entries] /\ disk.free \in Nat
    BY <1>1, SpecialEntries, NamesAssumption
  <2> QED BY <2>1, <2>2 DEF TreeInit, DiskOf
<1>3. Exact(disk)
  <2>1. FreeInos(disk) = 1 .. LastIno
    BY <1>1, NamesAssumption DEF FreeInos, Inos, RootIno
  <2>2. Cardinality(1 .. LastIno) = LastIno
    BY FS_Interval, NamesAssumption
  <2> QED BY <1>1, <2>1, <2>2 DEF Exact
<1>4. Counted(disk)
  BY <1>1, <1>3, NamesAssumption DEF Exact, Counted
<1>5. Plain(disk) /\ Sound(disk)
  <2>1. disk.size[RootIno] = 0 /\ disk.mode[RootIno] = "dir"
    BY <1>1, SpecialInos DEF RootIno
  <2>2. 1 .. disk.size[RootIno] = {}
    BY <2>1
  <2>3. \A i \in Inos \ {RootIno} : disk.mode[i] # "dir" /\ disk.size[i] = 0
    BY <1>1
  <2> QED BY <2>1, <2>2, <2>3 DEF Plain, Sound, Used
<1> QED BY <1>1, <1>2, <1>3, <1>4, <1>5 DEF TreeInv

LEMMA TreeSteps == TreeInv /\ TreeNext => TreeInv'
<1> SUFFICES ASSUME TreeInv, TreeNext PROVE TreeInv'
  OBVIOUS
<1>1. Good(disk) /\ plain \in BOOLEAN /\ DiskOf(disk)
  BY DEF TreeInv, Good
<1>2. Fits(disk) /\ disk.size[0] + 1 <= Slots
  <2>1. \A i \in Inos : disk.size[i] + 2 <= Slots /\ disk.size[i] \in Nat
    BY <1>1, DiskParts DEF TreeNext, Bounded
  <2>2. \A i \in Inos : disk.size[i] <= Slots /\ disk.size[i] + 1 <= Slots
    BY <2>1, NamesAssumption
  <2> QED BY <2>2, SpecialInos DEF Fits
<1>3. plain => Roomy(disk)
  BY <1>1, <1>2 DEF TreeInv, Roomy, Tidy
<1>4. plain' = (plain /\ Plain(disk'))
  BY DEF TreeNext
<1>5. Good(disk') /\ (Roomy(disk) => Fine(disk'))
  <2>1. CASE \E p \in Paths : Open(p)
    BY <1>1, <1>2, <2>1, OpenGood, OpenFine
  <2>2. CASE \E p \in Paths : Symlink(p)
    BY <1>1, <1>2, <2>2, SymlinkGood, SymlinkFine
  <2>3. CASE \E p \in Paths : Mkdir(p)
    BY <1>1, <1>2, <2>3, MkdirGood, MkdirFine
  <2>4. CASE \E p \in Paths : Unlink(p)
    BY <1>1, <1>2, <2>4, UnlinkedGood, UnlinkedFine DEF Unlink
  <2>5. CASE \E p \in Paths : Rmdir(p)
    BY <1>1, <1>2, <2>5, RmdirGood, RmdirFine
  <2>6. CASE \E p, q \in Paths : Rename(p, q)
    BY <1>1, <1>2, <2>6, RenameGood, RenameFine
  <2> QED BY <2>1, <2>2, <2>3, <2>4, <2>5, <2>6 DEF TreeNext
<1>6. plain' \in BOOLEAN
  BY <1>4
<1>7. plain' => Plain(disk') /\ Exact(disk') /\ Sound(disk')
  BY <1>3, <1>4, <1>5 DEF Fine
<1> QED BY <1>5, <1>6, <1>7 DEF TreeInv, Good

(* The inode table, the entries and the counter of free inodes are what the calls
   that make, remove and rename names expect, before and after each of them, in
   the order fs/mod.rs makes its changes. *)
THEOREM TreeInvariant == TreeSpec => []TreeInv
<1>1. TreeInv /\ UNCHANGED treeVars => TreeInv'
  BY DEF treeVars, TreeInv, DiskOf, Counted, Exact, Sound, Used, Plain, FreeInos
<1>2. TreeInv /\ [TreeNext]_treeVars => TreeInv'
  BY <1>1, TreeSteps
<1> QED BY <1>2, TreeStarts, PTL DEF TreeSpec

(* The superblock never counts fewer free inodes than alloc_inode can find, and
   counts them exactly as long as the file system is plain. *)
THEOREM TreeInodesAccounted == TreeSpec => []InodesAccounted
<1>1. TreeInv => InodesAccounted
  BY DEF TreeInv, Counted, Exact, InodesAccounted
<1> QED BY <1>1, TreeInvariant, PTL

(* As long as the file system is plain, every entry of dir_add names an inode in
   use, and one of its own: rename and unlink leave none that free_inode freed. *)
THEOREM TreeEntriesSound == TreeSpec => []EntriesSound
<1>1. TreeInv => EntriesSound
  BY DEF TreeInv, Sound, Used, Live, EntriesSound
<1> QED BY <1>1, TreeInvariant, PTL

-----------------------------------------------------------------------------
(* The free-space tree: what the extents of the array cover. *)
Extents == [off : Nat, len : Nat \ {0}]
Area == DataStart .. Total - 1

-----------------------------------------------------------------------------
(* The bytes of extents. *)
LEMMA ExtentParts ==
    ASSUME NEW o \in Nat, NEW l \in Nat \ {0}
    PROVE  /\ Extent(o, l) \in Extents /\ Extent(o, l).off = o /\ Extent(o, l).len = l
           /\ End(Extent(o, l)) = o + l /\ Bytes(Extent(o, l)) = o .. o + l - 1
BY DEF Extent, Extents, End, Bytes

LEMMA ExtentFacts ==
    ASSUME NEW e \in Extents
    PROVE  /\ e.off \in Nat /\ e.len \in Nat \ {0} /\ End(e) = e.off + e.len /\ End(e) \in Nat
           /\ Bytes(e) = e.off .. e.off + e.len - 1 /\ e.off \in Bytes(e)
BY DEF Extents, End, Bytes

(* Two extents, the second where the first ends, are one. *)
LEMMA Joined ==
    ASSUME NEW e \in Extents, NEW f \in Extents, End(e) = f.off
    PROVE  /\ Extent(e.off, e.len + f.len) \in Extents
           /\ Bytes(Extent(e.off, e.len + f.len)) = Bytes(e) \cup Bytes(f)
<1>1. ASSUME NEW a \in Nat, NEW l \in Nat \ {0}, NEW m \in Nat \ {0}
      PROVE  a .. a + (l + m) - 1 = (a .. a + l - 1) \cup (a + l .. a + l + m - 1)
  OBVIOUS
<1>2. /\ e.off \in Nat /\ e.len \in Nat \ {0} /\ f.len \in Nat \ {0} /\ f.off = e.off + e.len
      /\ Bytes(e) = e.off .. e.off + e.len - 1 /\ Bytes(f) = f.off .. f.off + f.len - 1
  BY ExtentFacts
<1>3. e.len + f.len \in Nat \ {0}
  BY <1>2
<1>4. /\ Extent(e.off, e.len + f.len) \in Extents
      /\ Bytes(Extent(e.off, e.len + f.len)) = e.off .. e.off + (e.len + f.len) - 1
  BY <1>2, <1>3, ExtentParts
<1>5. e.off .. e.off + (e.len + f.len) - 1 =
        (e.off .. e.off + e.len - 1) \cup (e.off + e.len .. e.off + e.len + f.len - 1)
  BY <1>1, <1>2
<1>6. Bytes(f) = e.off + e.len .. e.off + e.len + f.len - 1
  BY <1>2
<1> QED BY <1>2, <1>4, <1>5, <1>6

LEMMA CoveredEmpty == Covered(<<>>) = {}
BY DEF Covered

LEMMA CoveredAt ==
    ASSUME NEW s \in Seq(Extents), NEW b
    PROVE  b \in Covered(s) <=> \E i \in 1 .. Len(s) : b \in Bytes(s[i])
BY DEF Covered

LEMMA CoveredConcat ==
    ASSUME NEW s \in Seq(Extents), NEW t \in Seq(Extents)
    PROVE  s \o t \in Seq(Extents) /\ Covered(s \o t) = Covered(s) \cup Covered(t)
<1> DEFINE u == s \o t
<1>1. /\ u \in Seq(Extents) /\ Len(u) = Len(s) + Len(t) /\ Len(s) \in Nat /\ Len(t) \in Nat
      /\ \A i \in 1 .. Len(s) : u[i] = s[i]
      /\ \A i \in 1 .. Len(t) : u[Len(s) + i] = t[i]
  OBVIOUS
<1> HIDE DEF u
<1>2. ASSUME NEW b, b \in Covered(u) PROVE b \in Covered(s) \/ b \in Covered(t)
  <2>1. PICK i \in 1 .. Len(u) : b \in Bytes(u[i])
    BY <1>1, <1>2, CoveredAt
  <2>2. CASE i <= Len(s)
    <3>1. i \in 1 .. Len(s) /\ u[i] = s[i]
      BY <1>1, <2>2
    <3> QED BY <2>1, <3>1, CoveredAt
  <2>3. CASE i > Len(s)
    <3>1. i - Len(s) \in 1 .. Len(t) /\ Len(s) + (i - Len(s)) = i
      BY <1>1, <2>3
    <3>2. u[i] = t[i - Len(s)]
      BY <1>1, <3>1
    <3> QED BY <2>1, <3>1, <3>2, CoveredAt
  <2> QED BY <1>1, <2>2, <2>3
<1>3. ASSUME NEW b, b \in Covered(s) PROVE b \in Covered(u)
  <2>1. PICK i \in 1 .. Len(s) : b \in Bytes(s[i])
    BY <1>3, CoveredAt
  <2>2. i \in 1 .. Len(u) /\ u[i] = s[i]
    BY <1>1
  <2> QED BY <1>1, <2>1, <2>2, CoveredAt
<1>4. ASSUME NEW b, b \in Covered(t) PROVE b \in Covered(u)
  <2>1. PICK i \in 1 .. Len(t) : b \in Bytes(t[i])
    BY <1>4, CoveredAt
  <2>2. Len(s) + i \in 1 .. Len(u) /\ u[Len(s) + i] = t[i]
    BY <1>1
  <2> QED BY <1>1, <2>1, <2>2, CoveredAt
<1> QED BY <1>1, <1>2, <1>3, <1>4 DEF u

LEMMA CoveredOne ==
    ASSUME NEW e \in Extents
    PROVE  <<e>> \in Seq(Extents) /\ Covered(<<e>>) = Bytes(e)
<1>1. <<e>> \in Seq(Extents) /\ Len(<<e>>) = 1 /\ <<e>>[1] = e
  OBVIOUS
<1> DEFINE t == <<e>>
<1> HIDE DEF t
<1>2. ASSUME NEW b PROVE b \in Covered(t) <=> b \in Bytes(e)
  <2>1. b \in Covered(t) <=> \E i \in 1 .. Len(t) : b \in Bytes(t[i])
    BY <1>1, CoveredAt DEF t
  <2>2. Len(t) = 1 /\ t[1] = e
    BY <1>1 DEF t
  <2> QED BY <2>1, <2>2
<1> QED BY <1>1, <1>2 DEF t

LEMMA CoveredAppend ==
    ASSUME NEW s \in Seq(Extents), NEW e \in Extents
    PROVE  Append(s, e) \in Seq(Extents) /\ Covered(Append(s, e)) = Covered(s) \cup Bytes(e)
<1>1. Append(s, e) = s \o <<e>>
  OBVIOUS
<1> QED BY <1>1, CoveredOne, CoveredConcat

(* The last extent of the array, made longer by one it adjoins. *)
LEMMA CoveredLengthen ==
    ASSUME NEW s \in Seq(Extents), NEW e \in Extents, Adjoins(s, e)
    PROVE  Lengthen(s, e) \in Seq(Extents) /\ Covered(Lengthen(s, e)) = Covered(s) \cup Bytes(e)
<1> DEFINE n == Len(s)
           x == Extent(s[n].off, s[n].len + e.len)
           t == [s EXCEPT ![n] = x]
<1>1. n \in Nat /\ n \in 1 .. n /\ s[n] \in Extents /\ End(s[n]) = e.off
  BY DEF Adjoins
<1>2. Lengthen(s, e) = t
  BY DEF Lengthen
<1>4. x \in Extents /\ Bytes(x) = Bytes(s[n]) \cup Bytes(e)
  <2> HIDE DEF n
  <2> QED BY <1>1, Joined
<1> HIDE DEF x
<1>6. t \in Seq(Extents) /\ Len(t) = n /\ t[n] = x /\ \A i \in 1 .. n : i # n => t[i] = s[i]
  BY <1>1, <1>4
<1> HIDE DEF t, n
<1>7. \A b : b \in Covered(t) <=> b \in Covered(s) \/ b \in Bytes(e)
  <2> SUFFICES ASSUME NEW b PROVE b \in Covered(t) <=> b \in Covered(s) \/ b \in Bytes(e)
    OBVIOUS
  <2>1. b \in Covered(t) <=> \E i \in 1 .. n : b \in Bytes(t[i])
    BY <1>6, CoveredAt
  <2>2. b \in Covered(s) <=> \E i \in 1 .. n : b \in Bytes(s[i])
    BY CoveredAt DEF n
  <2> QED BY <1>1, <1>4, <1>6, <2>1, <2>2
<1> QED BY <1>2, <1>6, <1>7

-----------------------------------------------------------------------------
(* remove_range: what stays of the array. *)
Kept(C, r) == {x \in Extents : Bytes(x) \subseteq C /\ Bytes(x) \cap Bytes(r) = {}}

LEMMA CutKept ==
    ASSUME NEW C, NEW e \in Extents, Bytes(e) \subseteq C, NEW r \in Extents
    PROVE  Cut(e, r) \in Seq(Kept(C, r))
<1> DEFINE left == Extent(e.off, r.off - e.off)
           right == Extent(End(r), End(e) - End(r))
           a == IF e.off < r.off THEN <<left>> ELSE <<>>
           b == IF End(e) > End(r) THEN <<right>> ELSE <<>>
<1>1. /\ e.off \in Nat /\ e.len \in Nat \ {0} /\ End(e) = e.off + e.len /\ End(e) \in Nat
      /\ Bytes(e) = e.off .. e.off + e.len - 1
      /\ r.off \in Nat /\ r.len \in Nat \ {0} /\ End(r) = r.off + r.len /\ End(r) \in Nat
      /\ Bytes(r) = r.off .. r.off + r.len - 1
  BY ExtentFacts
<1>2. CASE End(e) <= r.off \/ e.off >= End(r)
  <2>1. Bytes(e) \cap Bytes(r) = {}
    BY <1>1, <1>2
  <2>2. e \in Kept(C, r)
    BY <2>1 DEF Kept
  <2> QED BY <1>2, <2>2 DEF Cut
<1>3. CASE ~(End(e) <= r.off \/ e.off >= End(r))
  <2>1. Cut(e, r) = a \o b
    BY <1>3 DEF Cut
  <2>2. a \in Seq(Kept(C, r))
    <3>1. CASE e.off < r.off
      <4>1. r.off - e.off \in Nat \ {0}
        BY <1>1, <3>1
      <4>2. left \in Extents /\ Bytes(left) = e.off .. e.off + (r.off - e.off) - 1
        BY <1>1, <4>1, ExtentParts
      <4>3. \A x \in e.off .. e.off + (r.off - e.off) - 1 :
               x \in e.off .. e.off + e.len - 1 /\ x \notin r.off .. r.off + r.len - 1
        BY <1>1, <1>3, <3>1
      <4> HIDE DEF left
      <4>4. left \in Kept(C, r)
        BY <1>1, <4>2, <4>3 DEF Kept
      <4> QED BY <3>1, <4>4
    <3> QED BY <3>1
  <2>3. b \in Seq(Kept(C, r))
    <3>1. CASE End(e) > End(r)
      <4>1. End(e) - End(r) \in Nat \ {0}
        BY <1>1, <3>1
      <4>2. right \in Extents /\ Bytes(right) = End(r) .. End(r) + (End(e) - End(r)) - 1
        BY <1>1, <4>1, ExtentParts
      <4>5. End(r) + (End(e) - End(r)) - 1 = End(e) - 1
        BY <1>1
      <4>3. \A x \in End(r) .. End(e) - 1 :
               x \in e.off .. e.off + e.len - 1 /\ x \notin r.off .. r.off + r.len - 1
        <5> SUFFICES ASSUME NEW x \in End(r) .. End(e) - 1
                     PROVE  x \in e.off .. e.off + e.len - 1 /\ x \notin r.off .. r.off + r.len - 1
          OBVIOUS
        <5>1. e.off < r.off + r.len
          BY <1>1, <1>3
        <5>2. x \in Int /\ x >= r.off + r.len /\ x <= e.off + e.len - 1
          BY <1>1
        <5>3. e.off \in Nat /\ e.len \in Nat /\ r.off \in Nat /\ r.len \in Nat
          BY <1>1
        <5> QED BY <5>1, <5>2, <5>3
      <4> HIDE DEF right
      <4>4. right \in Kept(C, r)
        BY <1>1, <4>2, <4>3, <4>5 DEF Kept
      <4> QED BY <3>1, <4>4
    <3> QED BY <3>1
  <2> HIDE DEF a, b
  <2> QED BY <2>1, <2>2, <2>3
<1> QED BY <1>2, <1>3

NextPass(es, r, out, i) == out \o Cut(ReadAt(es, out, i), r)
Passes(es, r, n, u) == [i \in 0 .. n |-> IF i = 0 THEN <<>> ELSE NextPass(es, r, u[i - 1], i)]

(* The loop has a history of any length. *)
LEMMA PassesExist == \A es, r : \A n \in Nat : \E u : u = Passes(es, r, n, u)
<1> SUFFICES ASSUME NEW es, NEW r PROVE \A n \in Nat : \E u : u = Passes(es, r, n, u)
  OBVIOUS
<1> DEFINE S == {n \in Nat : \E u : u = Passes(es, r, n, u)}
<1>1. 0 \in S
  <2> DEFINE u == [i \in 0 .. 0 |-> <<>>]
  <2>1. u = Passes(es, r, 0, u)
    BY DEF Passes
  <2> QED BY <2>1
<1>2. ASSUME NEW n \in Nat, n \in S PROVE n + 1 \in S
  <2>1. PICK u : u = Passes(es, r, n, u)
    BY <1>2
  <2> DEFINE v == [i \in 0 .. n + 1 |-> IF i = n + 1 THEN NextPass(es, r, u[n], n + 1) ELSE u[i]]
  <2>2. u[0] = <<>> /\ \A i \in 0 .. n : i # 0 => u[i] = NextPass(es, r, u[i - 1], i)
    BY <2>1 DEF Passes
  <2>3. \A i \in 0 .. n + 1 : i = 0 \/ (i = n + 1 /\ i - 1 = n) \/ (i \in 1 .. n /\ i - 1 \in 0 .. n)
    OBVIOUS
  <2>4. \A i \in 0 .. n + 1 : v[i] = IF i = 0 THEN <<>> ELSE NextPass(es, r, v[i - 1], i)
    <3> SUFFICES ASSUME NEW i \in 0 .. n + 1
                 PROVE  v[i] = IF i = 0 THEN <<>> ELSE NextPass(es, r, v[i - 1], i)
      OBVIOUS
    <3>1. CASE i = 0
      BY <2>2, <3>1
    <3>2. CASE i = n + 1
      <4>1. i # 0 /\ i - 1 = n /\ n \in 0 .. n + 1 /\ n # n + 1
        BY <3>2
      <4>2. v[i] = NextPass(es, r, u[n], n + 1) /\ v[n] = u[n]
        BY <3>2, <4>1
      <4> HIDE DEF v
      <4> QED BY <3>2, <4>1, <4>2
    <3>3. CASE i \in 1 .. n
      <4>1. i # 0 /\ i # n + 1 /\ i \in 0 .. n /\ i - 1 \in 0 .. n + 1 /\ i - 1 # n + 1
        BY <3>3
      <4>2. v[i] = u[i] /\ v[i - 1] = u[i - 1]
        BY <4>1
      <4> HIDE DEF v
      <4> QED BY <2>2, <4>1, <4>2
    <3> QED BY <2>3, <3>1, <3>2, <3>3
  <2>5. v = Passes(es, r, n + 1, v)
    <3>1. v = [i \in 0 .. n + 1 |-> v[i]]
      OBVIOUS
    <3> HIDE DEF v
    <3> QED BY <2>4, <3>1 DEF Passes
  <2>6. \E w : w = Passes(es, r, n + 1, w)
    <3> HIDE DEF v
    <3> QED BY <2>5
  <2> QED BY <2>6
<1> HIDE DEF S
<1>3. \A n \in Nat : n \in S
  BY <1>1, <1>2, NatInductive
<1> QED BY <1>3 DEF S

LEMMA RemoveUnfolds ==
    ASSUME NEW es, NEW r, Len(es) \in Nat
    PROVE  \E w : w = Passes(es, r, Len(es), w) /\ RemoveRange(es, r) = w[Len(es)]
<1> DEFINE F(w) == [i \in 0 .. Len(es) |->
                IF i = 0 THEN <<>> ELSE w[i - 1] \o Cut(ReadAt(es, w[i - 1], i), r)]
           pass == CHOOSE w : w = F(w)
<1>1. RemoveRange(es, r) = pass[Len(es)]
  BY DEF RemoveRange
<1>2. \A w : F(w) = Passes(es, r, Len(es), w)
  BY DEF Passes, NextPass
<1>3. \E w : w = Passes(es, r, Len(es), w)
  BY PassesExist
<1>4. pass = F(pass)
  BY <1>2, <1>3
<1> HIDE DEF pass, F
<1> QED BY <1>1, <1>2, <1>4

(* Nothing of the range stays in the array and nothing is made up, although parts
   of the array are overwritten before they are read. *)
LEMMA RemoveKeeps ==
    ASSUME NEW es \in Seq(Extents), NEW r \in Extents
    PROVE  /\ RemoveRange(es, r) \in Seq(Extents)
           /\ Covered(RemoveRange(es, r)) \subseteq Covered(es)
           /\ Covered(RemoveRange(es, r)) \cap Bytes(r) = {}
<1> DEFINE K == Kept(Covered(es), r)
           n == Len(es)
<1>1. n \in Nat /\ \A i \in 1 .. n : es[i] \in Extents /\ Bytes(es[i]) \subseteq Covered(es)
  BY DEF Covered
<1>2. PICK w : w = Passes(es, r, n, w) /\ RemoveRange(es, r) = w[n]
  BY <1>1, RemoveUnfolds
<1>3. w[0] = <<>> /\ \A i \in 1 .. n : w[i] = NextPass(es, r, w[i - 1], i)
  <2>1. \A i \in 0 .. n : w[i] = IF i = 0 THEN <<>> ELSE NextPass(es, r, w[i - 1], i)
    BY <1>2 DEF Passes
  <2>2. 0 \in 0 .. n /\ \A i \in 1 .. n : i \in 0 .. n /\ i # 0
    BY <1>1
  <2> QED BY <2>1, <2>2
<1> HIDE DEF n
<1> DEFINE S == {i \in Nat : i <= n => w[i] \in Seq(K)}
<1>4. 0 \in S
  <2> HIDE DEF K
  <2>1. <<>> \in Seq(K)
    OBVIOUS
  <2> QED BY <1>3, <2>1
<1>5. ASSUME NEW i \in Nat, i \in S PROVE i + 1 \in S
  <2> SUFFICES ASSUME i + 1 <= n PROVE w[i + 1] \in Seq(K)
    OBVIOUS
  <2>1. i <= n /\ i + 1 \in 1 .. n /\ (i + 1) - 1 = i
    BY <1>1
  <2>2. w[i] \in Seq(K) /\ w[i + 1] = NextPass(es, r, w[i], i + 1)
    BY <1>3, <1>5, <2>1
  <2> DEFINE e == ReadAt(es, w[i], i + 1)
  <2>3. e \in Extents /\ Bytes(e) \subseteq Covered(es)
    <3>1. CASE i + 1 <= Len(w[i])
      <4>1. e = w[i][i + 1] /\ i + 1 \in 1 .. Len(w[i])
        BY <2>2, <3>1 DEF ReadAt
      <4>2. w[i][i + 1] \in K
        BY <2>2, <4>1
      <4> QED BY <4>1, <4>2 DEF Kept
    <3>2. CASE ~(i + 1 <= Len(w[i]))
      BY <1>1, <2>1, <3>2 DEF ReadAt
    <3> QED BY <3>1, <3>2
  <2> HIDE DEF e
  <2>4. Cut(e, r) \in Seq(K)
    BY <2>3, CutKept
  <2> HIDE DEF K, S
  <2>5. w[i + 1] = w[i] \o Cut(e, r)
    BY <2>2 DEF NextPass, e
  <2>6. \A u, v \in Seq(K) : u \o v \in Seq(K)
    OBVIOUS
  <2> QED BY <2>2, <2>4, <2>5, <2>6
<1> HIDE DEF S
<1>6. n \in S
  BY <1>1, <1>4, <1>5, NatInductive
<1>7. RemoveRange(es, r) \in Seq(K)
  BY <1>1, <1>2, <1>6 DEF S
<1> DEFINE t == RemoveRange(es, r)
<1> HIDE DEF t, K
<1>8. t \in Seq(K) /\ \A i \in 1 .. Len(t) : t[i] \in K
  BY <1>7 DEF t
<1>9. \A x \in K : x \in Extents /\ Bytes(x) \subseteq Covered(es) /\ Bytes(x) \cap Bytes(r) = {}
  BY DEF K, Kept
<1>10. t \in Seq(Extents)
  BY <1>8, <1>9
<1>11. \A b : b \in Covered(t) => b \in Covered(es) /\ b \notin Bytes(r)
  BY <1>8, <1>9, <1>10, CoveredAt
<1> QED BY <1>10, <1>11 DEF t

-----------------------------------------------------------------------------
(* free_internal: the array and the new extent together, at any point of the loop. *)
MergingOk(st) == st.new \in Extents /\ st.out \in Seq(Extents) /\ st.inserted \in BOOLEAN
Reach(st) == Covered(st.out) \cup (IF st.inserted THEN {} ELSE Bytes(st.new))

LEMMA MergingMade ==
    ASSUME NEW new \in Extents, NEW out \in Seq(Extents)
    PROVE  /\ MergingOk(Merging(new, out, TRUE)) /\ Reach(Merging(new, out, TRUE)) = Covered(out)
           /\ MergingOk(Merging(new, out, FALSE))
           /\ Reach(Merging(new, out, FALSE)) = Covered(out) \cup Bytes(new)
<1> DEFINE t == Merging(new, out, TRUE)
           f == Merging(new, out, FALSE)
<1>1. /\ t.new = new /\ t.out = out /\ t.inserted = TRUE
      /\ f.new = new /\ f.out = out /\ f.inserted = FALSE
  BY DEF Merging
<1> HIDE DEF t, f
<1>2. MergingOk(t) /\ Reach(t) = Covered(out)
  BY <1>1 DEF MergingOk, Reach
<1>3. MergingOk(f) /\ Reach(f) = Covered(out) \cup Bytes(new)
  BY <1>1 DEF MergingOk, Reach
<1> QED BY <1>2, <1>3 DEF t, f

LEMMA MergeStepKeeps ==
    ASSUME NEW st, MergingOk(st), NEW e \in Extents
    PROVE  MergingOk(MergeStep(st, e)) /\ Reach(MergeStep(st, e)) = Reach(st) \cup Bytes(e)
<1> DEFINE new == st.new
           out == st.out
           m == MergeStep(st, e)
<1>1. new \in Extents /\ out \in Seq(Extents) /\ st.inserted \in BOOLEAN
  BY DEF MergingOk
<1>2. /\ e.off \in Nat /\ e.len \in Nat \ {0} /\ End(e) = e.off + e.len
      /\ new.off \in Nat /\ new.len \in Nat \ {0} /\ End(new) = new.off + new.len
  BY <1>1, ExtentFacts
<1>3. CASE st.inserted
  <2>1. m = Merging(new, Append(out, e), TRUE)
    BY <1>3 DEF MergeStep
  <2>2. Append(out, e) \in Seq(Extents) /\ Covered(Append(out, e)) = Covered(out) \cup Bytes(e)
    BY <1>1, CoveredAppend
  <2>3. Reach(st) = Covered(out)
    BY <1>3 DEF Reach
  <2> HIDE DEF m, out, new
  <2> QED BY <1>1, <2>1, <2>2, <2>3, MergingMade DEF m
<1>4. CASE ~st.inserted
  <2>0. Reach(st) = Covered(out) \cup Bytes(new)
    BY <1>4 DEF Reach
  <2>1. CASE e.off = End(new)
    <3>0. ~(e.off > End(new)) /\ End(e) # new.off /\ ~(End(e) < new.off)
      BY <1>2, <2>1
    <3>1. m = Merging(Extent(new.off, new.len + e.len), out, FALSE)
      BY <1>4, <2>1, <3>0, Zenon DEF MergeStep
    <3>2. /\ Extent(new.off, new.len + e.len) \in Extents
          /\ Bytes(Extent(new.off, new.len + e.len)) = Bytes(new) \cup Bytes(e)
      BY <1>1, <2>1, Joined
    <3> DEFINE x == Extent(new.off, new.len + e.len)
    <3> HIDE DEF m, out, new, x
    <3>3. MergingOk(Merging(x, out, FALSE)) /\ Reach(Merging(x, out, FALSE)) = Covered(out) \cup Bytes(x)
      BY <1>1, <3>2, MergingMade DEF x
    <3> QED BY <2>0, <3>1, <3>2, <3>3 DEF m, x
  <2>2. CASE e.off > End(new) /\ Adjoins(out, new)
    <3>0. e.off # End(new) /\ End(e) # new.off /\ ~(End(e) < new.off)
      BY <1>2, <2>2
    <3>1. m = Merging(new, Append(Lengthen(out, new), e), TRUE)
      BY <1>4, <2>2, <3>0, Zenon DEF MergeStep
    <3>2. /\ Lengthen(out, new) \in Seq(Extents)
          /\ Covered(Lengthen(out, new)) = Covered(out) \cup Bytes(new)
      BY <1>1, <2>2, CoveredLengthen
    <3>3. /\ Append(Lengthen(out, new), e) \in Seq(Extents)
          /\ Covered(Append(Lengthen(out, new), e)) = Covered(Lengthen(out, new)) \cup Bytes(e)
      BY <3>2, CoveredAppend
    <3> HIDE DEF m, out, new
    <3> QED BY <1>1, <2>0, <3>1, <3>2, <3>3, MergingMade DEF m
  <2>3. CASE End(e) = new.off
    <3>0. e.off # End(new) /\ ~(e.off > End(new)) /\ ~(End(e) < new.off)
      BY <1>2, <2>3
    <3>1. m = Merging(Extent(e.off, new.len + e.len), out, FALSE)
      BY <1>4, <2>3, <3>0, Zenon DEF MergeStep
    <3>2. /\ Extent(e.off, e.len + new.len) \in Extents
          /\ Bytes(Extent(e.off, e.len + new.len)) = Bytes(e) \cup Bytes(new)
      BY <1>1, <2>3, Joined
    <3>3. e.len + new.len = new.len + e.len
      BY <1>2
    <3> DEFINE x == Extent(e.off, new.len + e.len)
    <3>4. x \in Extents /\ Bytes(x) = Bytes(e) \cup Bytes(new)
      BY <3>2, <3>3
    <3> HIDE DEF m, out, new, x
    <3>5. MergingOk(Merging(x, out, FALSE)) /\ Reach(Merging(x, out, FALSE)) = Covered(out) \cup Bytes(x)
      BY <1>1, <3>4, MergingMade
    <3> QED BY <2>0, <3>1, <3>4, <3>5 DEF m, x
  <2>4. CASE End(e) < new.off
    <3>0. e.off # End(new) /\ ~(e.off > End(new)) /\ End(e) # new.off
      BY <1>2, <2>4
    <3>1. m = Merging(new, Append(out, e), FALSE)
      BY <1>4, <2>4, <3>0, Zenon DEF MergeStep
    <3>2. Append(out, e) \in Seq(Extents) /\ Covered(Append(out, e)) = Covered(out) \cup Bytes(e)
      BY <1>1, CoveredAppend
    <3> HIDE DEF m, out, new
    <3> QED BY <1>1, <2>0, <3>1, <3>2, MergingMade DEF m
  <2>5. CASE ~(e.off = End(new)) /\ ~(e.off > End(new) /\ Adjoins(out, new)) /\ ~(End(e) = new.off)
             /\ ~(End(e) < new.off)
    <3>1. m = Merging(new, out \o <<new, e>>, TRUE)
      BY <1>4, <2>5, Zenon DEF MergeStep
    <3>2. <<new, e>> = Append(<<new>>, e)
      OBVIOUS
    <3>3. <<new, e>> \in Seq(Extents) /\ Covered(<<new, e>>) = Bytes(new) \cup Bytes(e)
      BY <1>1, <3>2, CoveredOne, CoveredAppend
    <3> DEFINE pair == <<new, e>>
    <3> HIDE DEF m, out, new, pair
    <3>4. out \o pair \in Seq(Extents) /\ Covered(out \o pair) = Covered(out) \cup Covered(pair)
      BY <1>1, <3>3, CoveredConcat DEF pair
    <3>5. m = Merging(new, out \o pair, TRUE)
      BY <3>1 DEF pair
    <3>6. Covered(pair) = Bytes(new) \cup Bytes(e)
      BY <3>3 DEF pair
    <3> QED BY <1>1, <2>0, <3>4, <3>5, <3>6, MergingMade DEF m
  <2> QED BY <2>1, <2>2, <2>3, <2>4, <2>5
<1> QED BY <1>1, <1>3, <1>4

LEMMA MergeEndKeeps ==
    ASSUME NEW st, MergingOk(st)
    PROVE  MergeEnd(st) \in Seq(Extents) /\ Covered(MergeEnd(st)) = Reach(st)
BY CoveredAppend, CoveredLengthen DEF MergingOk, MergeEnd, Reach

Merges(es, r, n, u) ==
    [i \in 0 .. n |-> IF i = 0 THEN Merging(r, <<>>, FALSE) ELSE MergeStep(u[i - 1], es[i])]

LEMMA MergesExist == \A es, r : \A n \in Nat : \E u : u = Merges(es, r, n, u)
<1> SUFFICES ASSUME NEW es, NEW r PROVE \A n \in Nat : \E u : u = Merges(es, r, n, u)
  OBVIOUS
<1> DEFINE S == {n \in Nat : \E u : u = Merges(es, r, n, u)}
           start == Merging(r, <<>>, FALSE)
<1>1. 0 \in S
  <2> DEFINE u == [i \in 0 .. 0 |-> start]
  <2>1. u = Merges(es, r, 0, u)
    BY DEF Merges
  <2> QED BY <2>1
<1> HIDE DEF start
<1>2. ASSUME NEW n \in Nat, n \in S PROVE n + 1 \in S
  <2>1. PICK u : u = Merges(es, r, n, u)
    BY <1>2
  <2> DEFINE v == [i \in 0 .. n + 1 |-> IF i = n + 1 THEN MergeStep(u[n], es[n + 1]) ELSE u[i]]
  <2>2. u[0] = start /\ \A i \in 0 .. n : i # 0 => u[i] = MergeStep(u[i - 1], es[i])
    BY <2>1 DEF Merges, start
  <2>3. \A i \in 0 .. n + 1 : i = 0 \/ (i = n + 1 /\ i - 1 = n) \/ (i \in 1 .. n /\ i - 1 \in 0 .. n)
    OBVIOUS
  <2>4. \A i \in 0 .. n + 1 : v[i] = IF i = 0 THEN start ELSE MergeStep(v[i - 1], es[i])
    <3> SUFFICES ASSUME NEW i \in 0 .. n + 1
                 PROVE  v[i] = IF i = 0 THEN start ELSE MergeStep(v[i - 1], es[i])
      OBVIOUS
    <3>1. CASE i = 0
      BY <2>2, <3>1
    <3>2. CASE i = n + 1
      <4>1. i # 0 /\ i - 1 = n /\ n \in 0 .. n + 1 /\ n # n + 1
        BY <3>2
      <4>2. v[i] = MergeStep(u[n], es[n + 1]) /\ v[n] = u[n]
        BY <3>2, <4>1
      <4> HIDE DEF v
      <4> QED BY <3>2, <4>1, <4>2
    <3>3. CASE i \in 1 .. n
      <4>1. i # 0 /\ i # n + 1 /\ i \in 0 .. n /\ i - 1 \in 0 .. n + 1 /\ i - 1 # n + 1
        BY <3>3
      <4>2. v[i] = u[i] /\ v[i - 1] = u[i - 1]
        BY <4>1
      <4> HIDE DEF v
      <4> QED BY <2>2, <4>1, <4>2
    <3> QED BY <2>3, <3>1, <3>2, <3>3
  <2>5. v = Merges(es, r, n + 1, v)
    <3>1. v = [i \in 0 .. n + 1 |-> v[i]]
      OBVIOUS
    <3> HIDE DEF v
    <3> QED BY <2>4, <3>1 DEF Merges, start
  <2>6. \E w : w = Merges(es, r, n + 1, w)
    <3> HIDE DEF v
    <3> QED BY <2>5
  <2> QED BY <2>6
<1> HIDE DEF S
<1>3. \A n \in Nat : n \in S
  BY <1>1, <1>2, NatInductive
<1> QED BY <1>3 DEF S

LEMMA MergeUnfolds ==
    ASSUME NEW es, NEW r, Len(es) \in Nat
    PROVE  \E w : w = Merges(es, r, Len(es), w) /\ Merge(es, r) = w[Len(es)]
<1> DEFINE F(w) == [i \in 0 .. Len(es) |->
                IF i = 0 THEN Merging(r, <<>>, FALSE) ELSE MergeStep(w[i - 1], es[i])]
           merge == CHOOSE w : w = F(w)
<1>1. Merge(es, r) = merge[Len(es)]
  BY DEF Merge
<1>2. \A w : F(w) = Merges(es, r, Len(es), w)
  BY DEF Merges
<1>3. \E w : w = Merges(es, r, Len(es), w)
  BY MergesExist
<1>4. merge = F(merge)
  BY <1>2, <1>3
<1> HIDE DEF merge, F
<1> QED BY <1>1, <1>2, <1>4

(* The bytes of the array and of the extent that is put in, no more and no fewer,
   however the array is ordered and whatever in it overlaps. *)
LEMMA FreeKeeps ==
    ASSUME NEW es \in Seq(Extents), NEW r \in Extents
    PROVE  /\ FreeInternal(es, r) \in Seq(Extents)
           /\ Covered(FreeInternal(es, r)) = Covered(es) \cup Bytes(r)
<1> DEFINE n == Len(es)
           Upto(i) == UNION {Bytes(es[j]) : j \in 1 .. i}
<1>1. n \in Nat /\ Covered(es) = Upto(n) /\ \A i \in 1 .. n : es[i] \in Extents
  BY DEF Covered
<1>2. PICK w : w = Merges(es, r, n, w) /\ Merge(es, r) = w[n]
  BY <1>1, MergeUnfolds
<1>3. w[0] = Merging(r, <<>>, FALSE) /\ \A i \in 1 .. n : w[i] = MergeStep(w[i - 1], es[i])
  <2>1. \A i \in 0 .. n : w[i] = IF i = 0 THEN Merging(r, <<>>, FALSE) ELSE MergeStep(w[i - 1], es[i])
    BY <1>2 DEF Merges
  <2>2. 0 \in 0 .. n /\ \A i \in 1 .. n : i \in 0 .. n /\ i # 0
    BY <1>1
  <2> QED BY <2>1, <2>2
<1>4. Upto(0) = {} /\ \A i \in Nat : Upto(i + 1) = Upto(i) \cup Bytes(es[i + 1])
  <2>1. 1 .. 0 = {} /\ \A i \in Nat : 1 .. i + 1 = 1 .. i \cup {i + 1}
    OBVIOUS
  <2> QED BY <2>1
<1> HIDE DEF n, Upto
<1> DEFINE S == {i \in Nat : i <= n => MergingOk(w[i]) /\ Reach(w[i]) = Bytes(r) \cup Upto(i)}
<1>5. 0 \in S
  <2>1. <<>> \in Seq(Extents)
    OBVIOUS
  <2>2. MergingOk(w[0]) /\ Reach(w[0]) = Covered(<<>>) \cup Bytes(r)
    BY <1>3, <2>1, MergingMade
  <2> QED BY <1>4, <2>2, CoveredEmpty
<1>6. ASSUME NEW i \in Nat, i \in S PROVE i + 1 \in S
  <2> SUFFICES ASSUME i + 1 <= n PROVE MergingOk(w[i + 1]) /\ Reach(w[i + 1]) = Bytes(r) \cup Upto(i + 1)
    OBVIOUS
  <2>1. i <= n /\ i + 1 \in 1 .. n /\ (i + 1) - 1 = i
    BY <1>1
  <2>2. MergingOk(w[i]) /\ Reach(w[i]) = Bytes(r) \cup Upto(i) /\ w[i + 1] = MergeStep(w[i], es[i + 1])
    BY <1>3, <1>6, <2>1
  <2> HIDE DEF S
  <2>3. MergingOk(w[i + 1]) /\ Reach(w[i + 1]) = Reach(w[i]) \cup Bytes(es[i + 1])
    BY <1>1, <2>1, <2>2, MergeStepKeeps
  <2> QED BY <1>4, <2>2, <2>3
<1> HIDE DEF S
<1>7. n \in S
  BY <1>1, <1>5, <1>6, NatInductive
<1>8. MergingOk(w[n]) /\ Reach(w[n]) = Bytes(r) \cup Covered(es)
  BY <1>1, <1>7 DEF S
<1> QED BY <1>2, <1>8, MergeEndKeeps DEF FreeInternal

-----------------------------------------------------------------------------
(* alloc: the length asked for, rounded up, and the extent it is cut from. *)
LEMMA AlignParts ==
    ASSUME NEW len \in Nat \ {0}
    PROVE  Align(len) \in Nat \ {0} /\ Align(len) >= len
<1> DEFINE x == len + Unit - 1
           q == x \div Unit
<1>1. x \in Nat /\ Unit \in Nat \ {0}
  BY FreeSpaceAssumption
<1>2. q \in Nat /\ Unit * q <= x /\ x < Unit * q + Unit
  <2>1. ASSUME NEW u \in Nat \ {0}, NEW y \in Nat
        PROVE  y \div u \in Nat /\ u * (y \div u) <= y /\ y < u * (y \div u) + u
    BY SMTT(30)
  <2> QED BY <1>1, <2>1
<1> HIDE DEF q
<1>3. q * Unit = Unit * q /\ Unit * q \in Nat
  BY <1>1, <1>2
<1>4. Align(len) = q * Unit
  BY DEF Align, q
<1> DEFINE p == Unit * q
<1>5. x < p + Unit /\ p \in Nat /\ Align(len) = p
  BY <1>2, <1>3, <1>4
<1> HIDE DEF p
<1>6. len <= p
  BY <1>1, <1>5
<1> QED BY <1>5, <1>6

LEMMA BestFitFits ==
    ASSUME NEW es \in Seq(Extents), NEW len \in Nat, BestFit(es, len) # 0
    PROVE  LET i == BestFit(es, len)
           IN  i \in 1 .. Len(es) /\ es[i] \in Extents /\ es[i].len >= len
<1> DEFINE fits == {i \in DOMAIN es : es[i].len >= len}
           best == {i \in fits : \A j \in fits : es[i].len <= es[j].len}
           lens == {es[i].len : i \in fits}
<1>1. DOMAIN es = 1 .. Len(es) /\ \A i \in 1 .. Len(es) : es[i] \in Extents /\ es[i].len \in Nat /\ i \in Nat
  BY ExtentFacts
<1>2. fits # {}
  BY DEF BestFit
<1>3. BestFit(es, len) = CHOOSE i \in best : \A j \in best : i <= j
  BY <1>2 DEF BestFit
<1>4. best # {}
  <2>1. lens \subseteq Nat /\ lens # {}
    BY <1>1, <1>2
  <2>2. PICK l \in lens : \A k \in lens : l <= k
    BY <2>1, LeastNat
  <2>3. PICK i \in fits : l = es[i].len
    OBVIOUS
  <2> QED BY <2>2, <2>3
<1>5. best \subseteq Nat
  BY <1>1
<1> HIDE DEF best
<1>6. \E i \in best : \A j \in best : i <= j
  BY <1>4, <1>5, LeastNat
<1>7. BestFit(es, len) \in best
  BY <1>3, <1>6
<1> QED BY <1>1, <1>7 DEF best

-----------------------------------------------------------------------------
Holdings == [off : Nat, len : Nat \ {0}, asked : Nat \ {0}]

SpaceInv ==
    /\ entries \in Seq(Extents) /\ Covered(entries) \subseteq Area
    /\ held \subseteq Holdings
    /\ \A h \in held : h.asked <= h.len /\ Bytes(h) \subseteq Area
    /\ panicked \in BOOLEAN
    /\ NoDoubleAllocation

(* free_internal writes the merged array back, or panics. *)
LEMMA PutKeeps ==
    ASSUME NEW es \in Seq(Extents), NEW r \in Extents, Put(es, r)
    PROVE  /\ entries' \in Seq(Extents) /\ panicked' \in BOOLEAN
           /\ Covered(entries') \subseteq Covered(es) \cup Bytes(r)
           /\ ~panicked' => Covered(entries') = Covered(es) \cup Bytes(r)
<1> DEFINE merged == FreeInternal(es, r)
<1>1. merged \in Seq(Extents) /\ Covered(merged) = Covered(es) \cup Bytes(r)
  BY FreeKeeps
<1>2. (panicked' = TRUE /\ entries' = es) \/ (panicked' = FALSE /\ entries' = merged)
  BY DEF Put
<1> HIDE DEF merged
<1> QED BY <1>1, <1>2

LEMMA SpaceStarts == Init => SpaceInv
<1> SUFFICES ASSUME Init PROVE SpaceInv
  OBVIOUS
<1> DEFINE e == Extent(DataStart, Total - DataStart)
<1>1. Total - DataStart \in Nat \ {0} /\ DataStart \in Nat /\ Total \in Nat
  BY FreeSpaceAssumption
<1>2. e \in Extents /\ Bytes(e) = DataStart .. DataStart + (Total - DataStart) - 1
  BY <1>1, ExtentParts
<1>3. DataStart + (Total - DataStart) - 1 = Total - 1
  BY <1>1
<1> HIDE DEF e
<1>4. entries = <<e>> /\ held = {} /\ panicked = FALSE
  BY DEF Init, e
<1>5. entries \in Seq(Extents) /\ Covered(entries) = Area
  BY <1>2, <1>3, <1>4, CoveredOne DEF Area
<1> QED BY <1>4, <1>5 DEF SpaceInv, NoDoubleAllocation

LEMMA AllocKeeps == ASSUME SpaceInv, NEW len \in Lengths, Alloc(len) PROVE SpaceInv' /\ held \subseteq held'
<1> DEFINE need == Align(len)
           i == BestFit(entries, need)
           e == entries[i]
           range == Extent(e.off, need)
           cut == RemoveRange(entries, range)
           rest == Extent(End(range), e.len - need)
           new == [off |-> range.off, len |-> need, asked |-> len]
<1>1. len \in Nat \ {0} /\ need \in Nat \ {0} /\ need >= len
  BY FreeSpaceAssumption, AlignParts
<1>2. /\ i # 0
      /\ IF rest.len > 0 THEN Put(cut, rest) ELSE entries' = cut /\ UNCHANGED panicked
      /\ held' = IF panicked' THEN held ELSE held \cup {new}
  BY DEF Alloc
<1>3. entries \in Seq(Extents) /\ Covered(entries) \subseteq Area /\ panicked \in BOOLEAN
  BY DEF SpaceInv
<1> HIDE DEF need
<1>4. i \in 1 .. Len(entries) /\ e \in Extents /\ e.len >= need
  BY <1>1, <1>2, <1>3, BestFitFits
<1>5. Bytes(e) \subseteq Covered(entries)
  <2> HIDE DEF i
  <2> QED BY <1>3, <1>4, CoveredAt
<1> HIDE DEF i, e
<1>6. e.off \in Nat /\ e.len \in Nat \ {0} /\ Bytes(e) = e.off .. e.off + e.len - 1
  BY <1>4, ExtentFacts
<1>7. /\ range \in Extents /\ range.off = e.off /\ range.len = need /\ End(range) = e.off + need
      /\ Bytes(range) = e.off .. e.off + need - 1
  BY <1>1, <1>6, ExtentParts
<1> HIDE DEF range
<1>8. Bytes(range) \subseteq Bytes(e)
  BY <1>1, <1>4, <1>6, <1>7
<1>9. /\ cut \in Seq(Extents) /\ Covered(cut) \subseteq Covered(entries)
      /\ Covered(cut) \cap Bytes(range) = {}
  BY <1>3, <1>7, RemoveKeeps
<1> HIDE DEF cut
<1>10. /\ entries' \in Seq(Extents) /\ panicked' \in BOOLEAN
       /\ Covered(entries') \subseteq Covered(entries) /\ Covered(entries') \cap Bytes(range) = {}
  <2>1. rest.len = e.len - need
    BY DEF rest, Extent
  <2>2. CASE rest.len > 0
    <3>1. End(range) \in Nat /\ e.len - need \in Nat \ {0}
      BY <1>1, <1>6, <1>7, <2>1, <2>2
    <3>2. rest \in Extents /\ Bytes(rest) = e.off + need .. e.off + need + (e.len - need) - 1
      <4>1. /\ rest \in Extents
            /\ Bytes(rest) = End(range) .. End(range) + (e.len - need) - 1
        BY <3>1, ExtentParts
      <4> QED BY <1>7, <4>1
    <3>3. ASSUME NEW o \in Nat, NEW n \in Nat, NEW l \in Nat
          PROVE  /\ o + n + (l - n) - 1 = o + l - 1
                 /\ \A b \in o + n .. o + l - 1 : b \in o .. o + l - 1 /\ b \notin o .. o + n - 1
      OBVIOUS
    <3>4. /\ e.off + need + (e.len - need) - 1 = e.off + e.len - 1
          /\ \A b \in e.off + need .. e.off + e.len - 1 :
                 b \in e.off .. e.off + e.len - 1 /\ b \notin e.off .. e.off + need - 1
      <4>1. e.off \in Nat /\ need \in Nat /\ e.len \in Nat
        BY <1>1, <1>6
      <4> QED BY <3>3, <4>1
    <3>5. Bytes(rest) \subseteq Bytes(e) /\ Bytes(rest) \cap Bytes(range) = {}
      BY <1>6, <1>7, <3>2, <3>4
    <3> HIDE DEF rest
    <3>6. /\ entries' \in Seq(Extents) /\ panicked' \in BOOLEAN
          /\ Covered(entries') \subseteq Covered(cut) \cup Bytes(rest)
      BY <1>2, <1>9, <2>2, <3>2, PutKeeps
    <3> QED BY <1>5, <1>9, <3>5, <3>6
  <2>3. CASE ~(rest.len > 0)
    BY <1>2, <1>3, <1>9, <2>3
  <2> QED BY <2>2, <2>3
<1>11. new \in Holdings /\ new.asked <= new.len /\ Bytes(new) = Bytes(range)
  <2>1. new \in Holdings /\ new.asked = len /\ new.len = need /\ new.off = e.off
    BY <1>1, <1>6, <1>7 DEF Holdings
  <2> HIDE DEF new
  <2> QED BY <1>1, <1>7, <2>1 DEF Bytes, End
<1> HIDE DEF new
<1>12. held' = held \/ held' = held \cup {new}
  BY <1>2
<1>13. /\ held \subseteq Holdings /\ \A h \in held : h.asked <= h.len /\ Bytes(h) \subseteq Area
       /\ \A h, g \in held : h # g => Bytes(h) \cap Bytes(g) = {}
       /\ \A h \in held : Bytes(h) \cap Covered(entries) = {}
  BY DEF SpaceInv, NoDoubleAllocation
<1>14. /\ held' \subseteq Holdings /\ \A h \in held' : h.asked <= h.len /\ Bytes(h) \subseteq Area
  BY <1>3, <1>5, <1>8, <1>11, <1>12, <1>13
<1>15. Bytes(new) \subseteq Covered(entries) /\ Covered(entries') \cap Bytes(new) = {}
  BY <1>5, <1>8, <1>10, <1>11
<1>16. /\ \A h, g \in held' : h # g => Bytes(h) \cap Bytes(g) = {}
       /\ \A h \in held' : Bytes(h) \cap Covered(entries') = {}
  BY <1>10, <1>12, <1>13, <1>15
<1> QED BY <1>3, <1>10, <1>12, <1>14, <1>16 DEF SpaceInv, NoDoubleAllocation

LEMMA HoldingBytes == ASSUME NEW g \in Holdings PROVE Bytes(g) = g.off .. g.off + g.len - 1
BY DEF Holdings, Bytes, End

LEMMA FreeStep ==
    ASSUME SpaceInv, NEW h \in held, Free(h)
    PROVE  /\ SpaceInv' /\ held' = held \ {h}
           /\ ~panicked' => Covered(entries') = Covered(entries) \cup (h.off .. h.off + h.asked - 1)
<1> DEFINE r == Extent(h.off, h.asked)
<1>1. Put(entries, r) /\ held' = held \ {h}
  BY DEF Free
<1>2. /\ entries \in Seq(Extents) /\ Covered(entries) \subseteq Area /\ held \subseteq Holdings
      /\ \A g \in held : g.asked <= g.len /\ Bytes(g) \subseteq Area
      /\ \A f, g \in held : f # g => Bytes(f) \cap Bytes(g) = {}
      /\ \A g \in held : Bytes(g) \cap Covered(entries) = {}
  BY DEF SpaceInv, NoDoubleAllocation
<1>3. h.off \in Nat /\ h.len \in Nat \ {0} /\ h.asked \in Nat \ {0} /\ h.asked <= h.len
  BY <1>2 DEF Holdings
<1>4. Bytes(h) = h.off .. h.off + h.len - 1
  BY <1>2, HoldingBytes
<1>5. r \in Extents /\ Bytes(r) = h.off .. h.off + h.asked - 1
  BY <1>3, ExtentParts
<1>6. Bytes(r) \subseteq Bytes(h)
  BY <1>3, <1>4, <1>5
<1> HIDE DEF r
<1>7. /\ entries' \in Seq(Extents) /\ panicked' \in BOOLEAN
      /\ Covered(entries') \subseteq Covered(entries) \cup Bytes(r)
      /\ ~panicked' => Covered(entries') = Covered(entries) \cup Bytes(r)
  BY <1>1, <1>2, <1>5, PutKeeps
<1>8. Covered(entries') \subseteq Area
  BY <1>2, <1>6, <1>7
<1>9. \A g \in held' : Bytes(g) \cap Covered(entries') = {}
  BY <1>1, <1>2, <1>6, <1>7
<1>10. SpaceInv'
  BY <1>1, <1>2, <1>7, <1>8, <1>9 DEF SpaceInv, NoDoubleAllocation
<1> QED BY <1>1, <1>5, <1>7, <1>10

FreedReturned ==
    \A h \in held \ held' : ~panicked' =>
        Covered(entries') = Covered(entries) \cup (h.off .. h.off + h.asked - 1)

LEMMA SpaceSteps == SpaceInv /\ [Next]_vars => SpaceInv' /\ FreedReturned
<1> SUFFICES ASSUME SpaceInv, [Next]_vars PROVE SpaceInv' /\ FreedReturned
  OBVIOUS
<1>1. CASE \E len \in Lengths : Alloc(len)
  BY <1>1, AllocKeeps DEF FreedReturned
<1>2. CASE \E h \in held : Free(h)
  <2>1. PICK h \in held : Free(h)
    BY <1>2
  <2>2. /\ SpaceInv' /\ held' = held \ {h}
        /\ ~panicked' => Covered(entries') = Covered(entries) \cup (h.off .. h.off + h.asked - 1)
    BY <2>1, FreeStep
  <2> QED BY <2>2 DEF FreedReturned
<1>3. CASE UNCHANGED vars
  BY <1>3 DEF vars, SpaceInv, NoDoubleAllocation, FreedReturned, Covered
<1> QED BY <1>1, <1>2, <1>3 DEF Next

(* The array of free extents and what is handed out lie in the data area and are
   disjoint, through every cut and merge of space.rs. *)
THEOREM SpaceInvariant == Spec => []SpaceInv
<1>1. SpaceInv /\ [Next]_vars => SpaceInv'
  BY SpaceSteps
<1> QED BY <1>1, SpaceStarts, PTL DEF Spec

(* Free extents are never empty and never leave the data area. *)
THEOREM SpaceTypeCorrect == Spec => []TypeOK
<1>1. SpaceInv => TypeOK
  <2> SUFFICES ASSUME SpaceInv PROVE TypeOK
    OBVIOUS
  <2>1. entries \in Seq(Extents) /\ Covered(entries) \subseteq Area /\ panicked \in BOOLEAN
    BY DEF SpaceInv
  <2>2. \A i \in DOMAIN entries : entries[i] \in Extents
    BY <2>1
  <2>3. \A i \in DOMAIN entries : entries[i].len > 0
    BY <2>2, ExtentFacts
  <2> QED BY <2>1, <2>3 DEF TypeOK, Area
<1> QED BY <1>1, SpaceInvariant, PTL

(* alloc never hands out a byte somebody holds, and none is held and free, for any
   size of the device, any unit and any array. *)
THEOREM SpaceNoDoubleAllocation == Spec => []NoDoubleAllocation
<1>1. SpaceInv => NoDoubleAllocation
  BY DEF SpaceInv
<1> QED BY <1>1, SpaceInvariant, PTL

(* free makes the bytes it is given allocatable, all of them and no others, however
   free_internal merges them. *)
THEOREM SpaceFreeReturns == Spec => FreeReturns
<1>1. SpaceInv /\ [Next]_vars => [FreedReturned]_vars
  BY SpaceSteps
<1>2. Spec => [][FreedReturned]_vars
  BY <1>1, SpaceInvariant, PTL DEF Spec
<1>3. [FreedReturned]_vars <=> [\A h \in held \ held' : ~panicked' =>
        Covered(entries') = Covered(entries) \cup (h.off .. h.off + h.asked - 1)]_vars
  BY DEF FreedReturned
<1> QED BY <1>2, <1>3, PTL DEF FreeReturns
=============================================================================
