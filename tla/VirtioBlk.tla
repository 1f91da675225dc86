------------------------------ MODULE VirtioBlk ------------------------------
(* The virtio block driver (block/virtio_blk.rs) against a device that answers *)
(* when it likes. The driver holds a spinlock for the whole request, so there  *)
(* is one driver; it always uses descriptors 0 to 2, whatever the device still *)
(* has to do, and gives up after a number of polls. A request is its number:   *)
(* its header, data and status are in pages of its own, never returned. A      *)
(* transfer moves at most a page, the one its data gets.                       *)
EXTENDS Naturals

CONSTANTS
    PageBudget,  \* free pages: each request takes two or three for good
    Word         \* 2^16: the width of the ring indices

ASSUME VirtioAssumption == PageBudget \in Nat /\ Word \in Nat \ {0, 1}

Requests == 1 .. PageBudget
None == 0
Types == {"transfer", "flush"}      \* read and write differ in nothing here

VARIABLES
    pc,          \* where submit_blk_io is: idle, the descriptor it writes next, polling
    req,         \* the number of the current request, or the last one
    type,        \* type[r]
    status,      \* the status byte of r, in its own page
    result,      \* what submit_blk_io returned for r
    desc,        \* descriptors 0 to 2: the request whose page each one points to
    short,       \* descriptor 1 is a status byte, as in a flush
    avail, last, \* avail_idx and last_used_idx of the driver
    used,        \* idx of the used ring, which the device writes
    seen,        \* entries of the available ring that the device has taken
    chains,      \* descriptor chains it reads or works on, see Chain
    ran,         \* every chain it has carried out
    late,        \* some request has timed out
    memory       \* free pages

driverVars == <<pc, req, type, result, desc, short, avail, last, late, memory>>
blkVars == <<driverVars, status, used, seen, chains, ran>>

BlkInit ==
    /\ pc = "idle" /\ req = None
    /\ type = [r \in Requests |-> "transfer"]
    /\ status = [r \in Requests |-> "unset"]
    /\ result = [r \in Requests |-> "none"]
    /\ desc = [d \in 0 .. 2 |-> None] /\ short = FALSE
    /\ avail = 0 /\ last = 0 /\ used = 0 /\ seen = 0
    /\ chains = {} /\ ran = {} /\ late = FALSE
    /\ memory = PageBudget

Cost(t) == IF t = "flush" THEN 2 ELSE 3

(* The pages of the header, the status byte, set to 0xFF, and the data. A page
   refused is -12, and the pages taken before it stay taken. *)
Submit(t) ==
    /\ pc = "idle" /\ memory > 0
    /\ req' = req + 1
    /\ type' = [type EXCEPT ![req'] = t]
    /\ IF memory >= Cost(t)
       THEN /\ memory' = memory - Cost(t) /\ pc' = "desc0"
            /\ status' = [status EXCEPT ![req'] = "unset"]
            /\ result' = result
       ELSE /\ memory' = 0 /\ pc' = pc
            /\ result' = [result EXCEPT ![req'] = "enomem"]
            /\ status' = status
    /\ UNCHANGED <<desc, short, avail, last, used, seen, chains, ran, late>>

(* The stores to the descriptors, in the order the source has them. *)
Rest == <<req, type, status, result, avail, last, used, seen, chains, ran, late, memory>>

DescHeader ==
    /\ pc = "desc0" /\ pc' = IF type[req] = "flush" THEN "desc2" ELSE "desc1"
    /\ desc' = [desc EXCEPT ![0] = req]
    /\ UNCHANGED <<short, Rest>>

DescData ==
    /\ pc = "desc1" /\ pc' = "desc2"
    /\ desc' = [desc EXCEPT ![1] = req] /\ short' = FALSE
    /\ UNCHANGED Rest

(* Mutant: the status byte is in descriptor 2 whatever the request. *)
DescStatusAtTwo ==
    /\ pc = "desc2" /\ pc' = "ring"
    /\ desc' = [desc EXCEPT ![2] = req]
    /\ UNCHANGED <<short, Rest>>

(* The status byte is in descriptor 2, or in 1 if there is no data. *)
DescStatus ==
    /\ pc = "desc2" /\ pc' = "ring"
    /\ IF type[req] = "flush"
       THEN desc' = [desc EXCEPT ![1] = req] /\ short' = TRUE
       ELSE desc' = [desc EXCEPT ![2] = req] /\ short' = short
    /\ UNCHANGED Rest

(* The head, always 0, goes into the ring, and the device is notified. *)
Notify ==
    /\ pc = "ring" /\ pc' = "poll"
    /\ avail' = (avail + 1) % Word
    /\ UNCHANGED <<req, type, status, result, desc, short, last, used, seen, chains, ran, late, memory>>

Return(value) ==
    /\ pc' = "idle"
    /\ result' = [result EXCEPT ![req] = value]
    /\ UNCHANGED <<req, type, status, desc, short, avail, used, seen, chains, ran, memory>>

(* The used index has moved: the request is taken to be complete, and its status
   byte says whether it went well. *)
Poll ==
    /\ pc = "poll" /\ used # last
    /\ last' = used /\ late' = late
    /\ Return(IF status[req] = "zero" THEN "ok" ELSE "eio")

(* The polls run out. The used index is read with a plain load, which a compiler
   may do once for all of them, so this can happen however late the device is. *)
TimeOut ==
    /\ pc = "poll" /\ used = last
    /\ late' = TRUE /\ last' = last
    /\ Return("etimedout")

-----------------------------------------------------------------------------
(* The device. It takes an entry of the ring at any time after it was made, and
   walks the chain that starts at descriptor 0, reading one descriptor at a time
   as each is then; the driver may be rewriting them. *)
Chain == [entry |-> seen, header |-> desc[0], data |-> None, status |-> None,
          stage |-> "second"]

Advance(c, d) == chains' = (chains \ {c}) \cup {d}

Fetch ==
    /\ seen # avail
    /\ seen' = (seen + 1) % Word
    /\ chains' = chains \cup {Chain}
    /\ UNCHANGED <<driverVars, status, used, ran>>

FetchSecond(c) ==
    /\ c \in chains /\ c.stage = "second"
    /\ Advance(c, IF short THEN [c EXCEPT !.status = desc[1], !.stage = "whole"]
                  ELSE [c EXCEPT !.data = desc[1], !.stage = "third"])
    /\ UNCHANGED <<driverVars, status, used, seen, ran>>

FetchThird(c) ==
    /\ c \in chains /\ c.stage = "third"
    /\ Advance(c, [c EXCEPT !.status = desc[2], !.stage = "whole"])
    /\ UNCHANGED <<driverVars, status, used, seen, ran>>

(* It carries out the chains it has read, in any order, and writes the status
   byte, ... *)
Perform(c) ==
    /\ c \in chains /\ c.stage = "whole"
    /\ Advance(c, [c EXCEPT !.stage = "done"])
    /\ ran' = ran \cup {<<c.header, c.data, c.status>>}
    /\ \E s \in {"zero", "error"} :
          status' = IF c.status = None THEN status ELSE [status EXCEPT ![c.status] = s]
    /\ UNCHANGED <<driverVars, used, seen>>

(* ... and then moves the used index. *)
Complete(c) ==
    /\ c \in chains /\ c.stage = "done"
    /\ chains' = chains \ {c}
    /\ used' = (used + 1) % Word
    /\ UNCHANGED <<driverVars, status, seen, ran>>

Device ==
    Fetch \/ \E c \in chains : FetchSecond(c) \/ FetchThird(c) \/ Perform(c) \/ Complete(c)
Driver ==
    \/ \E t \in Types : Submit(t)
    \/ DescHeader \/ DescData \/ DescStatus \/ Notify \/ Poll \/ TimeOut

BlkNext == Driver \/ Device
BlkSpec == BlkInit /\ [][BlkNext]_blkVars

-----------------------------------------------------------------------------
DataOf(r) == IF type[r] = "flush" THEN None ELSE r
Whole(r) == <<r, DataOf(r), r>>

(* virtio_blk.rs:157: a request is submitted and its completion waited for, so
   one that returns success was carried out by the device, with its own data and
   its own header; the headers of flushes are alike. *)
SuccessIsOwn ==
    \A r \in Requests : result[r] = "ok" =>
        \E q \in Requests :
            /\ <<q, DataOf(r), r>> \in ran
            /\ q = r \/ (type[q] = "flush" /\ type[r] = "flush")

(* As long as no request has timed out, the device meets only whole chains, a
   request that returns success has been carried out with its own header, data
   and status byte, and one fails only if the device says so. After a time-out
   none of the three is true: the next request takes the late completion for its
   own, and the descriptors are rewritten while the device reads them. *)
InStepUntilTimeout ==
    ~late => /\ \A c \in ran : \E r \in Requests : c = Whole(r)
             /\ \A r \in Requests : result[r] = "ok" => Whole(r) \in ran
             /\ \A r \in Requests : result[r] = "eio" => status[r] = "error"
=============================================================================
