-------------------------------- MODULE Fifo --------------------------------
(* What a channel of ipc.rs promises: a bounded first-in first-out queue   *)
(* whose operations take effect in one step.                               *)
EXTENDS Naturals, Sequences

CONSTANTS Capacity, Messages, NoMessage

VARIABLES
    queue,   \* the messages sent and not yet received, oldest first
    sent,    \* the result of the last completed send
    got      \* the result of the last completed recv

vars == <<queue, sent, got>>

Init == queue = <<>> /\ sent = "none" /\ got = NoMessage

Send(m) ==
    /\ Len(queue) < Capacity
    /\ queue' = Append(queue, m)
    /\ sent' = "ok"
    /\ UNCHANGED got

SendFull ==
    /\ Len(queue) = Capacity
    /\ sent' = "err"
    /\ UNCHANGED <<queue, got>>

Recv ==
    /\ queue # <<>>
    /\ got' = Head(queue)
    /\ queue' = Tail(queue)
    /\ UNCHANGED sent

RecvEmpty ==
    /\ queue = <<>>
    /\ got' = NoMessage
    /\ UNCHANGED <<queue, sent>>

Next == (\E m \in Messages : Send(m)) \/ SendFull \/ Recv \/ RecvEmpty

Spec == Init /\ [][Next]_vars
=============================================================================
