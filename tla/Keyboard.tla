------------------------------ MODULE Keyboard ------------------------------
(* The PS/2 keyboard: the controller's one-byte output buffer, the decoder of   *)
(* scancode set 2 (devices/input/ps2.rs) and the event queue. poll() is called  *)
(* by the handler of IRQ 1 and by threads that drain the controller; both work  *)
(* on the one static decoder, which has no lock. The handler runs to its end in *)
(* the middle of the thread's poll(). The modifiers an event carries are left   *)
(* out.                                                                         *)
EXTENDS Naturals, Sequences

CONSTANTS
    Scancodes,    \* the scancodes of keys
    PauseKey,     \* TRUE if the Pause key may be typed
    Unknown,      \* those the tables have no key for
    Contexts,     \* who may poll: a set of sets of "irq" and "thread"
    MaxKeys,      \* bound: keys pressed and released
    QueueSize     \* EVENT_QUEUE_SIZE

F0 == "F0"        \* prefix of a break code
E0 == "E0"        \* prefix of an extended key
E1 == "E1"        \* begins the sequence of the Pause key
PauseLength == 8  \* bytes that the decoder takes for it
Events == [key : Scancodes, extended : BOOLEAN, pressed : BOOLEAN]
Pause == [key |-> E1, extended |-> FALSE, pressed |-> TRUE]

ASSUME KeyboardAssumption == QueueSize \in Nat /\ Scancodes \cap {F0, E0, E1} = {}

VARIABLES
    contexts,  \* who polls, chosen once
    typed,     \* what the keyboard has sent, as events
    wire,      \* bytes on their way to the controller
    data,      \* the data port
    full,      \* STAT_OUTPUT_FULL
    irq,       \* IRQ 1 is pending
    pendingF0, pendingE0,   \* of PS2_DECODER
    e1Count,   \* e1_count, 0 when pending_e1 is false
    poll, byte, isBreak, isExtended,   \* the thread inside poll() and feed()
    queue,     \* EVENT_QUEUE
    seen       \* events the consumers have read

keyVars == <<contexts, typed, wire, data, full, irq, pendingF0, pendingE0, e1Count, poll,
             byte, isBreak, isExtended, queue, seen>>

decoderVars == <<pendingF0, pendingE0, e1Count>>
threadVars == <<poll, byte, isBreak, isExtended>>
portVars == <<wire, data, full, irq>>

KeyInit ==
    /\ contexts \in Contexts
    /\ typed = <<>> /\ wire = <<>>
    /\ data \in Scancodes /\ full = FALSE /\ irq = FALSE
    /\ pendingF0 = FALSE /\ pendingE0 = FALSE /\ e1Count = 0
    /\ poll = "out" /\ byte = data /\ isBreak = FALSE /\ isExtended = FALSE
    /\ queue = <<>> /\ seen = <<>>

(* The keyboard reports a key: E0 for an extended one, F0 for a release; Pause
   has a sequence of its own, and none when it is released. *)
Codes(e) ==
    IF e = Pause THEN <<E1, "14", "77", E1, F0, "14", F0, "77">>
    ELSE (IF e.extended THEN <<E0>> ELSE <<>>) \o (IF e.pressed THEN <<>> ELSE <<F0>>)
         \o <<e.key>>

Type(e) ==
    /\ Len(typed) < MaxKeys
    /\ typed' = Append(typed, e)
    /\ wire' = wire \o Codes(e)
    /\ UNCHANGED <<contexts, seen, data, full, irq, decoderVars, threadVars, queue>>

(* The controller takes the next byte when its buffer is empty. *)
Arrive ==
    /\ wire # <<>> /\ ~full
    /\ data' = Head(wire) /\ wire' = Tail(wire)
    /\ full' = TRUE /\ irq' = TRUE
    /\ UNCHANGED <<contexts, seen, typed, decoderVars, threadVars, queue>>

Event(b, ext, brk) == [key |-> b, extended |-> ext, pressed |-> ~brk]

(* A scancode without a key makes no event; push_event drops it when the queue is
   full. *)
Push(e) ==
    queue' = IF e.key \notin Unknown /\ Len(queue) < QueueSize THEN Append(queue, e) ELSE queue

(* feed() of a byte that makes no event: one of a Pause sequence, or a prefix. *)
Silent(b) == e1Count > 0 \/ b \in {E1, F0, E0}

Prefix(b) ==
    /\ e1Count' = IF e1Count > 0 THEN (IF e1Count + 1 >= PauseLength THEN 0 ELSE e1Count + 1)
                  ELSE IF b = E1 THEN 1 ELSE 0
    /\ pendingF0' = (pendingF0 \/ (e1Count = 0 /\ b = F0))
    /\ pendingE0' = (pendingE0 \/ (e1Count = 0 /\ b = E0))

(* Mutant: the prefix is not forgotten with the key it belongs to. *)
FeedKeepsPrefix(b) ==
    IF Silent(b) THEN Prefix(b) /\ UNCHANGED queue
    ELSE Push(Event(b, pendingE0, pendingF0)) /\ UNCHANGED decoderVars

(* feed() and push_event() as a whole. *)
Feed(b) ==
    IF Silent(b) THEN Prefix(b) /\ UNCHANGED queue
    ELSE /\ pendingF0' = FALSE /\ pendingE0' = FALSE
         /\ Push(Event(b, pendingE0, pendingF0))
         /\ UNCHANGED e1Count

(* irq_dispatch: poll(), unless another poll has emptied the buffer. *)
Irq ==
    /\ "irq" \in contexts /\ irq
    /\ irq' = FALSE /\ full' = FALSE
    /\ IF full THEN Feed(data) ELSE UNCHANGED <<decoderVars, queue>>
    /\ UNCHANGED <<contexts, seen, typed, wire, data, threadVars>>

-----------------------------------------------------------------------------
(* The thread's poll(), step by step. *)
PollStatus ==
    /\ "thread" \in contexts /\ poll = "out" /\ full
    /\ poll' = "data"
    /\ UNCHANGED <<contexts, seen, typed, portVars, decoderVars, byte, isBreak, isExtended, queue>>

(* The port returns its last byte again if it has been emptied meanwhile. *)
PollData ==
    /\ poll = "data" /\ poll' = "feed"
    /\ byte' = data /\ full' = FALSE
    /\ UNCHANGED <<contexts, seen, typed, wire, data, irq, decoderVars, isBreak, isExtended, queue>>

FeedPrefix ==
    /\ poll = "feed" /\ Silent(byte) /\ poll' = "out"
    /\ Prefix(byte)
    /\ UNCHANGED <<contexts, seen, typed, portVars, byte, isBreak, isExtended, queue>>

FeedRead ==
    /\ poll = "feed" /\ ~Silent(byte) /\ poll' = "clear"
    /\ isBreak' = pendingF0 /\ isExtended' = pendingE0
    /\ UNCHANGED <<contexts, seen, typed, portVars, decoderVars, byte, queue>>

FeedClear ==
    /\ poll = "clear" /\ poll' = "push"
    /\ pendingF0' = FALSE /\ pendingE0' = FALSE
    /\ UNCHANGED <<contexts, seen, typed, portVars, e1Count, byte, isBreak, isExtended, queue>>

PollPush ==
    /\ poll = "push" /\ poll' = "out"
    /\ Push(Event(byte, isExtended, isBreak))
    /\ UNCHANGED <<contexts, seen, typed, portVars, decoderVars, byte, isBreak, isExtended>>

(* read_event *)
ReadEvent ==
    /\ queue # <<>>
    /\ queue' = Tail(queue) /\ seen' = Append(seen, Head(queue))
    /\ UNCHANGED <<contexts, typed, portVars, decoderVars, threadVars>>

KeyNext ==
    \/ \E e \in Events : Type(e)
    \/ PauseKey /\ Type(Pause)
    \/ Arrive \/ Irq
    \/ PollStatus \/ PollData \/ FeedPrefix \/ FeedRead \/ FeedClear \/ PollPush
    \/ ReadEvent

KeySpec == KeyInit /\ [][KeyNext]_keyVars
-----------------------------------------------------------------------------
(* The keys of es that the tables know, in order. *)
IsKey(e) == e # Pause /\ e.key \notin Unknown
KeysOf(es) ==
    LET keys[i \in 0 .. Len(es)] ==
            IF i = 0 THEN <<>>
            ELSE IF IsKey(es[i]) THEN Append(keys[i - 1], es[i]) ELSE keys[i - 1]
    IN  keys[Len(es)]

(* ps2.rs:369: the decoder handles the break prefix: the events are the known keys
   pressed and released, in that order, none invented, lost, repeated or turned
   from a release into a press, also around a Pause sequence and keys that are not
   known, unless the queue was full. *)
DecodesTyped ==
    LET events == seen \o queue
        keys == KeysOf(typed)
    IN  /\ Len(events) <= Len(keys)
        /\ Len(keys) <= QueueSize => \A i \in DOMAIN events : events[i] = keys[i]
        /\ Len(keys) <= QueueSize /\ wire = <<>> /\ ~full /\ poll = "out" => events = keys
=============================================================================
