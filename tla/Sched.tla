------------------------------- MODULE Sched -------------------------------
(***************************************************************************)
(* The CFS-style scheduler of the Tungsten kernel (sched.rs).              *)
(*                                                                         *)
(* One CPU runs kernel threads cooperatively: a thread leaves the CPU in   *)
(* yield_now, sleep_on or exit.  The only code that runs in between the    *)
(* instructions of a thread is the timer interrupt, which calls tick()     *)
(* without a lock.  An operation is therefore split exactly where tick()   *)
(* could see, or change, something it reads: tick() reads current, rq.count*)
(* and slice_ticks, and writes current's vruntime, slice_ticks and         *)
(* RESCHED_PENDING.                                                        *)
(*                                                                         *)
(* pc is what the running thread is doing:                                 *)
(*   "run"      its own code, between calls of the scheduler               *)
(*   "yield"    yield_now, after clear_slice and the is_empty test         *)
(*   "ypick"    yield_now, after current.take() and the enqueue            *)
(*   "yswitch"  yield_now or start, current is the next task, not yet bound*)
(*   "npick"    sleep_on or exit, after current.take()                     *)
(*   "njump"    sleep_on or exit, current is the next task                 *)
(*   "halt"     cli; hlt (or a panic): nothing runs any more               *)
(***************************************************************************)
EXTENDS Integers, Sequences

CONSTANTS
    MaxTid,       \* bound on the task identifiers handed out
    RqSize,       \* CfsRq.tasks.len(), 64
    WqSize,       \* WAIT_QUEUE_SIZE, 32
    SliceTicks,   \* ticks of a time slice, 50
    MaxVruntime,  \* bound on vruntime, and the value saturating_add stops at
    Tags,         \* tags of sleep_on and wake_up
    Procs,        \* non-null Process pointers
    Amounts       \* penalties of penalize_current and penalize_tid

ASSUME SchedConstants ==
    /\ MaxTid \in Nat /\ RqSize \in Nat \ {0} /\ WqSize \in Nat
    /\ SliceTicks \in Nat \ {0} /\ MaxVruntime \in Nat
    /\ Amounts \subseteq Nat

Tids == 1..MaxTid
NoTask == 0              \* Option::None; as cpu: the boot context
NullProc == 0            \* a null Process pointer

ASSUME ProcsNotNull == NullProc \notin Procs

VARIABLES
    nextTid,   \* Scheduler.next_tid
    state,     \* Task.state; "None" before the task is created
    vruntime,  \* Task.vruntime
    mm,        \* Task.mm
    rq,        \* CfsRq.tasks[0..count]
    wq,        \* WaitQueue entries and tags [0..count]
    current,   \* Scheduler.current
    slice,     \* Scheduler.slice_ticks
    resched,   \* RESCHED_PENDING
    active,    \* the active process of proc::set_active_proc
    cpu,       \* the task whose stack the CPU really is on
    pc,        \* where that task is, see above
    stale,     \* tasks whose saved context is not where they left the CPU
    pen        \* queued tasks whose vruntime was raised while in rq

vars == <<nextTid, state, vruntime, mm, rq, wq, current, slice, resched,
          active, cpu, pc, stale, pen>>
-----------------------------------------------------------------------------
(* CfsRq and WaitQueue *)

(* Mutant: enqueue appends instead of sorting. *)
EnqueueAtEnd(q, v) == Len(q)

(* Where the insertion loop of enqueue stops: behind the last entry whose
   vruntime is not above v. *)
EnqueueAt(q, v) ==
    CHOOSE i \in 0..Len(q) : /\ i > 0 => vruntime[q[i]] <= v
                             /\ \A j \in (i + 1)..Len(q) : vruntime[q[j]] > v

(* Mutant: the capacity test is off by one. *)
EnqueueOverfull(q, t, v) ==
    IF Len(q) > RqSize THEN q
    ELSE LET i == EnqueueAt(q, v)
         IN  SubSeq(q, 1, i) \o <<t>> \o SubSeq(q, i + 1, Len(q))

(* A full queue drops the task without telling the caller. *)
Enqueue(q, t, v) ==
    IF Len(q) >= RqSize THEN q
    ELSE LET i == EnqueueAt(q, v)
         IN  SubSeq(q, 1, i) \o <<t>> \o SubSeq(q, i + 1, Len(q))

WqEnqueue(q, tag, t) ==
    IF Len(q) >= WqSize THEN q ELSE Append(q, [tag |-> tag, task |-> t])

(* The first waiter on tag. *)
WakeAt(tag) == CHOOSE i \in DOMAIN wq : /\ wq[i].tag = tag
                                        /\ \A j \in 1..(i - 1) : wq[j].tag # tag

(* Mutant: the woken entry stays in the wait queue. *)
KeepWaiter(q, i) == q

RemoveWaiter(q, i) == SubSeq(q, 1, i - 1) \o SubSeq(q, i + 1, Len(q))

(* saturating_add *)
SatAdd(v, amount) == IF v + amount > MaxVruntime THEN MaxVruntime ELSE v + amount
-----------------------------------------------------------------------------
Init ==
    /\ nextTid = 1
    /\ state = [t \in Tids |-> "None"]
    /\ vruntime = [t \in Tids |-> 0]
    /\ mm = [t \in Tids |-> NullProc]
    /\ rq = <<>> /\ wq = <<>>
    /\ current = NoTask
    /\ slice = 0 /\ resched = FALSE
    /\ active = NullProc
    /\ cpu = NoTask /\ pc = "run"
    /\ stale = {} /\ pen = {}

(* The thread on the CPU is executing its own code. *)
Running == pc = "run"

(* spawn_thread and spawn (a null process).  A failed allocation burns the
   identifier. *)
Spawn(p) ==
    /\ Running /\ nextTid \in Tids
    /\ nextTid' = nextTid + 1
    /\ state' = [state EXCEPT ![nextTid] = "Ready"]
    /\ mm' = [mm EXCEPT ![nextTid] = p]
    /\ rq' = Enqueue(rq, nextTid, 0)
    /\ UNCHANGED <<vruntime, wq, current, slice, resched, active, cpu, pc, stale, pen>>

SpawnFails ==
    /\ Running /\ nextTid \in Tids
    /\ nextTid' = nextTid + 1
    /\ UNCHANGED <<state, vruntime, mm, rq, wq, current, slice, resched, active,
                   cpu, pc, stale, pen>>

(* The timer interrupt, at any point where interrupts are enabled. *)
Tick ==
    /\ pc # "halt"
    /\ IF current = NoTask
       THEN UNCHANGED <<vruntime, slice>>
       ELSE /\ vruntime[current] < MaxVruntime
            /\ vruntime' = [vruntime EXCEPT ![current] = @ + 1]
            /\ slice' = slice + 1
    /\ resched' = (resched \/ (slice' >= SliceTicks /\ rq # <<>>))
    /\ UNCHANGED <<nextTid, state, mm, rq, wq, current, active, cpu, pc, stale, pen>>

(* yield_now up to its first early return. *)
YieldEntry ==
    /\ Running
    /\ slice' = 0
    /\ pc' = IF rq = <<>> THEN "run" ELSE "yield"
    /\ UNCHANGED <<nextTid, state, vruntime, mm, rq, wq, current, active, cpu, stale, pen>>

YieldNow == YieldEntry /\ UNCHANGED resched

(* The poll loops: if take_resched() { yield_now() }. *)
TakeResched == resched /\ resched' = FALSE /\ YieldEntry

(* current.take(), and the task goes back to the queue.  The boot context
   (current = None) has nothing to put back. *)
YieldTake ==
    /\ pc = "yield"
    /\ pc' = "ypick"
    /\ current' = NoTask
    /\ IF current = NoTask
       THEN UNCHANGED <<state, rq>>
       ELSE /\ state' = [state EXCEPT ![current] = "Ready"]
            /\ rq' = Enqueue(rq, current, vruntime[current])
    /\ UNCHANGED <<nextTid, vruntime, mm, wq, slice, resched, active, cpu, stale, pen>>

(* Mutant: the task at the end of the queue is taken. *)
PickLast ==
    /\ rq # <<>>
    /\ rq' = SubSeq(rq, 1, Len(rq) - 1)
    /\ state' = [state EXCEPT ![rq[Len(rq)]] = "Running"]
    /\ current' = rq[Len(rq)]
    /\ pen' = pen \ {rq[Len(rq)]}

(* pick_next: dequeue_min takes the head, which becomes the current task. *)
PickNext ==
    /\ rq # <<>>
    /\ rq' = Tail(rq)
    /\ state' = [state EXCEPT ![Head(rq)] = "Running"]
    /\ current' = Head(rq)
    /\ pen' = pen \ {Head(rq)}

YieldPick ==
    /\ pc = "ypick"
    /\ PickNext
    /\ pc' = IF Head(rq) = cpu THEN "run" ELSE "yswitch"
    /\ UNCHANGED <<nextTid, vruntime, mm, wq, slice, resched, active, cpu, stale>>

(* bind_active_process and context_switch, which saves the context of the
   task that yields (start_first_task if it is the boot context). *)
YieldSwitch ==
    /\ pc = "yswitch"
    /\ active' = mm[current]
    /\ stale' = stale \ {cpu}
    /\ cpu' = current
    /\ pc' = "run"
    /\ UNCHANGED <<nextTid, state, vruntime, mm, rq, wq, current, slice, resched, pen>>

(* start, from the boot context; it panics on an empty queue. *)
Start ==
    /\ Running /\ cpu = NoTask
    /\ PickNext
    /\ pc' = "yswitch"
    /\ UNCHANGED <<nextTid, vruntime, mm, wq, slice, resched, active, cpu, stale>>

StartPanics ==
    /\ Running /\ cpu = NoTask /\ rq = <<>>
    /\ pc' = "halt"
    /\ UNCHANGED <<nextTid, state, vruntime, mm, rq, wq, current, slice, resched,
                   active, cpu, stale, pen>>

(* sleep_on: the task blocks without its context being saved. *)
SleepOn(tag) ==
    /\ Running
    /\ pc' = "npick"
    /\ current' = NoTask
    /\ IF current = NoTask
       THEN UNCHANGED <<state, wq, stale>>
       ELSE /\ state' = [state EXCEPT ![current] = "Blocked"]
            /\ wq' = WqEnqueue(wq, tag, current)
            /\ stale' = stale \cup {current}
    /\ UNCHANGED <<nextTid, vruntime, mm, rq, slice, resched, active, cpu, pen>>

(* Mutant: exit reads current instead of taking it. *)
ExitKeepsCurrent ==
    /\ Running
    /\ pc' = "npick"
    /\ state' = IF current = NoTask THEN state ELSE [state EXCEPT ![current] = "Zombie"]
    /\ UNCHANGED <<nextTid, vruntime, mm, rq, wq, current, slice, resched, active, cpu,
                   stale, pen>>

(* Mutant: exit goes through the requeueing path of yield_now. *)
ExitRequeues ==
    /\ Running
    /\ pc' = "npick"
    /\ current' = NoTask
    /\ state' = IF current = NoTask THEN state ELSE [state EXCEPT ![current] = "Zombie"]
    /\ rq' = IF current = NoTask THEN rq ELSE Enqueue(rq, current, vruntime[current])
    /\ UNCHANGED <<nextTid, vruntime, mm, wq, slice, resched, active, cpu, stale, pen>>

Exit ==
    /\ Running
    /\ pc' = "npick"
    /\ current' = NoTask
    /\ state' = IF current = NoTask THEN state ELSE [state EXCEPT ![current] = "Zombie"]
    /\ UNCHANGED <<nextTid, vruntime, mm, rq, wq, slice, resched, active, cpu, stale, pen>>

(* Both pick the next task, and stop the CPU when there is none. *)
LeavePick ==
    /\ pc = "npick"
    /\ \/ PickNext /\ pc' = "njump"
       \/ rq = <<>> /\ pc' = "halt" /\ UNCHANGED <<rq, state, current, pen>>
    /\ UNCHANGED <<nextTid, vruntime, mm, wq, slice, resched, active, cpu, stale>>

(* start_first_task: the active process is left as it is. *)
LeaveJump ==
    /\ pc = "njump"
    /\ cpu' = current
    /\ pc' = "run"
    /\ UNCHANGED <<nextTid, state, vruntime, mm, rq, wq, current, slice, resched,
                   active, stale, pen>>

(* Mutant: the woken task is not enqueued. *)
WakeUpForgets(tag) ==
    /\ Running
    /\ \E i \in DOMAIN wq : wq[i].tag = tag
    /\ wq' = RemoveWaiter(wq, WakeAt(tag))
    /\ state' = [state EXCEPT ![wq[WakeAt(tag)].task] = "Ready"]
    /\ UNCHANGED <<nextTid, vruntime, mm, rq, current, slice, resched, active, cpu, pc,
                   stale, pen>>

WakeUp(tag) ==
    /\ Running
    /\ \E i \in DOMAIN wq : wq[i].tag = tag
    /\ LET i == WakeAt(tag)
           t == wq[i].task
       IN  /\ wq' = RemoveWaiter(wq, i)
           /\ state' = [state EXCEPT ![t] = "Ready"]
           /\ rq' = Enqueue(rq, t, vruntime[t])
    /\ UNCHANGED <<nextTid, vruntime, mm, current, slice, resched, active, cpu, pc,
                   stale, pen>>

(* penalize_tid; penalize_current is the case t = current.  A task that is
   neither current nor queued is left alone. *)
PenalizeTid(t, amount) ==
    /\ Running
    /\ t = current \/ \E i \in DOMAIN rq : rq[i] = t
    /\ vruntime' = [vruntime EXCEPT ![t] = SatAdd(@, amount)]
    /\ pen' = IF t = current THEN pen ELSE pen \cup {t}
    /\ UNCHANGED <<nextTid, state, mm, rq, wq, current, slice, resched, active, cpu,
                   pc, stale>>

Next ==
    \/ \E p \in Procs \cup {NullProc} : Spawn(p)
    \/ SpawnFails
    \/ Tick
    \/ YieldNow \/ TakeResched \/ YieldTake \/ YieldPick \/ YieldSwitch
    \/ Start \/ StartPanics
    \/ \E tag \in Tags : SleepOn(tag) \/ WakeUp(tag)
    \/ Exit \/ LeavePick \/ LeaveJump
    \/ \E t \in Tids, a \in Amounts : PenalizeTid(t, a)

Spec == Init /\ [][Next]_vars
-----------------------------------------------------------------------------
(* Properties *)

States == {"None", "Ready", "Running", "Blocked", "Zombie"}

(* Every variable of the scheduler has its type. *)
TypeOK ==
    /\ nextTid \in 1..(MaxTid + 1)
    /\ state \in [Tids -> States]
    /\ vruntime \in [Tids -> 0..MaxVruntime]
    /\ mm \in [Tids -> Procs \cup {NullProc}]
    /\ rq \in Seq(Tids) /\ Len(rq) <= RqSize
    /\ wq \in Seq([tag : Tags, task : Tids]) /\ Len(wq) <= WqSize
    /\ current \in Tids \cup {NoTask}
    /\ slice \in Nat /\ resched \in BOOLEAN
    /\ active \in Procs \cup {NullProc}
    /\ cpu \in Tids \cup {NoTask}
    /\ pc \in {"run", "yield", "ypick", "yswitch", "npick", "njump", "halt"}
    /\ stale \subseteq Tids /\ pen \subseteq Tids

(* A task control block is in one place only: at most once in the run queue
   (then it is Ready), at most once in the wait queue (then it is Blocked), or
   it is the current task (the one Running task).  Two entries would put one
   kernel stack on the CPU twice: yield_now, sleep_on, wake_up and exit move
   tasks between the three, with ticks in the middle. *)
OnePlace ==
    /\ \A i, j \in DOMAIN rq : rq[i] = rq[j] => i = j
    /\ \A i, j \in DOMAIN wq : wq[i].task = wq[j].task => i = j
    /\ \A i \in DOMAIN rq : state[rq[i]] = "Ready"
    /\ \A i \in DOMAIN wq : state[wq[i].task] = "Blocked"
    /\ \A t \in Tids : state[t] = "Running" <=> current = t

(* The task the scheduler calls current is the one whose stack the CPU is on,
   whenever a thread runs its own code; it is nobody's stack that yield_now
   puts back to the queue other than its own. *)
CurrentOnCpu ==
    /\ pc \in {"run", "yield"} => cpu = current
    /\ pc \in {"ypick", "npick", "halt"} => current = NoTask
    /\ pc \in {"yswitch", "njump"} => current \in Tids /\ cpu # current

(* enqueue keeps the run queue in ascending order of vruntime although ticks
   charge the current task between any two steps: only an entry that
   penalize_tid raised while it was queued may stand before a smaller one. *)
RqOrder ==
    \A i, j \in DOMAIN rq :
        i < j /\ rq[i] \notin pen => vruntime[rq[i]] <= vruntime[rq[j]]

(* The part of the inductive invariant the code relies on silently: an
   identifier not handed out yet has no task, and the task that sleep_on or
   exit takes off the CPU is not the one they switch to. *)
FreshTids == \A t \in Tids : t >= nextTid => state[t] = "None" /\ vruntime[t] = 0
Leaving == pc = "npick" /\ cpu # NoTask => state[cpu] \in {"Blocked", "Zombie"}

SchedInv == TypeOK /\ OnePlace /\ CurrentOnCpu /\ RqOrder /\ FreshTids /\ Leaving

(* Both queues have room for every task there is. *)
HasRoom == MaxTid <= RqSize /\ MaxTid <= WqSize

(* No live task is dropped: a Ready task is queued and a Blocked task can be
   found by wake_up.  enqueue on a full queue returns without a trace, so this
   needs room for every task. *)
NoTaskLost ==
    \A t \in Tids :
        /\ state[t] = "Ready" => \E i \in DOMAIN rq : rq[i] = t
        /\ state[t] = "Blocked" => \E i \in DOMAIN wq : wq[i].task = t

(* A task leaves the wait queue only for the run queue, a Zombie stays one,
   and no step runs two tasks' transitions: a task becomes Running only from
   Ready (or never stopped). *)
LegalTransitions ==
    [][\A t \in Tids :
        /\ state[t] = "Zombie" => state'[t] = "Zombie"
        /\ state'[t] = "Running" => state[t] \in {"Ready", "Running"}
        /\ state[t] = "Blocked" => state'[t] \in {"Blocked", "Ready"}]_vars

(* What sched.rs:306 says of a switch: a task goes on where it was stopped. *)
ResumesWhereItStopped == pc = "run" => cpu \notin stale

(* The timer keeps interrupting running threads and every thread keeps
   reaching a yield: the service loops of service/mod.rs call yield_now each
   round, and the steps inside a call are code that runs to its end. *)
Fairness ==
    /\ SF_vars(Tick /\ Running)
    /\ SF_vars(YieldNow)
    /\ WF_vars(YieldTake) /\ WF_vars(YieldPick) /\ WF_vars(YieldSwitch)
    /\ WF_vars(LeavePick) /\ WF_vars(LeaveJump)
    /\ WF_vars(Start)

FairSpec == Spec /\ Fairness

(* No queued task starves while the others keep yielding, sleeping and waking:
   what runs is charged by the ticks until it is no longer the minimum. *)
ReadyRuns ==
    \A t \in Tids : state[t] = "Ready" ~> state[t] = "Running"
=============================================================================
