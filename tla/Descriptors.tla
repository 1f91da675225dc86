----------------------------- MODULE Descriptors -----------------------------
(* The descriptor table of fs/mod.rs and the pipes of fs/pipe.rs. Descriptor    *)
(* numbers are handed out upwards and never again; a pipe is a slot that two    *)
(* descriptors name and that is used again. A byte is the pipe it was written   *)
(* to; that the ring of a slot keeps their order is not modelled here. sys_dup  *)
(* and sys_dup2 return the number they are given and change nothing.            *)
EXTENDS Naturals, Sequences, FiniteSets

CONSTANTS
    FirstFd, FdTableMax,   \* 3 and FD_TABLE_MAX
    MaxPipes,              \* MAX_PIPES
    BufSize,               \* PIPE_BUF_SIZE
    MaxMade                \* bound: calls of sys_pipe that find a slot

ASSUME DescriptorsAssumption ==
    /\ FirstFd \in Nat \ {0} /\ FdTableMax \in Nat /\ FirstFd <= FdTableMax
    /\ MaxPipes \in Nat

Fds == FirstFd .. FdTableMax - 1
PipeSlots == 1 .. MaxPipes
NoFd == 0                  \* alloc returns -1

VARIABLES
    fds,      \* FD_TABLE: of each slot used, end (read, write or file), pipe, made
    nextFd,   \* next_fd
    pipes,    \* PIPE_TABLE: of each slot used, readers, writers, bytes, made
    made      \* pipes made so far: which one a descriptor or a slot belongs to

fdVars == <<fds, nextFd, pipes, made>>

File(end, slot, id) == [used |-> TRUE, end |-> end, pipe |-> slot, made |-> id]

FdInit ==
    /\ fds = [f \in Fds |-> [used |-> FALSE, end |-> "file", pipe |-> 0, made |-> 0]]
    /\ nextFd = FirstFd
    /\ pipes = [s \in PipeSlots |-> [used |-> FALSE, readers |-> 0, writers |-> 0,
                                     bytes |-> <<>>, made |-> 0]]
    /\ made = 0

(* Mutant: the lowest numbers that are closed. *)
UnusedLowest(n) ==
    LET closed == {f \in Fds : ~fds[f].used}
        Nth(i) == {f \in closed : Cardinality({g \in closed : g < f}) = i - 1}
    IN  [i \in 1 .. n |-> IF Nth(i) = {} THEN NoFd ELSE CHOOSE f \in Nth(i) : TRUE]

(* FileTableData::alloc, as many times as there are files: the descriptors for
   each file, NoFd once the numbers have run out. *)
Unused(n) == [i \in 1 .. n |-> IF nextFd + i - 1 \in Fds THEN nextFd + i - 1 ELSE NoFd]

Install(numbers, files) ==
    /\ fds' = [f \in Fds |-> IF \E i \in DOMAIN files : numbers[i] = f
                             THEN files[CHOOSE i \in DOMAIN files : numbers[i] = f] ELSE fds[f]]
    /\ nextFd' = nextFd + Cardinality({i \in DOMAIN files : numbers[i] # NoFd})

(* sys_open of a file that exists *)
Open ==
    /\ Install(Unused(1), <<File("file", 0, 0)>>)
    /\ UNCHANGED <<pipes, made>>

(* sys_pipe: alloc_pipe takes the first slot that is free; if a descriptor is
   refused the slot is free again, and a read end installed before stays. *)
Pipe ==
    LET free == {s \in PipeSlots : ~pipes[s].used}
        slot == CHOOSE s \in free : \A t \in free : s <= t
        numbers == Unused(2)
        ok == numbers[1] # NoFd /\ numbers[2] # NoFd
    IN  /\ free # {} /\ made < MaxMade
        /\ made' = made + 1
        /\ Install(numbers, <<File("read", slot, made'), File("write", slot, made')>>)
        /\ pipes' = [pipes EXCEPT ![slot] = [used |-> ok, readers |-> 1, writers |-> 1,
                                             bytes |-> <<>>, made |-> made']]

(* Mutant: the read end's close counts a writer. *)
PipeCloseSwapped(s, end) ==
    LET p == [pipes[s] EXCEPT !.writers = IF @ > 0 THEN @ - 1 ELSE 0]
    IN  [pipes EXCEPT ![s] = [p EXCEPT !.used = @ /\ (p.readers > 0 \/ p.writers > 0)]]

(* pipe_close: one end less; without ends the slot is free. *)
PipeClose(s, end) ==
    LET Less(n) == IF n > 0 THEN n - 1 ELSE 0
        p == IF end = "read" THEN [pipes[s] EXCEPT !.readers = Less(@)]
                             ELSE [pipes[s] EXCEPT !.writers = Less(@)]
    IN  [pipes EXCEPT ![s] = [p EXCEPT !.used = p.readers > 0 \/ p.writers > 0]]

(* sys_close: a pipe slot that is not in use is left alone, and the descriptor is
   free whatever the close of the file returned. *)
Close(f) ==
    /\ fds[f].used
    /\ pipes' = IF fds[f].end # "file" /\ pipes[fds[f].pipe].used
                THEN PipeClose(fds[f].pipe, fds[f].end) ELSE pipes
    /\ fds' = [fds EXCEPT ![f].used = FALSE]
    /\ UNCHANGED <<nextFd, made>>

(* sys_write and sys_read of one byte on a descriptor of a pipe, either end: both
   are served as long as the slot is in use. *)
Served(f) == fds[f].used /\ fds[f].end # "file" /\ pipes[fds[f].pipe].used

Write(f) ==
    /\ Served(f) /\ Len(pipes[fds[f].pipe].bytes) < BufSize
    /\ pipes' = [pipes EXCEPT ![fds[f].pipe].bytes = Append(@, fds[f].made)]
    /\ UNCHANGED <<fds, nextFd, made>>

Read(f) ==
    /\ Served(f) /\ pipes[fds[f].pipe].bytes # <<>>
    /\ pipes' = [pipes EXCEPT ![fds[f].pipe].bytes = Tail(@)]
    /\ UNCHANGED <<fds, nextFd, made>>

FdNext ==
    \/ Open \/ Pipe
    \/ \E f \in Fds : Close(f) \/ Write(f) \/ Read(f)

FdSpec == FdInit /\ [][FdNext]_fdVars

-----------------------------------------------------------------------------
(* A pipe is the business of its own two descriptors: a descriptor that is served
   belongs to the pipe now in its slot, and the bytes there were written to that
   pipe. The read end that a failed sys_pipe leaves behind names a slot that is
   free; it stays harmless only because no later sys_pipe can succeed. *)
PipesPrivate ==
    /\ \A f \in Fds : Served(f) => fds[f].made = pipes[fds[f].pipe].made
    /\ \A s \in PipeSlots : \A i \in DOMAIN pipes[s].bytes : pipes[s].bytes[i] = pipes[s].made

Ends(s, end) == {f \in Fds : fds[f].used /\ fds[f].pipe = s /\ fds[f].end = end}

(* The end counts of a slot in use are the descriptors open on it, so the slot
   comes back with the last of them, and not before. *)
EndsCounted ==
    \A s \in PipeSlots : pipes[s].used =>
        /\ pipes[s].readers = Cardinality(Ends(s, "read"))
        /\ pipes[s].writers = Cardinality(Ends(s, "write"))
        /\ Ends(s, "read") \cup Ends(s, "write") # {}
=============================================================================
