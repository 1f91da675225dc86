------------------------------ MODULE FontArena ------------------------------
(* The memory of the font engine (modules/freetype/config/ftalloc.c and         *)
(* ftsystem.c): one pool whose blocks are cut off in order and never given      *)
(* back one by one. The engine above (ft_mem_alloc, ft_mem_realloc) asks for    *)
(* positive sizes, keeps the old block when realloc fails, and fills its blocks *)
(* with data: a byte of the pool is the block it was written for. The kernel    *)
(* declares FT_Init_FreeType and does not call it yet; the model has one        *)
(* library at a time, since a second FT_New_Memory rewinds the one pool.        *)
EXTENDS Naturals

CONSTANTS
    PoolSize,    \* FT_ALLOC_POOL_SIZE
    Align,       \* 8
    MemorySize,  \* sizeof(*memory)
    Clients,     \* what the library keeps a block for
    Sizes        \* bound: sizes asked for

Memory == "memory"

ASSUME FontAssumption ==
    /\ PoolSize \in Nat /\ Align \in Nat \ {0} /\ MemorySize \in Nat
    /\ Sizes \subseteq Nat
    /\ Memory \notin Clients

VARIABLES
    offset,      \* alloc_offset
    pool,        \* alloc_pool
    blocks       \* place and size of each client's block, size 0 for none

fontVars == <<offset, pool, blocks>>

Owners == Clients \cup {Memory}
Nowhere == [at |-> 0, size |-> 0]
Bytes == 0 .. PoolSize - 1

FtInit ==
    /\ offset = 0                       \* ft_alloc_init
    /\ pool = [i \in Bytes |-> "zero"]
    /\ blocks = [c \in Owners |-> Nowhere]

RoundUp(n) == ((n + Align - 1) \div Align) * Align

(* Mutant: the bytes skipped for the alignment are not counted. *)
CutUncounted(from, size) == [at |-> RoundUp(from), next |-> from + size]

(* ft_alloc_alloc: the block after offset from, and the offset behind it. *)
Cut(from, size) == [at |-> RoundUp(from), next |-> RoundUp(from) + size]

Fits(from, size) == RoundUp(from) + size <= PoolSize

Within(b) == b.at .. b.at + b.size - 1

Give(c, from, size, old) ==
    LET new == [at |-> Cut(from, size).at, size |-> size]
        Copied(i) == i - new.at < old.size
    IN  /\ offset' = Cut(from, size).next
        /\ blocks' = [blocks EXCEPT ![c] = new]
        /\ pool' = [i \in Bytes |->
                IF i \notin Within(new) THEN pool[i]
                ELSE IF Copied(i) THEN pool[old.at + (i - new.at)] ELSE c]

(* ft_alloc_init, then the memory object is the first block. *)
FT_New_Memory ==
    /\ blocks[Memory] = Nowhere
    /\ Fits(0, MemorySize)
    /\ Give(Memory, 0, MemorySize, Nowhere)

(* ft_alloc for a client without a block *)
FtAlloc(c, size) ==
    /\ blocks[Memory] # Nowhere /\ blocks[c] = Nowhere
    /\ IF Fits(offset, size) THEN Give(c, offset, size, Nowhere) ELSE UNCHANGED fontVars

(* ft_realloc: always a new block; what both hold is copied. *)
FtRealloc(c, size) ==
    /\ blocks[c] # Nowhere
    /\ IF Fits(offset, size) THEN Give(c, offset, size, blocks[c]) ELSE UNCHANGED fontVars

(* ft_free, and ft_realloc to nothing: the pool does not change. *)
FtFree(c) ==
    /\ blocks[c] # Nowhere
    /\ blocks' = [blocks EXCEPT ![c] = Nowhere]
    /\ UNCHANGED <<offset, pool>>

(* FT_Done_FreeType: the library has freed its blocks; ft_alloc_reset. *)
FT_Done_Memory ==
    /\ blocks[Memory] # Nowhere
    /\ \A c \in Clients : blocks[c] = Nowhere
    /\ blocks' = [blocks EXCEPT ![Memory] = Nowhere]
    /\ offset' = 0
    /\ UNCHANGED pool

FtNext ==
    \/ FT_New_Memory \/ FT_Done_Memory
    \/ \E c \in Clients, size \in Sizes : FtAlloc(c, size) \/ FtRealloc(c, size)
    \/ \E c \in Clients : FtFree(c)

FtSpec == FtInit /\ [][FtNext]_fontVars
-----------------------------------------------------------------------------
(* Every block the library holds lies aligned in the pool and has the data
   written to it, through every growth, failed growth and release of others and
   after the pool has been reset for a next library. *)
DataKept ==
    \A c \in Owners :
        /\ blocks[c].at % Align = 0
        /\ blocks[c].at + blocks[c].size <= PoolSize
        /\ \A i \in Within(blocks[c]) : pool[i] = c
=============================================================================
