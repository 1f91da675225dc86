-------------------------------- MODULE Slab --------------------------------
(* The slab allocator (mm/slab.rs) on top of the page allocator: caches of    *)
(* slots of one size, cut from single pages, with a list of pages that have a *)
(* free slot and a list of full pages per cache. A call is one step: nothing  *)
(* preempts it, and no interrupt handler allocates.                           *)
EXTENDS Pmm

CONSTANTS
    BootCaches,  \* the caches init and init_fs_caches grow, in that order
    Created,     \* caches that create_cache makes
    Total,       \* Total[c]: the slots of a page of c, (4096 - 32) / slot size
    Meta         \* the class create_cache takes its descriptor from

Caches == ToSet(BootCaches) \cup Created

ASSUME SlabAssumption ==
    /\ BootCaches \in Seq(ToSet(BootCaches)) /\ IsInjective(BootCaches)
    /\ Created \cap ToSet(BootCaches) = {}
    /\ Total \in [Caches -> Nat]
    /\ Meta \in ToSet(BootCaches) /\ Total[Meta] > 0

VARIABLES
    slab,        \* the two lists of each cache and the headers of its pages
    taken,       \* slots <<page, slot>> that are not free: clients' and descriptors
    made,        \* made[c]: the slot with the descriptor of c, in Created
    growing,     \* caches the call in progress, init or create_cache, has to grow
    fault        \* a null pointer was read: the kernel has stopped

memVars == <<pmmVars, slab, taken, made, growing, fault>>

Pages == UNION {Zones[z] : z \in DOMAIN Zones}
NoCache == <<>>
NoSlot == <<>>

MemInit ==
    /\ PmmInit
    /\ slab = [pages |-> [c \in Caches |-> <<>>], full |-> [c \in Caches |-> <<>>],
               cache |-> [p \in Pages |-> NoCache],
               free  |-> [p \in Pages |-> <<>>], inuse |-> [p \in Pages |-> 0]]
    /\ taken = {}
    /\ made = [c \in Created |-> NoSlot]
    /\ growing = BootCaches
    /\ fault = FALSE

(* grow: the zeroed page p gets a header, its slots are chained in the order
   of their addresses, and it becomes the first page of the cache. *)
Grow(s, c, p) ==
    [s EXCEPT !.pages[c] = <<p>> \o @,
              !.cache[p] = <<c>>,
              !.free[p] = [i \in 1 .. Total[c] |-> i],
              !.inuse[p] = 0]

(* Mutant: the first slot of a page stays on its free list. *)
TakeKeepsLink(s, c) ==
    LET p == Head(s.pages[c])
        t == [s EXCEPT !.free[p] = IF Len(@) <= 1 THEN <<>> ELSE @, !.inuse[p] = @ + 1]
    IN  IF t.inuse[p] >= Total[c]
        THEN [t EXCEPT !.pages[c] = Tail(@), !.full[c] = <<p>> \o @]
        ELSE t

(* alloc: the first free slot of the first page is unlinked; a page that is now
   full changes lists. *)
Take(s, c) ==
    LET p == Head(s.pages[c])
        t == [s EXCEPT !.free[p] = IF @ = <<>> THEN <<>> ELSE Tail(@),
                       !.inuse[p] = @ + 1]
    IN  IF t.inuse[p] >= Total[c]
        THEN [t EXCEPT !.pages[c] = Tail(@), !.full[c] = <<p>> \o @]
        ELSE t

(* Mutant: the first page of the list is unlinked, whichever page is meant. *)
PutUnlinksFirst(s, c, p, i) ==
    LET t == [s EXCEPT !.free[p] = <<i>> \o @, !.inuse[p] = @ - 1]
    IN  IF t.inuse[p] + 1 >= Total[c]
        THEN [t EXCEPT !.full[c] = Tail(@), !.pages[c] = <<p>> \o @]
        ELSE t

(* free: the slot becomes the first free one; a page that was full returns to
   the pages with a free slot, from anywhere in the list of full ones. *)
Put(s, c, p, i) ==
    LET t == [s EXCEPT !.free[p] = <<i>> \o @, !.inuse[p] = @ - 1]
    IN  IF t.inuse[p] + 1 >= Total[c]
        THEN [t EXCEPT !.full[c] = RemoveFirst(@, p), !.pages[c] = <<p>> \o @]
        ELSE t

PageAvailable == Source(0) # <<>>
Fresh == Head(lists[Source(0)[1]][Source(0)[2]])

(* What alloc of c finds: its pages, grown by a fresh one if it had none. *)
Ready(c) == IF slab.pages[c] = <<>> THEN Grow(slab, c, Fresh) ELSE slab
GrowStep(c) == IF slab.pages[c] = <<>> THEN AllocPages(0) ELSE UNCHANGED pmmVars

(* The slot alloc returns; a page that has none yields the null pointer. *)
Slot(c) ==
    LET p == Head(Ready(c).pages[c])
    IN  IF Ready(c).free[p] = <<>> THEN NoSlot ELSE <<p, Head(Ready(c).free[p])>>

(* alloc gets as far as a slot; without memory it returns None, which changes
   nothing. *)
Serves(c) == slab.pages[c] # <<>> \/ PageAvailable

Usual == growing = <<>> /\ ~fault
Live(c) == c \in Created => made[c] # NoSlot

(* kmalloc up to a page and cache_alloc. *)
Alloc(c) ==
    /\ Usual /\ Live(c) /\ Serves(c) /\ Slot(c) # NoSlot
    /\ GrowStep(c)
    /\ slab' = Take(Ready(c), c)
    /\ taken' = taken \cup {Slot(c)}
    /\ UNCHANGED <<made, growing, fault>>

(* alloc in a cache whose slots fill more than a page leaves, as the class of
   4096 bytes: the next pointer is read through null. Where address 0 can be
   read the call returns None, and the page goes to the full ones. *)
AllocNull(c) ==
    /\ Usual /\ Live(c) /\ Serves(c) /\ Slot(c) = NoSlot
    /\ GrowStep(c)
    /\ \/ slab' = Take(Ready(c), c) /\ fault' = FALSE
       \/ slab' = Ready(c) /\ fault' = TRUE
    /\ UNCHANGED <<taken, made, growing>>

(* Mutant: a page is given back with its last slot, but stays on its list. *)
FreeWithPage(o) ==
    /\ Usual /\ o \in taken /\ o \notin {made[c] : c \in Created}
    /\ slab' = Put(slab, slab.cache[o[1]][1], o[1], o[2])
    /\ taken' = taken \ {o}
    /\ IF slab.inuse[o[1]] = 1 THEN FreePages(o[1], 0) ELSE UNCHANGED pmmVars
    /\ UNCHANGED <<made, growing, fault>>

(* kfree and cache_free, which find the cache through the header of the page.
   Clients free what they hold; nobody holds a block of pages from kmalloc. *)
Free(o) ==
    /\ Usual /\ o \in taken /\ o \notin {made[c] : c \in Created}
    /\ slab' = Put(slab, slab.cache[o[1]][1], o[1], o[2])
    /\ taken' = taken \ {o}
    /\ UNCHANGED <<pmmVars, made, growing, fault>>

(* create_cache: the descriptor comes from kmalloc, ... *)
CreateCache(c) ==
    /\ Usual /\ c \in Created /\ ~Live(c) /\ Serves(Meta)
    /\ GrowStep(Meta)
    /\ slab' = Take(Ready(Meta), Meta)
    /\ taken' = taken \cup {Slot(Meta)}
    /\ made' = [made EXCEPT ![c] = Slot(Meta)]
    /\ growing' = <<c>>
    /\ UNCHANGED fault

(* ... and then, as at the start for every cache of the kernel, a first page is
   taken. *)
GrowFirst ==
    /\ growing # <<>> /\ PageAvailable
    /\ AllocPages(0)
    /\ slab' = Grow(slab, Head(growing), Fresh)
    /\ growing' = Tail(growing)
    /\ UNCHANGED <<taken, made, fault>>

(* No memory for that page: init goes on, create_cache frees the descriptor. *)
GrowFails ==
    /\ growing # <<>> /\ ~PageAvailable
    /\ growing' = Tail(growing)
    /\ LET c == Head(growing)
       IN  IF c \in Created
           THEN /\ slab' = Put(slab, Meta, made[c][1], made[c][2])
                /\ taken' = taken \ {made[c]}
                /\ made' = [made EXCEPT ![c] = NoSlot]
           ELSE UNCHANGED <<slab, taken, made>>
    /\ UNCHANGED <<pmmVars, fault>>

SlabPages == {p \in Pages : slab.cache[p] # NoCache}

(* The other clients of the page allocator: page tables, devices' rings, stacks,
   and kmalloc of more than a page. *)
OthersAlloc == Usual /\ \E o \in Orders : AllocPages(o) /\ UNCHANGED <<slab, taken, made, growing, fault>>
OthersFree ==
    /\ Usual
    /\ \E b \in held : b[1] \notin SlabPages /\ FreePages(b[1], b[2])
    /\ UNCHANGED <<slab, taken, made, growing, fault>>

MemNext ==
    \/ \E c \in Caches : Alloc(c) \/ AllocNull(c) \/ CreateCache(c)
    \/ \E o \in taken : Free(o)
    \/ GrowFirst
    \/ GrowFails
    \/ OthersAlloc
    \/ OthersFree

MemSpec == MemInit /\ [][MemNext]_memVars

-----------------------------------------------------------------------------
TakenOf(p) == {o[2] : o \in {t \in taken : t[1] = p}}

(* No slot is handed out twice: the free list of a page (the pointers inside the
   free slots) and the slots in use divide the page between them, through every
   order of frees, and the count in the header says how many are in use. *)
SlotsOnce ==
    \A p \in SlabPages :
        LET c == slab.cache[p][1]
        IN  /\ IsInjective(slab.free[p])
            /\ ToSet(slab.free[p]) \cap TakenOf(p) = {}
            /\ ToSet(slab.free[p]) \cup TakenOf(p) = 1 .. Total[c]
            /\ Total[c] > 0 => slab.inuse[p] = Cardinality(TakenOf(p))

(* Every page of a cache is on one of its lists, once, and a page with a free
   slot is where alloc looks for it: slots that were freed are used again before
   a page is asked for. Only a page that cannot hold a slot is lost. *)
PagesListed ==
    \A c \in Caches :
        LET of == {p \in SlabPages : slab.cache[p][1] = c}
        IN  /\ IsInjective(slab.pages[c] \o slab.full[c])
            /\ ToSet(slab.pages[c] \o slab.full[c]) = of
            /\ Total[c] > 0 => ToSet(slab.pages[c]) = {p \in of : slab.free[p] # <<>>}

(* A page with slots belongs to the caches alone: the page allocator has neither
   got it back nor given it to anyone else. *)
SlabPagesHeld ==
    \A p \in SlabPages : /\ <<p, 0>> \in held
                         /\ \A b \in FreeBlocks : p \notin Block(b[1], b[2])
=============================================================================
