--------------------------------- MODULE Pmm ---------------------------------
(* The physical page allocator (mm/pmm.rs): zones, one free list per order,  *)
(* and the array of page descriptors, whose 16 bytes are also the list node  *)
(* of a free block.                                                          *)
EXTENDS Naturals, Sequences, FiniteSets, SequencesExt, FiniteSetsExt

CONSTANTS
    Zones,       \* a sequence of sets of page frame numbers
    Usable,      \* the pages of the memory map that init hands over
    MaxOrder     \* MAX_ORDER

ASSUME PmmAssumption ==
    /\ MaxOrder \in Nat
    /\ Zones \in Seq(SUBSET Nat)
    /\ \A y, z \in DOMAIN Zones : y # z => Zones[y] \cap Zones[z] = {}
    /\ IsFiniteSet(Usable) /\ Usable \subseteq UNION {Zones[z] : z \in DOMAIN Zones}

VARIABLES
    lists,       \* lists[z][o]: first pages of the free blocks, newest first
    desc,        \* what the flags and the order of each descriptor read as
    freePages,   \* free_pages
    held         \* blocks <<pfn, order>> handed out

pmmVars == <<lists, desc, freePages, held>>

Orders == 0 .. MaxOrder
Block(pfn, o) == pfn .. pfn + 2^o - 1
ZoneOf(pfn) == CHOOSE z \in DOMAIN Zones : pfn \in Zones[z]
FreeBlocks == {b \in Usable \X Orders :
    \E z \in DOMAIN Zones : b[1] \in ToSet(lists[z][b[2]])}

(* FreeList::push stores the next pointer over flags and order: a pointer to a
   descriptor is a multiple of 16, so bit 3, BUDDY, reads as 0, and in a pointer
   to the list head, in the kernel image at the top of the address space, the
   byte of the order reads as 255. *)
Pointer == [buddy |-> FALSE, order |-> 255]
Allocated(o) == [buddy |-> FALSE, order |-> o]
Unused == [buddy |-> FALSE, order |-> 0]

(* The pages of S, pushed on a list in the order of their addresses. *)
Pushed(S) ==
    {s \in [1 .. Cardinality(S) -> S] :
        ToSet(s) = S /\ \A i, j \in DOMAIN s : i < j => s[i] > s[j]}

(* init, phase 4: every usable page is pushed on the list of order 0. *)
PmmInit ==
    /\ \E first \in [DOMAIN Zones -> UNION {Pushed(Usable \cap Zones[z]) : z \in DOMAIN Zones}] :
          /\ \A z \in DOMAIN Zones : first[z] \in Pushed(Usable \cap Zones[z])
          /\ lists = [z \in DOMAIN Zones |-> [o \in Orders |-> IF o = 0 THEN first[z] ELSE <<>>]]
    /\ desc = [p \in UNION {Zones[z] : z \in DOMAIN Zones} |->
                  IF p \in Usable THEN Pointer ELSE Unused]
    /\ freePages = Cardinality(Usable)
    /\ held = {}

(* The zone and the order alloc_pages takes a block from: the first zone with a
   block of the order or a larger one, and its smallest such order. *)
Source(order) ==
    LET from(z) == {o \in order .. MaxOrder : lists[z][o] # <<>>}
        zones == {z \in DOMAIN Zones : from(z) # {}}
    IN  IF zones = {} THEN <<>> ELSE <<Min(zones), Min(from(Min(zones)))>>

(* Mutant: the block stays on its list. *)
SplitNoPop(area, pfn, o, order) ==
    [k \in Orders |-> IF k \in order .. o - 1 THEN <<pfn + 2^k>> \o area[k] ELSE area[k]]

(* Pop the block and push its upper halves down to the order asked for. *)
Split(area, pfn, o, order) ==
    [k \in Orders |-> CASE k = o -> Tail(area[k])
                        [] k \in order .. o - 1 -> <<pfn + 2^k>> \o area[k]
                        [] OTHER -> area[k]]

AllocPages(order) ==
    LET z == Source(order)[1]
        o == Source(order)[2]
        pfn == Head(lists[z][o])
    IN  /\ Source(order) # <<>>
        /\ lists' = [lists EXCEPT ![z] = Split(@, pfn, o, order)]
        /\ desc' = [p \in DOMAIN desc |->
                       IF p = pfn THEN Allocated(order)
                       ELSE IF \E k \in order .. o - 1 : p = pfn + 2^k THEN Pointer
                       ELSE desc[p]]
        /\ freePages' = freePages - 2^order
        /\ held' = held \cup {<<pfn, order>>}

Buddy(pfn, o) == IF (pfn \div 2^o) % 2 = 0 THEN pfn + 2^o ELSE pfn - 2^o
Base(pfn, o) == (pfn \div 2^o) * 2^o

(* Mutant: the free-list nodes do not share memory with the descriptors. *)
OnList(z, pfn, o) == pfn \in ToSet(lists[z][o])

(* The test of free_pages whether the buddy can be merged. *)
ReadsFree(z, pfn, o) ==
    pfn \in Zones[z] /\ desc[pfn].buddy /\ desc[pfn].order = o

(* The order the freed block has grown to when the merge loop ends. *)
Merged(z, pfn, order) ==
    Max({k \in order .. MaxOrder :
            \A o \in order .. k - 1 : ReadsFree(z, Buddy(Base(pfn, o), o), o)})

FreePages(pfn, order) ==
    LET z == ZoneOf(pfn)
        k == Merged(z, pfn, order)
    IN  /\ <<pfn, order>> \in held
        /\ lists' = [lists EXCEPT ![z] = [o \in Orders |->
                CASE o \in order .. k - 1 -> Remove(@[o], Buddy(Base(pfn, o), o))
                  [] o = k -> <<Base(pfn, k)>> \o @[o]
                  [] OTHER -> @[o]]]
        /\ desc' = [desc EXCEPT ![Base(pfn, k)] = Pointer]
        /\ freePages' = freePages + 2^k
        /\ held' = held \ {<<pfn, order>>}

PmmNext ==
    \/ \E order \in Orders : AllocPages(order)
    \/ \E b \in held : FreePages(b[1], b[2])

PmmSpec == PmmInit /\ [][PmmNext]_pmmVars

-----------------------------------------------------------------------------
(* Free and held blocks never share a page and consist of usable pages only;
   no block is on two lists or twice on one. *)
BlocksDisjoint ==
    LET all == FreeBlocks \cup held
    IN  /\ \A a, b \in all : a # b => Block(a[1], a[2]) \cap Block(b[1], b[2]) = {}
        /\ \A a \in all : Block(a[1], a[2]) \subseteq Usable
        /\ FreeBlocks \cap held = {}
        /\ \A z \in DOMAIN Zones, o \in Orders : IsInjective(lists[z][o])

(* free_pages counts the pages on the lists, and no page is lost: what is not
   free is held. *)
PagesAccounted ==
    /\ freePages = Cardinality(UNION {Block(b[1], b[2]) : b \in FreeBlocks})
    /\ UNION {Block(b[1], b[2]) : b \in FreeBlocks \cup held} = Usable

(* pmm.rs:377, "merge the buddies": a freed block ends up in a free block whose
   buddy, if the zone has one, is not free in one piece as well. Init pushes the
   pages one by one, so this is said of the blocks that were freed. *)
FreedMerge ==
    [][\A b \in held \ held', f \in FreeBlocks' :
          /\ b[1] \in Block(f[1], f[2]) /\ f[2] < MaxOrder
          /\ Buddy(f[1], f[2]) \in Zones[ZoneOf(f[1])]
          => <<Buddy(f[1], f[2]), f[2]>> \notin FreeBlocks']_pmmVars
=============================================================================
