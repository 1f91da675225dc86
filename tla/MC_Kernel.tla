------------------------------ MODULE MC_Kernel ------------------------------
(* Parts of the kernel that share no state with each other and are checked one   *)
(* at a time: the scheduler, the kernel's memory (Slab over Pmm), the pool of    *)
(* the font engine and the page cache. Which one runs is chosen initially.       *)
EXTENDS Sched, Slab, FontArena, PageCache

VARIABLE part    \* the part that runs

(* Two zones, the first page of the second holds the array of descriptors. *)
TwoZones == <<0 .. 1, 2 .. 5>>
MapPages == {0, 1, 3, 4, 5}

(* A class with two slots to a page, one with none as that of 4096 bytes, and a
   cache of its own with a single slot to a page. *)
Classes == <<"small", "page">>
SlotsPerPage == [small |-> 2, page |-> 0, own |-> 1]

(* The two pages of the file hang in different buckets. *)
TwoBuckets == [k \in Keys |-> (k[1] + k[2]) % 2]

(* Addresses differ in nothing but their names, and so do data. *)
CacheSymmetry == Permutations(Addrs) \cup Permutations(Data)

Parts == {"Sched", "Slab", "FontArena", "PageCache"}

KernelInit == Init /\ MemInit /\ FtInit /\ CacheInit /\ part \in Parts

Others(p) ==
    /\ p # "Sched" => UNCHANGED vars
    /\ p # "Slab" => UNCHANGED memVars
    /\ p # "FontArena" => UNCHANGED fontVars
    /\ p # "PageCache" => UNCHANGED cacheVars

KernelNext ==
    /\ UNCHANGED part /\ Others(part)
    /\ \/ part = "Sched" /\ Next
       \/ part = "Slab" /\ MemNext
       \/ part = "FontArena" /\ FtNext
       \/ part = "PageCache" /\ CacheNext

KernelSpec == KernelInit /\ [][KernelNext]_<<vars, memVars, fontVars, cacheVars, part>>
=============================================================================
