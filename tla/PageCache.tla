------------------------------ MODULE PageCache ------------------------------
(* Reading and writing file data: fs_fs/file.rs on top of page_cache.rs.  A  *)
(* page is one value.  The kernel allocator (kmalloc) and the free-space     *)
(* allocator may refuse; the device itself does not fail.                    *)
EXTENDS Naturals, Sequences, FiniteSets, SequencesExt

CONSTANTS
    Inos, Indices,     \* the pages of the files are Inos \X Indices
    Hash,              \* page_hash: the bucket of each page
    MaxPages,          \* MAX_PAGES
    Addrs,             \* addresses kmalloc may return
    BlockCount,        \* blocks of the data area
    Data,              \* values written to pages, besides Zero
    KmallocOutcomes    \* the answers of kmalloc: {TRUE}, {FALSE} or both

Keys == Inos \X Indices
Zero == "zero"
Null == "null"
Nothing == "nothing"   \* no data, as what a read of zero bytes returns
NoPage == [key |-> <<>>]

ASSUME PageCacheAssumption ==
    /\ BlockCount \in Nat /\ Indices \subseteq 0 .. BlockCount - 1
    /\ Hash \in [Keys -> Nat] /\ MaxPages \in Nat \ {0}
    /\ IsFiniteSet(Addrs) /\ Cardinality(Addrs) > MaxPages
    /\ {Zero, Nothing} \cap Data = {} /\ Null \notin Addrs
    /\ KmallocOutcomes # {} /\ KmallocOutcomes \subseteq BOOLEAN

VARIABLES
    heap,       \* the page at each address, NoPage when not allocated
    chain,      \* hash chains, newest page first
    tail,       \* lru_tail
    nrDirty,    \* nr_dirty
    disk,       \* contents of the blocks of the data area
    usedBlocks, \* blocks allocated so far; FreeSpace hands them out in order
    size,       \* size of each file, in pages
    entered,    \* files whose extent tree has an entry
    halted,     \* "no", or why the kernel cannot go on
    owed        \* history: what was last written to each page through the cache,
                \* until it is in a block or the file is truncated

cache == <<heap, chain, tail, nrDirty>>
cacheVars == <<cache, disk, usedBlocks, size, entered, halted, owed>>

Cached == {a \in Addrs : heap[a] # NoPage}

CacheInit ==
    /\ heap = [a \in Addrs |-> NoPage]
    /\ chain = [b \in {Hash[k] : k \in Keys} |-> <<>>]
    /\ tail = Null
    /\ nrDirty = 0
    /\ disk = [b \in 0 .. BlockCount - 1 |-> Zero]
    /\ usedBlocks = 0
    /\ size = [i \in Inos |-> 0]
    /\ entered = {}
    /\ halted = "no"
    /\ owed = [k \in Keys |-> Nothing]

(* lookup: the first page of the chain that has the key and is up to date. *)
Hits(k) == {i \in DOMAIN chain[Hash[k]] :
    LET p == heap[chain[Hash[k]][i]] IN p.key = k /\ p.upToDate}
Found(k) == chain[Hash[k]][CHOOSE i \in Hits(k) : \A j \in Hits(k) : i <= j]

NewPage(k, v, up, dirty) ==
    [key |-> k, data |-> v, upToDate |-> up, dirty |-> dirty, locked |-> FALSE, pinned |-> FALSE]

(* evict_lru skips pages in use, dirty or locked. *)
Evictable(a) == heap[a] # NoPage /\ ~heap[a].dirty /\ ~heap[a].locked /\ ~heap[a].pinned

(* Mutant: a removed page stays on its hash chain. *)
UnlinkNothing(c, a) == c

(* remove_page takes the page off its hash chain. *)
Unlink(c, a) == RemoveFirst(c, a)

(* The cache holds too many pages when it has n. *)
OverLimit(n) == n > MaxPages

(* alloc_page at address a: the page enters its chain, and becomes the LRU tail
   if there is none.  Beyond MaxPages the tail is evicted, while the lock of the
   bucket of the new page is held; the tail pointer itself is never moved. *)
Install(a, page) ==
    LET t == IF tail = Null THEN a ELSE tail
        over == OverLimit(Cardinality(Cached) + 1) /\ t # a
        evict == over /\ Evictable(t)
        sameBucket == evict /\ Hash[heap[t].key] = Hash[page.key]
        remove == evict /\ ~sameBucket
    IN  /\ tail' = t
        /\ halted' = IF over /\ heap[t] = NoPage THEN "use after free"
                     ELSE IF sameBucket THEN "deadlock" ELSE "no"
        /\ heap' = [heap EXCEPT ![a] = page, ![t] = IF remove THEN NoPage ELSE @]
        /\ chain' = [b \in DOMAIN chain |->
                LET old == IF remove /\ b = Hash[heap[t].key] THEN Unlink(chain[b], t) ELSE chain[b]
                IN  IF b = Hash[page.key] THEN <<a>> \o old ELSE old]

(* read_from_extent_or_linear.  The only entry fsync makes in the extent tree is
   lost: write_disk_inode overwrites it with the inode's older bytes, and only
   the count of entries stays.  So bmap finds nothing, and a page is read from
   the linear area, which starts at the first block of the data area and is the
   same for all files. *)
Device(k) == disk[k[2]]

(* A kernel that has stopped returns nothing. *)
Returns(v, value) == v = IF halted' = "no" THEN value ELSE Nothing

(* read, which returns v: the page of the cache, or a new one loaded from the
   device. *)
CacheRead(k, v) ==
    \/ /\ Hits(k) # {}
       /\ UNCHANGED <<cache, halted>>
       /\ Returns(v, heap[Found(k)].data)
    \/ /\ Hits(k) = {} /\ TRUE \in KmallocOutcomes
       /\ \E a \in Addrs \ Cached : Install(a, NewPage(k, Device(k), TRUE, FALSE))
       /\ UNCHANGED nrDirty
       /\ Returns(v, Device(k))

(* read_file_data, which returns v: through the cache; without memory from the
   device, unless the tree has an entry but not one of this page, when no byte is
   read. *)
ReadFile(k, v) ==
    /\ halted = "no" /\ k[2] < size[k[1]]
    /\ \/ CacheRead(k, v)
       \/ /\ Hits(k) = {} /\ FALSE \in KmallocOutcomes
          /\ UNCHANGED <<cache, halted>>
          /\ Returns(v, IF k[1] \in entered THEN Nothing ELSE Device(k))
    /\ UNCHANGED <<disk, usedBlocks, size, entered, owed>>

(* Mutant: only new pages are counted. *)
MarkDirtySkips(a) == UNCHANGED nrDirty

(* mark_dirty *)
MarkDirty(a) == nrDirty' = IF heap[a].dirty THEN nrDirty ELSE nrDirty + 1

(* write: to a page the cache has, or to a new one, which is not marked up to
   date. *)
CacheWrite(k, v) ==
    /\ \/ /\ Hits(k) # {}
          /\ heap' = [heap EXCEPT ![Found(k)].data = v, ![Found(k)].dirty = TRUE]
          /\ MarkDirty(Found(k))
          /\ UNCHANGED <<chain, tail, halted>>
       \/ /\ Hits(k) = {} /\ TRUE \in KmallocOutcomes
          /\ \E a \in Addrs \ Cached : Install(a, NewPage(k, v, FALSE, TRUE))
          /\ nrDirty' = IF halted' = "no" THEN nrDirty + 1 ELSE nrDirty
    /\ owed' = IF halted' = "no" THEN [owed EXCEPT ![k] = v] ELSE owed

(* write_file_data: through the cache; without memory to the linear area. *)
WriteFile(k, v) ==
    /\ halted = "no"
    /\ \/ CacheWrite(k, v) /\ UNCHANGED disk
       \/ /\ Hits(k) = {} /\ FALSE \in KmallocOutcomes
          /\ disk' = [disk EXCEPT ![k[2]] = v]
          /\ UNCHANGED <<cache, halted, owed>>
    /\ size' = [size EXCEPT ![k[1]] = IF k[2] + 1 > @ THEN k[2] + 1 ELSE @]
    /\ UNCHANGED <<usedBlocks, entered>>

(* The unlocked dirty pages of a file that writeback_ino meets on the chains, ... *)
Dirty(i) == {a \in UNION {ToSet(chain[b]) : b \in DOMAIN chain} :
    heap[a].key[1] = i /\ heap[a].dirty /\ ~heap[a].locked}

(* ... bucket by bucket and from the newest page of each. *)
Before(a, c) ==
    \E b, d \in DOMAIN chain : \E m \in DOMAIN chain[b], n \in DOMAIN chain[d] :
        /\ chain[b][m] = a /\ chain[d][n] = c
        /\ b < d \/ (b = d /\ m < n)

DirtyOrder(i) ==
    {s \in [1 .. Cardinality(Dirty(i)) -> Dirty(i)] :
        ToSet(s) = Dirty(i) /\ \A m, n \in DOMAIN s : m < n => Before(s[m], s[n])}

(* Pages of a sequence are written as far as there are blocks, ... *)
Stored(pages) ==
    IF Len(pages) <= BlockCount - usedBlocks THEN Len(pages) ELSE BlockCount - usedBlocks

(* Mutant: pages no block is found for are marked clean like the others. *)
CleanedAll(pages) == ToSet(pages)

(* ... and those that are written become clean. *)
Cleaned(pages) == {pages[j] : j \in 1 .. Stored(pages)}

WriteOut(pages) ==
    /\ disk' = [b \in DOMAIN disk |->
            IF b >= usedBlocks /\ b < usedBlocks + Stored(pages) THEN heap[pages[b - usedBlocks + 1]].data
            ELSE disk[b]]
    /\ heap' = [a \in Addrs |-> IF a \in Cleaned(pages) THEN [heap[a] EXCEPT !.dirty = FALSE]
                                ELSE heap[a]]
    /\ nrDirty' = nrDirty - Stored(pages)
    /\ usedBlocks' = usedBlocks + Stored(pages)
    /\ owed' = [k \in Keys |->
            IF \E j \in 1 .. Stored(pages) :
                  heap[pages[j]].key = k /\ disk'[usedBlocks + j - 1] = owed[k]
            THEN Nothing ELSE owed[k]]

(* fsync_file: writeback_ino, then the linear area as the first extent. *)
Fsync(i) ==
    /\ halted = "no"
    /\ \E pages \in DirtyOrder(i) : WriteOut(pages)
    /\ entered' = IF size[i] > 0 THEN entered \cup {i} ELSE entered
    /\ UNCHANGED <<chain, tail, size, halted>>

(* sync_page: without a block it returns an error and keeps its reference. *)
SyncPage(k) ==
    /\ halted = "no" /\ Hits(k) # {} /\ heap[Found(k)].dirty
    /\ \/ usedBlocks < BlockCount /\ WriteOut(<<Found(k)>>)
       \/ /\ usedBlocks = BlockCount
          /\ heap' = [heap EXCEPT ![Found(k)].pinned = TRUE]
          /\ UNCHANGED <<nrDirty, disk, usedBlocks, owed>>
    /\ UNCHANGED <<chain, tail, size, entered, halted>>

(* truncate_pages: the state is cleared before its dirty bit is tested, so
   nr_dirty keeps counting the page. *)
Truncate(i, pages) ==
    /\ halted = "no"
    /\ heap' = [a \in Addrs |->
            IF a \in Cached /\ heap[a].key[1] = i /\ heap[a].key[2] >= pages
            THEN [heap[a] EXCEPT !.upToDate = FALSE, !.dirty = FALSE, !.locked = FALSE]
            ELSE heap[a]]
    /\ owed' = [k \in Keys |-> IF k[1] = i /\ k[2] >= pages THEN Nothing ELSE owed[k]]
    /\ UNCHANGED <<chain, tail, nrDirty, disk, usedBlocks, size, entered, halted>>

CacheNext ==
    \/ \E k \in Keys : SyncPage(k) \/ \E v \in Data : WriteFile(k, v)
    \/ \E k \in Keys, v \in Data \cup {Zero, Nothing} : ReadFile(k, v)
    \/ \E i \in Inos : Fsync(i) \/ \E n \in Indices : Truncate(i, n)

CacheSpec == CacheInit /\ [][CacheNext]_cacheVars

-----------------------------------------------------------------------------
(* Every page on a hash chain is allocated, hangs on the chain of its key and
   only there, and every allocated page hangs on one: neither lookup nor
   write-back ever follows a pointer to a freed page. *)
ChainsSound ==
    /\ \A b \in DOMAIN chain : IsInjective(chain[b]) /\
        \A j \in DOMAIN chain[b] : chain[b][j] \in Cached /\ Hash[heap[chain[b][j]].key] = b
    /\ \A a \in Cached : \E b \in DOMAIN chain : a \in ToSet(chain[b])

(* nr_dirty never counts too few dirty pages, so that it cannot wrap below zero
   when they are written back (it counts too many after truncate_pages). *)
DirtyCounted == halted = "no" => nrDirty >= Cardinality({a \in Cached : heap[a].dirty})

(* No write is dropped: what was last written to a page through the cache is in
   a dirty page of the cache, where fsync finds it, until it is in a block or the
   file is truncated. Neither eviction, nor an older copy of the page loaded beside
   it, nor a write-back that runs out of blocks loses it. *)
DirtyKept ==
    \A k \in Keys : owed[k] # Nothing =>
        \E a \in Cached : heap[a].key = k /\ heap[a].data = owed[k] /\ heap[a].dirty
=============================================================================
