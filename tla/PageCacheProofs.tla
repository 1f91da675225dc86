-------------------------- MODULE PageCacheProofs --------------------------
(* The page cache's hash chains hold exactly the allocated pages, its count of *)
(* dirty pages is never too small, and no write is dropped, for every number   *)
(* of files, pages, buckets, addresses and values.                             *)
EXTENDS PageCache, ListLemmas

Values == Data \cup {Zero}
Buckets == {Hash[k] : k \in Keys}
Pages == [key : Keys, data : Values, upToDate : BOOLEAN, dirty : BOOLEAN,
          locked : BOOLEAN, pinned : BOOLEAN]

(* The pages of a bucket, and the dirty pages, of a heap. *)
PagesOf(h, b) == {x \in Addrs : h[x] # NoPage /\ Hash[h[x].key] = b}
DirtyPages(h) == {x \in Addrs : h[x] # NoPage /\ h[x].dirty}

CacheTypes ==
    /\ heap \in [Addrs -> Pages \cup {NoPage}]
    /\ chain \in [Buckets -> Seq(Addrs)]
    /\ tail \in Addrs \cup {Null}
    /\ nrDirty \in Nat
    /\ usedBlocks \in 0 .. BlockCount
    /\ disk \in [0 .. BlockCount - 1 -> Values]
    /\ owed \in [Keys -> Data \cup {Nothing}]

(* Each chain lists the pages of its bucket, each page once. *)
ChainsExact == \A b \in Buckets : IsInjective(chain[b]) /\ ToSet(chain[b]) = PagesOf(heap, b)

CacheInv == CacheTypes /\ ChainsExact /\ DirtyCounted /\ DirtyKept

-----------------------------------------------------------------------------
(* A page is not the empty record, and its fields are what they should be. *)
LEMMA PageFields ==
    ASSUME NEW p \in Pages
    PROVE  /\ p # NoPage /\ p.key \in Keys /\ Hash[p.key] \in Buckets /\ p.data \in Values
           /\ p.upToDate \in BOOLEAN /\ p.dirty \in BOOLEAN
<1>1. p.key \in Keys /\ p.data \in Values /\ p.upToDate \in BOOLEAN /\ p.dirty \in BOOLEAN
  BY DEF Pages
<1>2. p.key # <<>>
  BY <1>1 DEF Keys
<1>3. p # NoPage
  BY <1>2 DEF NoPage
<1> QED BY <1>1, <1>3 DEF Buckets

LEMMA NewPageFields ==
    ASSUME NEW k \in Keys, NEW v \in Values, NEW up \in BOOLEAN, NEW d \in BOOLEAN
    PROVE  /\ NewPage(k, v, up, d) \in Pages /\ NewPage(k, v, up, d).key = k
           /\ NewPage(k, v, up, d).dirty = d
BY DEF NewPage, Pages

LEMMA MarkedPage ==
    ASSUME NEW q \in Pages, NEW r, r = [q EXCEPT !.dirty = TRUE]
    PROVE  r \in Pages /\ r.key = q.key /\ r.data = q.data /\ r.dirty = TRUE
BY DEF Pages

LEMMA ClearedPage ==
    ASSUME NEW q \in Pages, NEW r,
           r = [q EXCEPT !.upToDate = FALSE, !.dirty = FALSE, !.locked = FALSE]
    PROVE  r \in Pages /\ r.key = q.key /\ r.dirty = FALSE
BY DEF Pages

(* The dirty pages are finitely many, and are those DirtyCounted counts. *)
LEMMA DirtyFinite ==
    ASSUME NEW h
    PROVE  IsFiniteSet(DirtyPages(h)) /\ Cardinality(DirtyPages(h)) \in Nat
<1>1. DirtyPages(h) \in SUBSET Addrs
  BY DEF DirtyPages
<1>2. IsFiniteSet(DirtyPages(h))
  BY <1>1, FS_Subset, PageCacheAssumption
<1> QED BY <1>2, FS_CardinalityType

LEMMA DirtyCount ==
    DirtyCounted <=> (halted = "no" => nrDirty >= Cardinality(DirtyPages(heap)))
<1>1. {a \in Cached : heap[a].dirty} = DirtyPages(heap)
  BY DEF Cached, DirtyPages
<1> QED BY <1>1 DEF DirtyCounted

LEMMA DirtyCountNext ==
    DirtyCounted' <=> (halted' = "no" => nrDirty' >= Cardinality(DirtyPages(heap')))
<1>1. {a \in Cached' : heap'[a].dirty} = DirtyPages(heap')
  BY DEF Cached, DirtyPages
<1> QED BY <1>1 DEF DirtyCounted

(* What lookup finds is an allocated page with the key it looks for. *)
LEMMA LookupFinds ==
    ASSUME CacheTypes, ChainsExact, NEW k \in Keys, Hits(k) # {}
    PROVE  Found(k) \in Addrs /\ heap[Found(k)] \in Pages /\ heap[Found(k)].key = k
<1> DEFINE c == chain[Hash[k]]
<1>1. Hash[k] \in Buckets
  BY DEF Buckets
<1>2. c \in Seq(Addrs) /\ ToSet(c) = PagesOf(heap, Hash[k])
  BY <1>1 DEF CacheTypes, ChainsExact
<1>3. DOMAIN c = 1 .. Len(c) /\ Len(c) \in Nat
  BY <1>2, LenProperties
<1>4. Hits(k) \subseteq DOMAIN c /\ \A i \in Hits(k) : heap[c[i]].key = k
  BY DEF Hits
<1>5. Hits(k) \subseteq Nat
  BY <1>3, <1>4
<1>6. \E i \in Hits(k) : \A j \in Hits(k) : i <= j
  BY <1>5, LeastNat
<1> DEFINE i == CHOOSE i \in Hits(k) : \A j \in Hits(k) : i <= j
<1>7. i \in Hits(k)
  BY <1>6
<1>8. Found(k) = c[i]
  BY DEF Found
<1> HIDE DEF i, c
<1>9. c[i] \in ToSet(c) /\ heap[c[i]].key = k
  BY <1>4, <1>7 DEF ToSet
<1>10. c[i] \in Addrs /\ heap[c[i]] # NoPage
  BY <1>2, <1>9 DEF PagesOf
<1> QED BY <1>8, <1>9, <1>10 DEF CacheTypes

(* A step that allocates and frees no page and moves none to another key keeps
   the chains exact. *)
LEMMA SameKeys ==
    ASSUME ChainsExact, chain' = chain,
           \A x \in Addrs : (heap'[x] = NoPage <=> heap[x] = NoPage) /\ heap'[x].key = heap[x].key
    PROVE  ChainsExact'
<1>1. \A b \in Buckets : PagesOf(heap', b) = PagesOf(heap, b)
  BY DEF PagesOf
<1>2. Buckets' = Buckets
  OBVIOUS
<1>3. \A b : PagesOf(heap, b)' = PagesOf(heap', b)
  BY DEF PagesOf
<1> QED BY <1>1, <1>3 DEF ChainsExact

(* A write stays owed by the dirty page it is in, unless it is settled, or a later
   one is owed by another. *)
StillOwed(k) ==
    /\ owed'[k] = owed[k]
    /\ \A x \in Cached :
          heap[x].key = k /\ heap[x].data = owed[k] /\ heap[x].dirty =>
            /\ heap'[x] # NoPage /\ heap'[x].key = k
            /\ heap'[x].data = owed[k] /\ heap'[x].dirty

NewlyOwed(k) ==
    \E x \in Addrs : /\ heap'[x] # NoPage /\ heap'[x].key = k
                     /\ heap'[x].data = owed'[k] /\ heap'[x].dirty

LEMMA OwedKept ==
    ASSUME DirtyKept, \A k \in Keys : owed'[k] # Nothing => StillOwed(k) \/ NewlyOwed(k)
    PROVE  DirtyKept'
<1> SUFFICES ASSUME NEW k \in Keys, owed'[k] # Nothing PROVE NewlyOwed(k)
  BY DEF DirtyKept, Cached, NewlyOwed
<1>1. CASE StillOwed(k)
  <2>1. PICK x \in Cached : heap[x].key = k /\ heap[x].data = owed[k] /\ heap[x].dirty
    BY <1>1 DEF DirtyKept, StillOwed
  <2> QED BY <1>1, <2>1 DEF Cached, StillOwed, NewlyOwed
<1> QED BY <1>1

(* Nothing is owed by the pages that a step only adds or takes clean. *)
LEMMA SameDirty ==
    ASSUME DirtyKept, owed' = owed,
           \A x \in Cached : heap[x].dirty =>
               /\ heap'[x] # NoPage /\ heap'[x].key = heap[x].key
               /\ heap'[x].data = heap[x].data /\ heap'[x].dirty
    PROVE  DirtyKept'
<1>1. \A k \in Keys : StillOwed(k)
  BY DEF StillOwed
<1> QED BY <1>1, OwedKept

(* alloc_page: the new page is on its chain; another page is gone only if it was
   clean. *)
LEMMA InstallKeeps ==
    ASSUME CacheTypes, ChainsExact, NEW a \in Addrs \ Cached, NEW p \in Pages, Install(a, p)
    PROVE  /\ tail' \in Addrs
           /\ heap' \in [Addrs -> Pages \cup {NoPage}] /\ heap'[a] = p
           /\ chain' \in [Buckets -> Seq(Addrs)] /\ ChainsExact'
           /\ \A x \in Addrs \ {a} :
                \/ heap'[x] = heap[x]
                \/ heap'[x] = NoPage /\ heap[x] # NoPage /\ ~heap[x].dirty
<1> DEFINE t == IF tail = Null THEN a ELSE tail
           over == OverLimit(Cardinality(Cached) + 1) /\ t # a
           evict == over /\ Evictable(t)
           sameBucket == evict /\ Hash[heap[t].key] = Hash[p.key]
           remove == evict /\ ~sameBucket
           Old(b) == IF remove /\ b = Hash[heap[t].key] THEN Unlink(chain[b], t) ELSE chain[b]
<1>1. /\ tail' = t
      /\ halted' = IF over /\ heap[t] = NoPage THEN "use after free"
                   ELSE IF sameBucket THEN "deadlock" ELSE "no"
      /\ heap' = [heap EXCEPT ![a] = p, ![t] = IF remove THEN NoPage ELSE @]
      /\ chain' = [b \in DOMAIN chain |-> IF b = Hash[p.key] THEN <<a>> \o Old(b) ELSE Old(b)]
  BY DEF Install
<1>2. /\ a \in Addrs /\ t \in Addrs /\ heap[a] = NoPage
      /\ heap \in [Addrs -> Pages \cup {NoPage}] /\ chain \in [Buckets -> Seq(Addrs)]
      /\ DOMAIN chain = Buckets
  BY DEF CacheTypes, Cached
<1>3. p # NoPage /\ Hash[p.key] \in Buckets
  BY PageFields
<1>4. remove => /\ t # a /\ heap[t] # NoPage /\ ~heap[t].dirty
                /\ Hash[heap[t].key] \in Buckets /\ Hash[heap[t].key] # Hash[p.key]
  <2>1. remove => heap[t] \in Pages
    BY <1>2 DEF Evictable
  <2> QED BY <2>1, PageFields DEF Evictable
<1>6. \A b \in Buckets : remove /\ b = Hash[heap[t].key] => Old(b) = RemoveFirst(chain[b], t)
  BY DEF Unlink
<1>7. \A b \in Buckets : ~(remove /\ b = Hash[heap[t].key]) => Old(b) = chain[b]
  OBVIOUS
<1>8. \A b \in Buckets : chain'[b] = IF b = Hash[p.key] THEN <<a>> \o Old(b) ELSE Old(b)
  BY <1>1, <1>2
<1> HIDE DEF Old, over, evict, sameBucket, remove, t
<1>9. /\ heap' \in [Addrs -> Pages \cup {NoPage}] /\ heap'[a] = p
      /\ \A x \in Addrs \ {a} : heap'[x] = IF remove /\ x = t THEN NoPage ELSE heap[x]
  <2>1. CASE remove
    <3>1. t # a /\ heap' = [heap EXCEPT ![a] = p, ![t] = NoPage]
      BY <1>1, <1>4, <2>1
    <3> QED BY <1>2, <2>1, <3>1
  <2>2. CASE ~remove
    <3>1. heap' = [heap EXCEPT ![a] = p, ![t] = @]
      BY <1>1, <2>2
    <3> QED BY <1>2, <2>2, <3>1
  <2> QED BY <2>1, <2>2
<1>10. ASSUME NEW b \in Buckets
       PROVE  /\ Old(b) \in Seq(Addrs) /\ IsInjective(Old(b))
              /\ ToSet(Old(b)) = IF remove THEN PagesOf(heap, b) \ {t} ELSE PagesOf(heap, b)
  <2>1. chain[b] \in Seq(Addrs) /\ IsInjective(chain[b]) /\ ToSet(chain[b]) = PagesOf(heap, b)
    BY <1>2 DEF ChainsExact
  <2>2. CASE remove /\ b = Hash[heap[t].key]
    <3>1. t \in ToSet(chain[b])
      BY <1>2, <1>4, <2>1, <2>2 DEF PagesOf
    <3> QED BY <1>6, <2>1, <2>2, <3>1, RemoveElements
  <2>3. CASE ~(remove /\ b = Hash[heap[t].key])
    <3>1. remove => t \notin PagesOf(heap, b)
      BY <2>3 DEF PagesOf
    <3> QED BY <1>7, <2>1, <2>3, <3>1
  <2> QED BY <2>2, <2>3
<1>11. ASSUME NEW b \in Buckets
       PROVE  /\ chain'[b] \in Seq(Addrs) /\ IsInjective(chain'[b])
              /\ ToSet(chain'[b]) = PagesOf(heap', b)
  <2>1. CASE b = Hash[p.key]
    <3>1. PagesOf(heap', b) = (IF remove THEN PagesOf(heap, b) \ {t} ELSE PagesOf(heap, b)) \cup {a}
      BY <1>2, <1>3, <1>9, <2>1 DEF PagesOf
    <3>2. a \notin ToSet(Old(b))
      BY <1>2, <1>10 DEF PagesOf
    <3>3. /\ <<a>> \o Old(b) \in Seq(Addrs) /\ IsInjective(<<a>> \o Old(b))
          /\ ToSet(<<a>> \o Old(b)) = ToSet(Old(b)) \cup {a}
      BY <1>2, <1>10, <3>2, PushElements
    <3> QED BY <1>8, <1>10, <2>1, <3>1, <3>3
  <2>2. CASE b # Hash[p.key]
    <3>1. PagesOf(heap', b) = IF remove THEN PagesOf(heap, b) \ {t} ELSE PagesOf(heap, b)
      BY <1>2, <1>3, <1>4, <1>9, <2>2 DEF PagesOf
    <3> QED BY <1>8, <1>10, <2>2, <3>1
  <2> QED BY <2>1, <2>2
<1>12. chain' \in [Buckets -> Seq(Addrs)]
  <2>1. chain' = [b \in Buckets |-> chain'[b]]
    BY <1>1, <1>2
  <2> QED BY <1>11, <2>1
<1>13. ChainsExact'
  <2>1. \A b : PagesOf(heap, b)' = PagesOf(heap', b)
    BY DEF PagesOf
  <2> QED BY <1>11, <2>1 DEF ChainsExact
<1> QED BY <1>1, <1>2, <1>4, <1>9, <1>12, <1>13

(* The dirty pages of the file are finite in number, and the order in which
   writeback_ino meets them lists each of them once. *)
LEMMA DirtyOrderLists ==
    ASSUME CacheTypes, ChainsExact, NEW i, NEW s \in DirtyOrder(i)
    PROVE  /\ s \in Seq(Addrs) /\ IsInjective(s)
           /\ \A j \in DOMAIN s : s[j] \in DirtyPages(heap)
<1> DEFINE n == Cardinality(Dirty(i))
<1>1. Dirty(i) \subseteq DirtyPages(heap)
  <2>1. \A b \in Buckets : ToSet(chain[b]) = PagesOf(heap, b)
    BY DEF ChainsExact
  <2>2. DOMAIN chain = Buckets
    BY DEF CacheTypes
  <2> QED BY <2>1, <2>2 DEF Dirty, PagesOf, DirtyPages
<1>2. Dirty(i) \in SUBSET Addrs
  BY <1>1 DEF DirtyPages
<1>3. IsFiniteSet(Dirty(i)) /\ n \in Nat
  <2>1. IsFiniteSet(Dirty(i))
    BY <1>2, FS_Subset, PageCacheAssumption
  <2> QED BY <2>1, FS_CardinalityType
<1>4. s \in [1 .. n -> Dirty(i)] /\ ToSet(s) = Dirty(i)
  BY DEF DirtyOrder
<1> HIDE DEF n
<1>5. s \in Seq(Addrs) /\ DOMAIN s = 1 .. n
  <2>1. s \in [1 .. n -> Addrs]
    BY <1>2, <1>4
  <2> QED BY <1>3, <1>4, <2>1, SeqDef
<1>6. s \in Surjection(1 .. n, Dirty(i))
  BY <1>4 DEF Surjection, ToSet
<1>7. IsFiniteSet(1 .. n) /\ Cardinality(1 .. n) = Cardinality(Dirty(i))
  BY <1>3, FirstNumbers DEF n
<1>8. s \in Injection(1 .. n, Dirty(i))
  BY <1>6, <1>7, FS_SurjSameCardinalityImpliesInj
<1>9. IsInjective(s)
  BY <1>4, <1>8 DEF Injection, IsInjective
<1> QED BY <1>1, <1>4, <1>5, <1>9

(* Write-back of a list of dirty pages: those written become clean and their data
   is in the blocks allocated, so that nothing is owed for it any more, the count
   falls by as many as there are, and the chains stay. *)
LEMMA WriteOutKeeps ==
    ASSUME CacheInv, halted = "no", UNCHANGED <<halted, chain, tail>>,
           NEW s \in Seq(Addrs), IsInjective(s), \A j \in DOMAIN s : s[j] \in DirtyPages(heap),
           WriteOut(s)
    PROVE  CacheInv'
<1> DEFINE n == Stored(s)
           done == {s[j] : j \in 1 .. n}
<1>1. /\ disk' = [b \in DOMAIN disk |->
            IF b >= usedBlocks /\ b < usedBlocks + n THEN heap[s[b - usedBlocks + 1]].data ELSE disk[b]]
      /\ heap' = [a \in Addrs |-> IF a \in done THEN [heap[a] EXCEPT !.dirty = FALSE] ELSE heap[a]]
      /\ nrDirty' = nrDirty - n /\ usedBlocks' = usedBlocks + n
      /\ owed' = [k \in Keys |->
            IF \E j \in 1 .. n : heap[s[j]].key = k /\ disk'[usedBlocks + j - 1] = owed[k]
            THEN Nothing ELSE owed[k]]
  BY DEF WriteOut, Cleaned
<1>2. Len(s) \in Nat /\ DOMAIN s = 1 .. Len(s)
  BY LenProperties
<1>3. CacheTypes /\ ChainsExact /\ nrDirty \in Nat /\ usedBlocks \in 0 .. BlockCount /\ BlockCount \in Nat
      /\ disk \in [0 .. BlockCount - 1 -> Values] /\ heap \in [Addrs -> Pages \cup {NoPage}]
      /\ owed \in [Keys -> Data \cup {Nothing}]
  BY PageCacheAssumption DEF CacheInv, CacheTypes
<1>4. n \in Nat /\ n <= Len(s) /\ usedBlocks + n <= BlockCount
  BY <1>2, <1>3 DEF Stored
<1> HIDE DEF n
<1>5. \A j \in 1 .. n : j \in DOMAIN s /\ s[j] \in DirtyPages(heap)
  BY <1>2, <1>4
<1>6. done \subseteq DirtyPages(heap)
  BY <1>5
<1>7. \A x \in done : x \in Addrs /\ heap[x] \in Pages
  BY <1>3, <1>6 DEF DirtyPages
<1>8. IsFiniteSet(done) /\ Cardinality(done) = n
  <2>1. \A i, j \in 1 .. n : s[i] = s[j] => i = j
    BY <1>5 DEF IsInjective
  <2>2. \A x : x \in done <=> \E j \in 1 .. n : x = s[j]
    OBVIOUS
  <2> HIDE DEF done
  <2> QED BY <1>4, <2>1, <2>2, DistinctEntries
<1>9. \A j \in 1 .. n : disk'[usedBlocks + j - 1] = heap[s[j]].data
  <2> SUFFICES ASSUME NEW j \in 1 .. n PROVE disk'[usedBlocks + j - 1] = heap[s[j]].data
    OBVIOUS
  <2> DEFINE b == usedBlocks + j - 1
  <2>1. b \in 0 .. BlockCount - 1 /\ b >= usedBlocks /\ b < usedBlocks + n /\ b - usedBlocks + 1 = j
    BY <1>3, <1>4
  <2> HIDE DEF b
  <2>2. disk'[b] = heap[s[j]].data
    BY <1>1, <1>3, <2>1
  <2> QED BY <2>2 DEF b
<1>10. disk' \in [0 .. BlockCount - 1 -> Values]
  <2>1. ASSUME NEW b \in 0 .. BlockCount - 1, b >= usedBlocks, b < usedBlocks + n
        PROVE  heap[s[b - usedBlocks + 1]].data \in Values
    <3>1. b - usedBlocks + 1 \in 1 .. n
      BY <1>3, <1>4, <2>1
    <3>2. s[b - usedBlocks + 1] \in done
      BY <3>1
    <3>3. heap[s[b - usedBlocks + 1]] \in Pages
      BY <1>7, <3>2
    <3> QED BY <3>3, PageFields
  <2> HIDE DEF done
  <2> QED BY <1>1, <1>3, <2>1
<1>11. \A k \in Keys, x \in done : heap[x].key = k /\ heap[x].data = owed[k] => owed'[k] = Nothing
  BY <1>1, <1>9
<1> HIDE DEF done
<1>12. ASSUME NEW x \in Addrs
       PROVE  /\ heap'[x] \in Pages \cup {NoPage} /\ (heap'[x] = NoPage <=> heap[x] = NoPage)
              /\ heap'[x].key = heap[x].key
              /\ x \in done => heap'[x].dirty = FALSE
              /\ x \notin done => heap'[x] = heap[x]
  <2>1. CASE x \in done
    <3>1. heap[x] \in Pages /\ heap'[x] = [heap[x] EXCEPT !.dirty = FALSE]
      BY <1>1, <1>7, <2>1
    <3>2. heap'[x] \in Pages /\ heap'[x].key = heap[x].key /\ heap'[x].dirty = FALSE
      BY <3>1 DEF Pages
    <3> QED BY <2>1, <3>1, <3>2, PageFields
  <2>2. CASE x \notin done
    BY <1>1, <1>3, <2>2
  <2> QED BY <2>1, <2>2
<1>13. heap' \in [Addrs -> Pages \cup {NoPage}]
  <2>1. heap' = [x \in Addrs |-> heap'[x]]
    BY <1>1
  <2> QED BY <1>12, <2>1
<1>14. ChainsExact'
  BY <1>3, <1>12, SameKeys
<1>15. DirtyPages(heap') = DirtyPages(heap) \ done
  BY <1>12 DEF DirtyPages
<1>16. nrDirty' \in Nat /\ nrDirty' >= Cardinality(DirtyPages(heap'))
  <2>1. DirtyPages(heap) \cap done = done
    BY <1>6
  <2>2. Cardinality(DirtyPages(heap) \ done) = Cardinality(DirtyPages(heap)) - n
    BY <1>8, <2>1, DirtyFinite, FS_Difference
  <2>3. nrDirty >= Cardinality(DirtyPages(heap))
    BY DirtyCount DEF CacheInv
  <2>4. Cardinality(DirtyPages(heap)) \in Nat /\ Cardinality(DirtyPages(heap')) \in Nat
    BY DirtyFinite
  <2>5. nrDirty' = nrDirty - n /\ Cardinality(DirtyPages(heap')) = Cardinality(DirtyPages(heap)) - n
    BY <1>1, <1>15, <2>2
  <2>6. nrDirty - n \in Nat /\ nrDirty - n >= Cardinality(DirtyPages(heap)) - n
    BY <1>3, <1>4, <2>3, <2>4, <2>5
  <2> QED BY <2>5, <2>6
<1>17. CacheInv'
  <2>1. DirtyCounted'
    BY <1>16, DirtyCountNext
  <2>2. usedBlocks' \in 0 .. BlockCount
    BY <1>1, <1>3, <1>4
  <2>3. owed' \in [Keys -> Data \cup {Nothing}] /\ \A k \in Keys : owed'[k] \in {owed[k], Nothing}
    BY <1>1, <1>3
  <2>4. CacheTypes'
    BY <1>3, <1>10, <1>13, <1>16, <2>2, <2>3 DEF CacheTypes
  <2>5. DirtyKept'
    <3>1. \A x \in Cached \ done : heap'[x] = heap[x] /\ heap'[x] # NoPage
      BY <1>12 DEF Cached
    <3>2. \A k \in Keys : owed'[k] # Nothing => StillOwed(k)
      BY <1>11, <2>3, <3>1 DEF StillOwed
    <3> QED BY <3>2, OwedKept DEF CacheInv
  <2> QED BY <1>14, <2>1, <2>4, <2>5 DEF CacheInv
<1> QED BY <1>17

-----------------------------------------------------------------------------
(* A new page: the count is one more if it is dirty. *)
LEMMA InstallStep ==
    ASSUME CacheInv, halted = "no", NEW a \in Addrs \ Cached, NEW p \in Pages, Install(a, p),
           usedBlocks' = usedBlocks, disk' = disk,
           nrDirty' = IF p.dirty /\ halted' = "no" THEN nrDirty + 1 ELSE nrDirty,
           \/ owed' = owed
           \/ \E k \in Keys, v \in Data : p = NewPage(k, v, FALSE, TRUE) /\ owed' = [owed EXCEPT ![k] = v]
    PROVE  CacheInv'
<1>1. CacheTypes /\ ChainsExact /\ nrDirty \in Nat
  BY DEF CacheInv, CacheTypes
<1>2. /\ tail' \in Addrs
      /\ heap' \in [Addrs -> Pages \cup {NoPage}] /\ heap'[a] = p
      /\ chain' \in [Buckets -> Seq(Addrs)] /\ ChainsExact'
      /\ \A x \in Addrs \ {a} :
           \/ heap'[x] = heap[x]
           \/ heap'[x] = NoPage /\ heap[x] # NoPage /\ ~heap[x].dirty
  BY <1>1, InstallKeeps
<1>3. p # NoPage /\ p.dirty \in BOOLEAN
  BY PageFields
<1>4. a \in Addrs /\ heap[a] = NoPage
  BY DEF Cached
<1>5. nrDirty' \in Nat
  BY <1>1
<1>6. CacheTypes'
  <2>1. owed' \in [Keys -> Data \cup {Nothing}]
    BY <1>1 DEF CacheTypes
  <2> QED BY <1>1, <1>2, <1>5, <2>1 DEF CacheTypes
<1>7. DirtyCounted'
  <2> SUFFICES ASSUME halted' = "no" PROVE nrDirty' >= Cardinality(DirtyPages(heap'))
    BY DirtyCountNext
  <2>1. nrDirty >= Cardinality(DirtyPages(heap)) /\ Cardinality(DirtyPages(heap)) \in Nat
    BY DirtyCount, DirtyFinite DEF CacheInv
  <2>2. CASE p.dirty
    <3>1. DirtyPages(heap') \in SUBSET (DirtyPages(heap) \cup {a})
      BY <1>2 DEF DirtyPages
    <3>2. /\ IsFiniteSet(DirtyPages(heap) \cup {a})
          /\ Cardinality(DirtyPages(heap) \cup {a}) <= Cardinality(DirtyPages(heap)) + 1
      <4>1. /\ IsFiniteSet(DirtyPages(heap) \cup {a})
            /\ Cardinality(DirtyPages(heap) \cup {a}) =
                IF a \in DirtyPages(heap) THEN Cardinality(DirtyPages(heap))
                ELSE Cardinality(DirtyPages(heap)) + 1
        BY DirtyFinite, FS_AddElement
      <4> QED BY <2>1, <4>1
    <3>3. Cardinality(DirtyPages(heap')) <= Cardinality(DirtyPages(heap) \cup {a})
      BY <3>1, <3>2, FS_Subset
    <3>4. Cardinality(DirtyPages(heap')) \in Nat /\ Cardinality(DirtyPages(heap) \cup {a}) \in Nat
      BY <3>2, DirtyFinite, FS_CardinalityType
    <3>5. nrDirty' = nrDirty + 1
      BY <2>2
    <3> QED BY <1>1, <2>1, <3>2, <3>3, <3>4, <3>5
  <2>3. CASE ~p.dirty
    <3>1. DirtyPages(heap') \in SUBSET DirtyPages(heap)
      BY <1>2, <2>3 DEF DirtyPages
    <3>2. Cardinality(DirtyPages(heap')) <= Cardinality(DirtyPages(heap))
      BY <3>1, DirtyFinite, FS_Subset
    <3>3. Cardinality(DirtyPages(heap')) \in Nat
      BY DirtyFinite
    <3>4. nrDirty' = nrDirty
      BY <2>3
    <3> QED BY <1>1, <2>1, <3>2, <3>3, <3>4
  <2> QED BY <2>2, <2>3
<1>8. DirtyKept'
  <2>1. \A x \in Cached : heap[x].dirty => heap'[x] = heap[x] /\ heap'[x] # NoPage
    BY <1>2, <1>4 DEF Cached
  <2>2. CASE owed' = owed
    BY <2>1, <2>2, SameDirty DEF CacheInv
  <2>3. ASSUME NEW k \in Keys, NEW v \in Data, p = NewPage(k, v, FALSE, TRUE),
               owed' = [owed EXCEPT ![k] = v]
        PROVE  DirtyKept'
    <3>1. p.key = k /\ p.data = v /\ p.dirty
      BY <2>3 DEF NewPage
    <3>2. owed'[k] = v /\ \A l \in Keys \ {k} : owed'[l] = owed[l]
      BY <1>1, <2>3 DEF CacheTypes
    <3>3. NewlyOwed(k) /\ \A l \in Keys \ {k} : StillOwed(l)
      BY <1>2, <1>3, <1>4, <2>1, <3>1, <3>2 DEF StillOwed, NewlyOwed
    <3>4. \A l \in Keys : StillOwed(l) \/ NewlyOwed(l)
      BY <3>3
    <3> QED BY <3>4, OwedKept DEF CacheInv
  <2> QED BY <2>2, <2>3
<1> QED BY <1>2, <1>6, <1>7, <1>8 DEF CacheInv

(* A step that leaves the cache alone, and at most writes one block directly. *)
LEMMA NoCacheStep ==
    ASSUME CacheInv, halted = "no", UNCHANGED <<cache, halted, usedBlocks, owed>>,
           disk' \in [0 .. BlockCount - 1 -> Values]
    PROVE  CacheInv'
<1>1. heap' = heap /\ chain' = chain /\ tail' = tail /\ nrDirty' = nrDirty /\ halted' = "no"
      /\ usedBlocks' = usedBlocks /\ owed' = owed
  BY DEF cache
<1>2. CacheTypes'
  BY <1>1 DEF CacheInv, CacheTypes
<1>3. ChainsExact'
  BY <1>1, SameKeys DEF CacheInv
<1>4. DirtyCounted'
  BY <1>1, DirtyCount, DirtyCountNext DEF CacheInv
<1>5. DirtyKept'
  BY <1>1, SameDirty DEF CacheInv, Cached
<1> QED BY <1>2, <1>3, <1>4, <1>5 DEF CacheInv

LEMMA ReadFileStep ==
    ASSUME CacheInv, NEW k \in Keys, NEW v, ReadFile(k, v)
    PROVE  CacheInv'
<1>1. halted = "no" /\ usedBlocks' = usedBlocks /\ disk' = disk /\ owed' = owed
  BY DEF ReadFile
<1>2. disk \in [0 .. BlockCount - 1 -> Values] /\ Device(k) \in Values
  BY PageCacheAssumption DEF CacheInv, CacheTypes, Device, Keys
<1>3. CASE UNCHANGED <<cache, halted>>
  BY <1>1, <1>2, <1>3, NoCacheStep
<1>4. CASE ~UNCHANGED <<cache, halted>>
  <2>1. nrDirty' = nrDirty /\ \E a \in Addrs \ Cached : Install(a, NewPage(k, Device(k), TRUE, FALSE))
    BY <1>4 DEF ReadFile, CacheRead
  <2> DEFINE p == NewPage(k, Device(k), TRUE, FALSE)
  <2>2. PICK a \in Addrs \ Cached : Install(a, p)
    BY <2>1
  <2>3. p \in Pages /\ p.dirty = FALSE
    BY <1>2, NewPageFields
  <2> HIDE DEF p
  <2> QED BY <1>1, <2>1, <2>2, <2>3, InstallStep
<1> QED BY <1>3, <1>4

(* A write to a page of the cache makes it dirty, and counts it if it was not. *)
LEMMA WriteHitStep ==
    ASSUME CacheInv, halted = "no", NEW k \in Keys, NEW v \in Data, Hits(k) # {},
           heap' = [heap EXCEPT ![Found(k)].data = v, ![Found(k)].dirty = TRUE],
           MarkDirty(Found(k)), UNCHANGED <<chain, tail, halted, usedBlocks, disk>>,
           owed' = [owed EXCEPT ![k] = v]
    PROVE  CacheInv'
<1> DEFINE f == Found(k)
<1>1. CacheTypes /\ ChainsExact /\ nrDirty \in Nat /\ heap \in [Addrs -> Pages \cup {NoPage}]
  BY DEF CacheInv, CacheTypes
<1>2. f \in Addrs /\ heap[f] \in Pages /\ heap[f].key = k
  BY <1>1, LookupFinds
<1>3. /\ heap' = [heap EXCEPT ![f].data = v, ![f].dirty = TRUE]
      /\ nrDirty' = IF heap[f].dirty THEN nrDirty ELSE nrDirty + 1
  BY DEF MarkDirty
<1>4. heap[f] # NoPage /\ heap[f].dirty \in BOOLEAN
  BY <1>2, PageFields
<1> HIDE DEF f
<1>5. /\ heap'[f] \in Pages /\ heap'[f].key = heap[f].key
      /\ heap'[f].data = v /\ heap'[f].dirty = TRUE
  <2>1. heap'[f] = [[heap[f] EXCEPT !.data = v] EXCEPT !.dirty = TRUE]
    BY <1>1, <1>2, <1>3
  <2> DEFINE q == [heap[f] EXCEPT !.data = v]
  <2>2. q \in Pages /\ q.key = heap[f].key /\ q.data = v
    BY <1>2 DEF Pages, Values
  <2>3. heap'[f] = [q EXCEPT !.dirty = TRUE]
    BY <2>1
  <2> HIDE DEF q
  <2>4. heap'[f] \in Pages /\ heap'[f].key = q.key /\ heap'[f].data = q.data /\ heap'[f].dirty = TRUE
    BY <2>2, <2>3, MarkedPage
  <2> QED BY <2>2, <2>4
<1>6. heap' \in [Addrs -> Pages \cup {NoPage}] /\ \A x \in Addrs \ {f} : heap'[x] = heap[x]
  <2>1. \A x \in Addrs \ {f} : heap'[x] = heap[x]
    BY <1>1, <1>2, <1>3
  <2>2. heap' = [x \in Addrs |-> heap'[x]]
    BY <1>1, <1>3
  <2> QED BY <1>1, <1>5, <2>1, <2>2
<1>7. \A x \in Addrs : (heap'[x] = NoPage <=> heap[x] = NoPage) /\ heap'[x].key = heap[x].key
  <2>1. heap'[f] # NoPage
    BY <1>5, PageFields
  <2> QED BY <1>4, <1>5, <1>6, <2>1
<1>8. ChainsExact'
  BY <1>1, <1>7, SameKeys
<1>9. DirtyPages(heap') = DirtyPages(heap) \cup {f}
  <2>1. heap'[f] # NoPage /\ heap'[f].dirty /\ f \in Addrs
    BY <1>2, <1>4, <1>5, <1>7
  <2>2. \A x \in Addrs \ {f} : heap'[x] = heap[x]
    BY <1>6
  <2> QED BY <2>1, <2>2 DEF DirtyPages
<1>10. f \in DirtyPages(heap) <=> heap[f].dirty
  BY <1>2, <1>4 DEF DirtyPages
<1>11. nrDirty' \in Nat /\ nrDirty' >= Cardinality(DirtyPages(heap'))
  <2>1. Cardinality(DirtyPages(heap')) =
            IF heap[f].dirty THEN Cardinality(DirtyPages(heap)) ELSE Cardinality(DirtyPages(heap)) + 1
    BY <1>9, <1>10, DirtyFinite, FS_AddElement
  <2>2. nrDirty >= Cardinality(DirtyPages(heap)) /\ Cardinality(DirtyPages(heap)) \in Nat
    BY DirtyCount, DirtyFinite DEF CacheInv
  <2> QED BY <1>1, <1>3, <2>1, <2>2
<1>12. CacheTypes'
  <2>1. owed' \in [Keys -> Data \cup {Nothing}]
    BY <1>1 DEF CacheTypes
  <2> QED BY <1>1, <1>6, <1>11, <2>1 DEF CacheTypes
<1>13. DirtyCounted'
  BY <1>11, DirtyCountNext
<1>14. DirtyKept'
  <2>1. owed'[k] = v /\ \A l \in Keys \ {k} : owed'[l] = owed[l]
    BY <1>1 DEF CacheTypes
  <2>2. heap'[f] # NoPage /\ heap'[f].key = k /\ heap'[f].data = v /\ heap'[f].dirty
    BY <1>2, <1>4, <1>5, <1>7
  <2>3. \A x \in Cached : heap[x].key # k => heap'[x] = heap[x] /\ heap[x] # NoPage
    BY <1>2, <1>6 DEF Cached
  <2>4. NewlyOwed(k) /\ \A l \in Keys \ {k} : StillOwed(l)
    BY <1>2, <2>1, <2>2, <2>3 DEF StillOwed, NewlyOwed
  <2>5. \A l \in Keys : StillOwed(l) \/ NewlyOwed(l)
    BY <2>4
  <2> QED BY <2>5, OwedKept DEF CacheInv
<1> QED BY <1>8, <1>12, <1>13, <1>14 DEF CacheInv

LEMMA WriteFileStep ==
    ASSUME CacheInv, NEW k \in Keys, NEW v \in Data, WriteFile(k, v)
    PROVE  CacheInv'
<1>1. halted = "no" /\ usedBlocks' = usedBlocks /\ disk \in [0 .. BlockCount - 1 -> Values] /\ v \in Values
  BY DEF WriteFile, CacheInv, CacheTypes, Values
<1>2. CASE /\ Hits(k) # {} /\ MarkDirty(Found(k)) /\ UNCHANGED <<chain, tail, halted, disk>>
           /\ heap' = [heap EXCEPT ![Found(k)].data = v, ![Found(k)].dirty = TRUE]
           /\ owed' = [owed EXCEPT ![k] = v]
  BY <1>1, <1>2, WriteHitStep
<1>3. CASE /\ nrDirty' = (IF halted' = "no" THEN nrDirty + 1 ELSE nrDirty) /\ UNCHANGED disk
           /\ \E a \in Addrs \ Cached : Install(a, NewPage(k, v, FALSE, TRUE))
           /\ owed' = owed \/ owed' = [owed EXCEPT ![k] = v]
  <2> DEFINE p == NewPage(k, v, FALSE, TRUE)
  <2>1. PICK a \in Addrs \ Cached : Install(a, p)
    BY <1>3
  <2>2. p \in Pages /\ p.dirty = TRUE
    BY <1>1, NewPageFields
  <2>4. \/ owed' = owed
        \/ \E l \in Keys, u \in Data : p = NewPage(l, u, FALSE, TRUE) /\ owed' = [owed EXCEPT ![l] = u]
    BY <1>3
  <2> HIDE DEF p
  <2>3. nrDirty' = IF p.dirty /\ halted' = "no" THEN nrDirty + 1 ELSE nrDirty
    BY <1>3, <2>2
  <2> QED BY <1>1, <1>3, <2>1, <2>2, <2>3, <2>4, InstallStep
<1>4. CASE disk' = [disk EXCEPT ![k[2]] = v] /\ UNCHANGED <<cache, halted, owed>>
  <2>1. disk' \in [0 .. BlockCount - 1 -> Values]
    BY <1>1, <1>4
  <2> QED BY <1>1, <1>4, <2>1, NoCacheStep
<1> QED BY <1>2, <1>3, <1>4 DEF WriteFile, CacheWrite

LEMMA FsyncStep ==
    ASSUME CacheInv, NEW i \in Inos, Fsync(i)
    PROVE  CacheInv'
<1>1. halted = "no" /\ UNCHANGED <<halted, chain, tail>>
  BY DEF Fsync
<1>2. PICK s \in DirtyOrder(i) : WriteOut(s)
  BY DEF Fsync
<1>3. s \in Seq(Addrs) /\ IsInjective(s) /\ \A j \in DOMAIN s : s[j] \in DirtyPages(heap)
  BY DirtyOrderLists DEF CacheInv
<1> QED BY <1>1, <1>2, <1>3, WriteOutKeeps

LEMMA SyncPageStep ==
    ASSUME CacheInv, NEW k \in Keys, SyncPage(k)
    PROVE  CacheInv'
<1> DEFINE f == Found(k)
<1>1. halted = "no" /\ UNCHANGED <<halted, chain, tail>> /\ Hits(k) # {} /\ heap[f].dirty
  BY DEF SyncPage
<1>2. CacheTypes /\ ChainsExact /\ heap \in [Addrs -> Pages \cup {NoPage}]
  BY DEF CacheInv, CacheTypes
<1>3. f \in Addrs /\ heap[f] \in Pages
  BY <1>1, <1>2, LookupFinds
<1>4. heap[f] # NoPage
  BY <1>3, PageFields
<1>5. CASE WriteOut(<<f>>)
  <2> HIDE DEF f
  <2>1. <<f>> \in Seq(Addrs) /\ DOMAIN <<f>> = {1} /\ <<f>>[1] = f
    BY <1>3
  <2>2. IsInjective(<<f>>)
    BY <2>1 DEF IsInjective
  <2>3. \A j \in DOMAIN <<f>> : <<f>>[j] \in DirtyPages(heap)
    BY <1>1, <1>3, <1>4, <2>1 DEF DirtyPages
  <2> QED BY <1>1, <1>5, <2>1, <2>2, <2>3, WriteOutKeeps
<1>6. CASE /\ heap' = [heap EXCEPT ![f].pinned = TRUE] /\ UNCHANGED <<nrDirty, disk, usedBlocks, owed>>
  <2> HIDE DEF f
  <2>1. heap'[f] = [heap[f] EXCEPT !.pinned = TRUE] /\ \A x \in Addrs \ {f} : heap'[x] = heap[x]
    BY <1>2, <1>3, <1>6
  <2>2. heap'[f] \in Pages /\ heap'[f].key = heap[f].key /\ heap'[f].dirty = heap[f].dirty
        /\ heap'[f].data = heap[f].data
    BY <1>3, <2>1 DEF Pages
  <2>3. heap'[f] # NoPage
    BY <2>2, PageFields
  <2>4. \A x \in Addrs : /\ heap'[x] = NoPage <=> heap[x] = NoPage
                         /\ heap'[x].key = heap[x].key
                         /\ heap[x] # NoPage => heap'[x].dirty = heap[x].dirty /\ heap'[x].data = heap[x].data
    BY <1>4, <2>1, <2>2, <2>3
  <2>5. heap' \in [Addrs -> Pages \cup {NoPage}]
    <3>1. heap' = [x \in Addrs |-> heap'[x]]
      BY <1>2, <1>6
    <3> QED BY <1>2, <2>1, <2>2, <3>1
  <2>6. CacheTypes'
    BY <1>1, <1>2, <1>6, <2>5 DEF CacheTypes
  <2>7. ChainsExact'
    BY <1>1, <1>2, <2>4, SameKeys
  <2>8. DirtyPages(heap') = DirtyPages(heap)
    BY <2>4 DEF DirtyPages
  <2>9. DirtyCounted'
    BY <1>1, <1>6, <2>8, DirtyCount, DirtyCountNext DEF CacheInv
  <2>10. DirtyKept'
    BY <1>6, <2>4, SameDirty DEF CacheInv, Cached
  <2> QED BY <2>6, <2>7, <2>9, <2>10 DEF CacheInv
<1> QED BY <1>5, <1>6 DEF SyncPage

(* truncate_pages leaves the pages on their chains and the count as it is. *)
LEMMA TruncateStep ==
    ASSUME CacheInv, NEW i \in Inos, NEW n \in Indices, Truncate(i, n)
    PROVE  CacheInv'
<1> DEFINE cut == {a \in Cached : heap[a].key[1] = i /\ heap[a].key[2] >= n}
<1>1. /\ halted = "no" /\ UNCHANGED <<chain, tail, nrDirty, disk, usedBlocks, halted>>
      /\ heap' = [a \in Addrs |-> IF a \in cut
            THEN [heap[a] EXCEPT !.upToDate = FALSE, !.dirty = FALSE, !.locked = FALSE] ELSE heap[a]]
      /\ owed' = [k \in Keys |-> IF k[1] = i /\ k[2] >= n THEN Nothing ELSE owed[k]]
  BY DEF Truncate
<1>2. CacheTypes /\ ChainsExact /\ nrDirty \in Nat /\ heap \in [Addrs -> Pages \cup {NoPage}]
  BY DEF CacheInv, CacheTypes
<1>3. /\ \A x \in cut : x \in Addrs /\ heap[x] \in Pages
      /\ \A x \in Cached \ cut : ~(heap[x].key[1] = i /\ heap[x].key[2] >= n)
  BY <1>2 DEF Cached
<1> HIDE DEF cut
<1>4. ASSUME NEW x \in Addrs
      PROVE  /\ heap'[x] \in Pages \cup {NoPage} /\ (heap'[x] = NoPage <=> heap[x] = NoPage)
             /\ heap'[x].key = heap[x].key
             /\ heap'[x] = heap[x] \/ (x \in cut /\ heap'[x].dirty = FALSE)
  <2>1. CASE x \in cut
    <3>1. heap[x] \in Pages /\ heap'[x] = [heap[x] EXCEPT !.upToDate = FALSE, !.dirty = FALSE, !.locked = FALSE]
      BY <1>1, <1>3, <2>1
    <3>2. heap'[x] \in Pages /\ heap'[x].key = heap[x].key /\ heap'[x].dirty = FALSE
      BY <3>1, ClearedPage
    <3> QED BY <2>1, <3>1, <3>2, PageFields
  <2>2. CASE x \notin cut
    BY <1>1, <1>2, <2>2
  <2> QED BY <2>1, <2>2
<1>5. heap' \in [Addrs -> Pages \cup {NoPage}]
  <2>1. heap' = [x \in Addrs |-> heap'[x]]
    BY <1>1
  <2> QED BY <1>4, <2>1
<1>6. ChainsExact'
  BY <1>1, <1>2, <1>4, SameKeys
<1>7. CacheTypes'
  <2>1. owed' \in [Keys -> Data \cup {Nothing}]
    BY <1>1, <1>2 DEF CacheTypes
  <2> QED BY <1>1, <1>2, <1>5, <2>1 DEF CacheTypes
<1>8. DirtyCounted'
  <2>1. DirtyPages(heap') \in SUBSET DirtyPages(heap)
    BY <1>4 DEF DirtyPages
  <2>2. /\ Cardinality(DirtyPages(heap')) <= Cardinality(DirtyPages(heap))
        /\ Cardinality(DirtyPages(heap')) \in Nat /\ Cardinality(DirtyPages(heap)) \in Nat
    <3>1. IsFiniteSet(DirtyPages(heap))
      BY DirtyFinite
    <3>2. Cardinality(DirtyPages(heap')) <= Cardinality(DirtyPages(heap))
      BY <2>1, <3>1, FS_Subset
    <3> QED BY <3>2, DirtyFinite
  <2>3. nrDirty >= Cardinality(DirtyPages(heap))
    BY <1>1, DirtyCount DEF CacheInv
  <2>4. nrDirty' >= Cardinality(DirtyPages(heap'))
    <3>1. nrDirty' = nrDirty /\ nrDirty \in Nat
      BY <1>1, <1>2
    <3> QED BY <2>2, <2>3, <3>1
  <2> QED BY <2>4, DirtyCountNext
<1>9. DirtyKept'
  <2>1. \A k \in Keys : owed'[k] # Nothing => owed'[k] = owed[k] /\ ~(k[1] = i /\ k[2] >= n)
    BY <1>1
  <2>2. \A x \in Cached \ cut : heap'[x] = heap[x] /\ heap'[x] # NoPage
    BY <1>1 DEF Cached
  <2>3. \A x \in cut : heap[x].key[1] = i /\ heap[x].key[2] >= n
    BY DEF cut
  <2>4. \A k \in Keys : owed'[k] # Nothing => StillOwed(k)
    BY <2>1, <2>2, <2>3 DEF StillOwed
  <2> QED BY <2>4, OwedKept DEF CacheInv
<1> QED BY <1>6, <1>7, <1>8, <1>9 DEF CacheInv

-----------------------------------------------------------------------------
(* Every step of the cache preserves CacheInv. *)
LEMMA NextSound == CacheInv /\ CacheNext => CacheInv'
<1> SUFFICES ASSUME CacheInv, CacheNext PROVE CacheInv'
  OBVIOUS
<1>1. ASSUME NEW k \in Keys, NEW v, ReadFile(k, v) PROVE CacheInv'
  BY <1>1, ReadFileStep
<1>2. ASSUME NEW k \in Keys, SyncPage(k) PROVE CacheInv'
  BY <1>2, SyncPageStep
<1>3. ASSUME NEW k \in Keys, NEW v \in Data, WriteFile(k, v) PROVE CacheInv'
  BY <1>3, WriteFileStep
<1>4. ASSUME NEW i \in Inos, Fsync(i) PROVE CacheInv'
  BY <1>4, FsyncStep
<1>5. ASSUME NEW i \in Inos, NEW n \in Indices, Truncate(i, n) PROVE CacheInv'
  BY <1>5, TruncateStep
<1> QED BY <1>1, <1>2, <1>3, <1>4, <1>5 DEF CacheNext

LEMMA InitSound == CacheInit => CacheInv
<1> SUFFICES ASSUME CacheInit PROVE CacheInv
  OBVIOUS
<1>1. \A x \in Addrs : heap[x] = NoPage
  BY DEF CacheInit
<1>2. CacheTypes
  BY PageCacheAssumption DEF CacheInit, CacheTypes, Buckets, Values
<1>3. ChainsExact
  <2> SUFFICES ASSUME NEW b \in Buckets
               PROVE  IsInjective(chain[b]) /\ ToSet(chain[b]) = PagesOf(heap, b)
    BY DEF ChainsExact
  <2>1. chain[b] = <<>>
    BY DEF CacheInit, Buckets
  <2>2. PagesOf(heap, b) = {}
    BY <1>1 DEF PagesOf
  <2> QED BY <2>1, <2>2 DEF IsInjective, ToSet
<1>4. DirtyCounted
  <2>1. DirtyPages(heap) = {}
    BY <1>1 DEF DirtyPages
  <2>2. Cardinality(DirtyPages(heap)) = 0 /\ nrDirty = 0
    BY <2>1, FS_EmptySet DEF CacheInit
  <2> QED BY <2>2, DirtyCount
<1>5. DirtyKept
  BY DEF CacheInit, DirtyKept
<1> QED BY <1>2, <1>3, <1>4, <1>5 DEF CacheInv

LEMMA StutterSound == CacheInv /\ UNCHANGED cacheVars => CacheInv'
<1> SUFFICES ASSUME CacheInv, UNCHANGED cacheVars PROVE CacheInv'
  OBVIOUS
<1>1. heap' = heap /\ chain' = chain /\ tail' = tail /\ nrDirty' = nrDirty /\ usedBlocks' = usedBlocks
      /\ disk' = disk /\ halted' = halted /\ owed' = owed
  BY DEF cacheVars, cache
<1>2. CacheTypes'
  BY <1>1 DEF CacheInv, CacheTypes
<1>3. ChainsExact'
  BY <1>1, SameKeys DEF CacheInv
<1>4. DirtyCounted'
  BY <1>1, DirtyCount, DirtyCountNext DEF CacheInv
<1>5. DirtyKept'
  BY <1>1, SameDirty DEF CacheInv, Cached
<1> QED BY <1>2, <1>3, <1>4, <1>5 DEF CacheInv

(* The inductive invariant of the page cache: chains that list exactly the
   allocated pages of their bucket, a count of dirty pages that is no smaller than
   their number, and a dirty page for every write that is still owed. *)
THEOREM CacheInvariant == CacheSpec => []CacheInv
<1>1. CacheInv /\ [CacheNext]_cacheVars => CacheInv'
  BY NextSound, StutterSound
<1> QED BY <1>1, InitSound, PTL DEF CacheSpec

(* ChainsSound: no chain leads to a freed page or to a page of another bucket, and
   no allocated page is off the chains, whatever alloc_page evicts. *)
THEOREM CacheChainsSound == CacheSpec => []ChainsSound
<1>1. CacheInv => ChainsSound
  <2> SUFFICES ASSUME CacheInv PROVE ChainsSound
    OBVIOUS
  <2>1. DOMAIN chain = Buckets /\ heap \in [Addrs -> Pages \cup {NoPage}]
    BY DEF CacheInv, CacheTypes
  <2>2. \A b \in Buckets : IsInjective(chain[b]) /\ ToSet(chain[b]) = PagesOf(heap, b)
    BY DEF CacheInv, ChainsExact
  <2>3. ASSUME NEW b \in Buckets, NEW j \in DOMAIN chain[b]
        PROVE  chain[b][j] \in Cached /\ Hash[heap[chain[b][j]].key] = b
    <3>1. chain[b][j] \in ToSet(chain[b])
      BY DEF ToSet
    <3> QED BY <2>2, <3>1 DEF PagesOf, Cached
  <2>4. ASSUME NEW a \in Cached PROVE \E b \in Buckets : a \in ToSet(chain[b])
    <3>1. a \in Addrs /\ heap[a] # NoPage /\ heap[a] \in Pages
      BY <2>1 DEF Cached
    <3>2. Hash[heap[a].key] \in Buckets
      BY <3>1, PageFields
    <3>3. a \in PagesOf(heap, Hash[heap[a].key])
      BY <3>1 DEF PagesOf
    <3> QED BY <2>2, <3>2, <3>3
  <2> QED BY <2>1, <2>2, <2>3, <2>4 DEF ChainsSound
<1> QED BY <1>1, CacheInvariant, PTL

(* DirtyCounted: writing dirty pages back never takes nr_dirty below zero. *)
THEOREM CacheDirtyCounted == CacheSpec => []DirtyCounted
<1>1. CacheInv => DirtyCounted
  BY DEF CacheInv
<1> QED BY <1>1, CacheInvariant, PTL

(* DirtyKept: what was last written to a page through the cache stays in a dirty
   page of it until it is in a block or truncate_pages gives it up, whatever
   evict_lru and a write-back without enough blocks do. *)
THEOREM CacheDirtyKept == CacheSpec => []DirtyKept
<1>1. CacheInv => DirtyKept
  BY DEF CacheInv
<1> QED BY <1>1, CacheInvariant, PTL
=============================================================================
