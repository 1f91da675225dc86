---------------------------- MODULE MemoryProofs ----------------------------
(* The kernel's memory: the page allocator neither loses a page nor gives one    *)
(* out twice and only ever has single pages, and the slab caches on top of it    *)
(* neither lose a slot nor give one out twice, for every set of zones and usable *)
(* pages, every order and every set of caches. And the pool of the font engine,  *)
(* whose blocks keep their data, for every size of the pool, of the memory       *)
(* object and of the blocks, every alignment and any set of clients.             *)
EXTENDS Slab, FontArena, ListLemmas

-----------------------------------------------------------------------------
(* The page allocator. *)

(* Free memory stays cut into single pages: init pushes pages one by one, and
   free_pages cannot merge what it cannot recognise, so no sequence of calls
   ever makes a run of pages, and every alloc_pages of more than one page fails.
   A page of the page cache and a thread's stack are such requests. *)
SinglePagesOnly == \A b \in FreeBlocks \cup held : b[2] = 0

FreeSingles == {p \in Usable : \E z \in DOMAIN Zones : p \in ToSet(lists[z][0])}

(* Only single pages, because no descriptor ever reads as a free buddy; a page is
   on the list of its own zone, once, or it is held. *)
PmmInv ==
    /\ lists \in [DOMAIN Zones -> [Orders -> Seq(Nat)]]
    /\ \A z \in DOMAIN Zones :
          /\ \A o \in Orders \ {0} : lists[z][o] = <<>>
          /\ IsInjective(lists[z][0])
          /\ ToSet(lists[z][0]) \subseteq Usable \cap Zones[z]
    /\ desc \in [Pages -> [buddy : {FALSE}, order : Nat]]
    /\ held = {<<p, 0>> : p \in Usable \ FreeSingles}
    /\ freePages = Cardinality(FreeSingles)

LEMMA PmmConstants ==
    /\ MaxOrder \in Nat /\ 0 \in Orders /\ Orders \subseteq Nat
    /\ DOMAIN Zones \subseteq Nat /\ Pages \subseteq Nat /\ Usable \subseteq Pages
    /\ \A z \in DOMAIN Zones : Zones[z] \subseteq Nat
<1>1. MaxOrder \in Nat /\ Zones \in Seq(SUBSET Nat) /\ Usable \subseteq Pages
  BY PmmAssumption DEF Pages
<1>2. DOMAIN Zones = 1 .. Len(Zones) /\ Len(Zones) \in Nat
      /\ \A z \in DOMAIN Zones : Zones[z] \subseteq Nat
  BY <1>1, LenProperties
<1> QED BY <1>1, <1>2 DEF Orders, Pages

(* alloc_pages finds no more than single pages. *)
LEMMA SourceSingle ==
    ASSUME PmmInv, NEW order \in Orders, Source(order) # <<>>
    PROVE  order = 0 /\ \E z \in DOMAIN Zones : Source(order) = <<z, 0>> /\ lists[z][0] # <<>>
<1> DEFINE from(z) == {o \in order .. MaxOrder : lists[z][o] # <<>>}
           zones == {z \in DOMAIN Zones : from(z) # {}}
<1>1. zones # {} /\ Source(order) = <<Min(zones), Min(from(Min(zones)))>>
  BY DEF Source
<1>2. Min(zones) \in zones
  <2>1. zones \in SUBSET Nat
    BY PmmConstants
  <2> QED BY <1>1, <2>1, LeastNat
<1>3. PICK z \in DOMAIN Zones : z = Min(zones) /\ from(z) # {}
  BY <1>2
<1>4. from(z) \subseteq {0} /\ order = 0
  <2>1. ASSUME NEW o \in from(z) PROVE o = 0 /\ order = 0
    <3>1. o \in Orders /\ lists[z][o] # <<>> /\ order <= o /\ o \in Nat /\ order \in Nat
      BY PmmConstants DEF Orders
    <3> QED BY <3>1, PmmConstants DEF PmmInv
  <2> QED BY <1>3, <2>1
<1>5. Min(from(z)) = 0 /\ lists[z][0] # <<>>
  <2>1. from(z) = {0}
    BY <1>3, <1>4
  <2>2. Min(from(z)) \in from(z)
    <3> HIDE DEF from
    <3>1. {0} \subseteq Nat /\ {0} # {}
      OBVIOUS
    <3> QED BY <2>1, <3>1, LeastNat
  <2> QED BY <2>1, <2>2
<1> QED BY <1>1, <1>3, <1>4, <1>5

LEMMA AllocSingle ==
    ASSUME PmmInv, NEW order \in Orders, AllocPages(order)
    PROVE  /\ order = 0
           /\ \E z \in DOMAIN Zones :
                 /\ Source(0) = <<z, 0>> /\ lists[z][0] # <<>>
                 /\ lists' = [lists EXCEPT ![z] = [lists[z] EXCEPT ![0] = Tail(lists[z][0])]]
                 /\ freePages' = freePages - 1
                 /\ held' = held \cup {<<Head(lists[z][0]), 0>>}
           /\ desc' \in [Pages -> [buddy : {FALSE}, order : Nat]]
<1>1. order = 0 /\ Source(0) # <<>>
  BY SourceSingle DEF AllocPages
<1>2. PICK z \in DOMAIN Zones : Source(0) = <<z, 0>> /\ lists[z][0] # <<>>
  BY <1>1, SourceSingle
<1> DEFINE p == Head(lists[z][0])
<1>3. Source(0)[1] = z /\ Source(0)[2] = 0
  BY <1>2
<1>4. /\ lists' = [lists EXCEPT ![z] = Split(lists[z], p, 0, 0)]
      /\ freePages' = freePages - 2^0
      /\ held' = held \cup {<<p, 0>>}
      /\ desc' = [q \in DOMAIN desc |-> IF q = p THEN Allocated(0)
                     ELSE IF \E k \in 0 .. 0 - 1 : q = p + 2^k THEN Pointer ELSE desc[q]]
  BY <1>1, <1>3 DEF AllocPages
<1>5. Split(lists[z], p, 0, 0) = [lists[z] EXCEPT ![0] = Tail(lists[z][0])]
  <2>1. \A k \in Orders : k \notin 0 .. 0 - 1
    BY PmmConstants
  <2>2. lists[z] \in [Orders -> Seq(Nat)]
    BY DEF PmmInv
  <2> QED BY <2>1, <2>2 DEF Split
<1>6. 2^0 = 1
  BY SMT
<1>7. desc' \in [Pages -> [buddy : {FALSE}, order : Nat]]
  <2>1. Allocated(0) \in [buddy : {FALSE}, order : Nat] /\ Pointer \in [buddy : {FALSE}, order : Nat]
    BY DEF Allocated, Pointer
  <2> QED BY <1>4, <2>1 DEF PmmInv
<1> QED BY <1>1, <1>2, <1>4, <1>5, <1>6, <1>7

(* free_pages recognises no buddy. *)
LEMMA FreeSingle ==
    ASSUME PmmInv, NEW pfn, NEW order, FreePages(pfn, order)
    PROVE  /\ order = 0 /\ pfn \in Usable \ FreeSingles
           /\ ZoneOf(pfn) \in DOMAIN Zones /\ pfn \in Zones[ZoneOf(pfn)]
           /\ LET z == ZoneOf(pfn)
              IN  lists' = [lists EXCEPT ![z] = [lists[z] EXCEPT ![0] = <<pfn>> \o lists[z][0]]]
           /\ freePages' = freePages + 1
           /\ held' = held \ {<<pfn, 0>>}
           /\ desc' \in [Pages -> [buddy : {FALSE}, order : Nat]]
<1> DEFINE z == ZoneOf(pfn)
<1>1. order = 0 /\ pfn \in Usable \ FreeSingles
  <2>1. <<pfn, order>> \in {<<p, 0>> : p \in Usable \ FreeSingles}
    BY DEF FreePages, PmmInv
  <2> QED BY <2>1
<1>2. z \in DOMAIN Zones /\ pfn \in Zones[z] /\ pfn \in Nat
  <2>1. \E y \in DOMAIN Zones : pfn \in Zones[y]
    BY <1>1, PmmConstants DEF Pages
  <2> QED BY <1>1, <2>1, PmmConstants DEF ZoneOf
<1> HIDE DEF z
<1>3. Merged(z, pfn, 0) = 0
  <2> DEFINE S == {k \in 0 .. MaxOrder :
                     \A o \in 0 .. k - 1 : ReadsFree(z, Buddy(Base(pfn, o), o), o)}
  <2>1. \A q, o : ~ReadsFree(z, q, o)
    <3> SUFFICES ASSUME NEW q, NEW o, ReadsFree(z, q, o) PROVE FALSE
      OBVIOUS
    <3>1. q \in Pages /\ desc[q].buddy
      BY <1>2 DEF ReadsFree, Pages
    <3>2. desc[q] \in [buddy : {FALSE}, order : Nat]
      BY <3>1 DEF PmmInv
    <3> QED BY <3>1, <3>2
  <2>2. S = {0}
    <3>1. ASSUME NEW k \in S PROVE k = 0
      <4>1. k \in Nat /\ \A o \in 0 .. k - 1 : FALSE
        BY <2>1
      <4>2. k > 0 => 0 \in 0 .. k - 1
        BY <4>1
      <4> QED BY <4>1, <4>2
    <3>2. 0 \in S
      BY PmmConstants
    <3> QED BY <3>1, <3>2
  <2>3. Merged(z, pfn, 0) = Max(S)
    BY DEF Merged
  <2> HIDE DEF S
  <2>4. Max({0}) = 0
    BY DEF Max
  <2> QED BY <2>2, <2>3, <2>4
<1>4. 2^0 = 1
  BY SMT
<1>5. Base(pfn, 0) = pfn
  BY <1>2, <1>4 DEF Base
<1>6. PICK k : /\ k = Merged(z, pfn, 0)
               /\ lists' = [lists EXCEPT ![z] = [o \in Orders |->
                     CASE o \in 0 .. k - 1 -> Remove(lists[z][o], Buddy(Base(pfn, o), o))
                       [] o = k -> <<Base(pfn, k)>> \o lists[z][o]
                       [] OTHER -> lists[z][o]]]
               /\ desc' = [desc EXCEPT ![Base(pfn, k)] = Pointer]
               /\ freePages' = freePages + 2^k
               /\ held' = held \ {<<pfn, 0>>}
  <2>1. FreePages(pfn, 0)
    BY <1>1
  <2> QED BY <2>1 DEF FreePages, z
<1>7. lists' = [lists EXCEPT ![z] = [lists[z] EXCEPT ![0] = <<pfn>> \o lists[z][0]]]
  <2>1. \A o \in Orders : o \notin 0 .. k - 1
    BY <1>3, <1>6, PmmConstants
  <2>2. lists[z] \in [Orders -> Seq(Nat)]
    BY <1>2 DEF PmmInv
  <2>3. [o \in Orders |->
            CASE o \in 0 .. k - 1 -> Remove(lists[z][o], Buddy(Base(pfn, o), o))
              [] o = k -> <<Base(pfn, k)>> \o lists[z][o]
              [] OTHER -> lists[z][o]]
        = [lists[z] EXCEPT ![0] = <<pfn>> \o lists[z][0]]
    BY <1>3, <1>5, <1>6, <2>1, <2>2
  <2> QED BY <1>6, <2>3
<1>8. desc' \in [Pages -> [buddy : {FALSE}, order : Nat]]
  <2>1. desc' = [desc EXCEPT ![pfn] = Pointer]
    BY <1>3, <1>5, <1>6
  <2>2. Pointer \in [buddy : {FALSE}, order : Nat]
    BY DEF Pointer
  <2> QED BY <2>1, <2>2 DEF PmmInv
<1>9. freePages' = freePages + 1
  BY <1>3, <1>4, <1>6
<1> QED BY <1>1, <1>2, <1>6, <1>7, <1>8, <1>9 DEF z

LEMMA SinglesFinite == IsFiniteSet(FreeSingles) /\ FreeSingles \subseteq Usable
  BY PmmAssumption, FS_Subset DEF FreeSingles

(* The list of one zone changes: what follows for the free pages. *)
LEMMA OneListChanges ==
    ASSUME PmmInv, NEW z \in DOMAIN Zones, NEW s \in Seq(Nat), IsInjective(s),
           ToSet(s) \subseteq Usable \cap Zones[z],
           lists' = [lists EXCEPT ![z] = [lists[z] EXCEPT ![0] = s]]
    PROVE  /\ lists' \in [DOMAIN Zones -> [Orders -> Seq(Nat)]]
           /\ \A y \in DOMAIN Zones :
                 /\ \A o \in Orders \ {0} : lists'[y][o] = <<>>
                 /\ IsInjective(lists'[y][0])
                 /\ ToSet(lists'[y][0]) \subseteq Usable \cap Zones[y]
           /\ FreeSingles' = (FreeSingles \ ToSet(lists[z][0])) \cup ToSet(s)
<1>1. 0 \in Orders /\ lists \in [DOMAIN Zones -> [Orders -> Seq(Nat)]]
  BY PmmConstants DEF PmmInv
<1>2. lists' \in [DOMAIN Zones -> [Orders -> Seq(Nat)]]
  BY <1>1
<1>3. /\ lists'[z][0] = s
      /\ \A o \in Orders \ {0} : lists'[z][o] = lists[z][o]
      /\ \A y \in DOMAIN Zones \ {z} : lists'[y] = lists[y]
  BY <1>1
<1>4. ASSUME NEW y \in DOMAIN Zones
      PROVE  /\ \A o \in Orders \ {0} : lists'[y][o] = <<>>
             /\ IsInjective(lists'[y][0])
             /\ ToSet(lists'[y][0]) \subseteq Usable \cap Zones[y]
  BY <1>3 DEF PmmInv
<1>5. \A y \in DOMAIN Zones \ {z} : ToSet(lists[y][0]) \cap ToSet(lists[z][0]) = {}
  BY PmmAssumption DEF PmmInv
<1>6. FreeSingles' = (FreeSingles \ ToSet(lists[z][0])) \cup ToSet(s)
  <2>1. ASSUME NEW p \in FreeSingles' PROVE p \in (FreeSingles \ ToSet(lists[z][0])) \cup ToSet(s)
    BY <1>3, <1>5 DEF FreeSingles
  <2>2. ASSUME NEW p \in FreeSingles \ ToSet(lists[z][0]) PROVE p \in FreeSingles'
    BY <1>3 DEF FreeSingles
  <2>3. ASSUME NEW p \in ToSet(s) PROVE p \in FreeSingles'
    BY <1>3 DEF FreeSingles
  <2> QED BY <2>1, <2>2, <2>3
<1> QED BY <1>2, <1>4, <1>6

LEMMA PmmAlloc ==
    ASSUME PmmInv, NEW order \in Orders, AllocPages(order)
    PROVE  PmmInv' /\ Fresh \in FreeSingles /\ held' = held \cup {<<Fresh, 0>>}
<1>1. PICK z \in DOMAIN Zones :
         /\ Source(0) = <<z, 0>> /\ lists[z][0] # <<>>
         /\ lists' = [lists EXCEPT ![z] = [lists[z] EXCEPT ![0] = Tail(lists[z][0])]]
         /\ freePages' = freePages - 1
         /\ held' = held \cup {<<Head(lists[z][0]), 0>>}
  BY AllocSingle
<1>2. Fresh = Head(lists[z][0])
  BY <1>1 DEF Fresh
<1>3. lists[z][0] \in Seq(Nat) /\ IsInjective(lists[z][0])
      /\ ToSet(lists[z][0]) \subseteq Usable \cap Zones[z]
  BY PmmConstants DEF PmmInv
<1>4. /\ ToSet(Tail(lists[z][0])) = ToSet(lists[z][0]) \ {Fresh}
      /\ IsInjective(Tail(lists[z][0])) /\ Tail(lists[z][0]) \in Seq(Nat)
      /\ Fresh \in ToSet(lists[z][0])
  BY <1>1, <1>2, <1>3, TailElements, NonEmptyDomain
<1>5. Fresh \in FreeSingles /\ ToSet(lists[z][0]) \subseteq FreeSingles
  BY <1>3, <1>4 DEF FreeSingles
<1>6. FreeSingles' = (FreeSingles \ ToSet(lists[z][0])) \cup ToSet(Tail(lists[z][0]))
  BY <1>1, <1>3, <1>4, OneListChanges
<1>7. FreeSingles' = FreeSingles \ {Fresh}
  BY <1>4, <1>5, <1>6
<1>8. freePages' = Cardinality(FreeSingles')
  BY <1>1, <1>5, <1>7, SinglesFinite, FS_RemoveElement, FS_CardinalityType DEF PmmInv
<1>9. held' = {<<p, 0>> : p \in Usable \ FreeSingles'}
  BY <1>1, <1>2, <1>5, <1>7, SinglesFinite DEF PmmInv
<1>10. PmmInv'
  <2>1. /\ lists' \in [DOMAIN Zones -> [Orders -> Seq(Nat)]]
        /\ \A y \in DOMAIN Zones :
              /\ \A o \in Orders \ {0} : lists'[y][o] = <<>>
              /\ IsInjective(lists'[y][0])
              /\ ToSet(lists'[y][0]) \subseteq Usable \cap Zones[y]
    BY <1>1, <1>3, <1>4, OneListChanges
  <2>2. desc' \in [Pages -> [buddy : {FALSE}, order : Nat]]
    BY AllocSingle
  <2> QED BY <1>8, <1>9, <2>1, <2>2 DEF PmmInv, Pages
<1> QED BY <1>1, <1>2, <1>5, <1>10

LEMMA PmmFree ==
    ASSUME PmmInv, NEW pfn, NEW order, FreePages(pfn, order)
    PROVE  PmmInv' /\ order = 0 /\ held' = held \ {<<pfn, 0>>}
<1>1. PICK z \in DOMAIN Zones :
         /\ order = 0 /\ pfn \in Usable \ FreeSingles /\ pfn \in Zones[z]
         /\ lists' = [lists EXCEPT ![z] = [lists[z] EXCEPT ![0] = <<pfn>> \o lists[z][0]]]
         /\ freePages' = freePages + 1
         /\ held' = held \ {<<pfn, 0>>}
  BY FreeSingle
<1>2. lists[z][0] \in Seq(Nat) /\ IsInjective(lists[z][0])
      /\ ToSet(lists[z][0]) \subseteq Usable \cap Zones[z]
  BY PmmConstants DEF PmmInv
<1>3. pfn \in Nat /\ pfn \notin ToSet(lists[z][0])
  BY <1>1, PmmConstants DEF FreeSingles
<1> DEFINE s == <<pfn>> \o lists[z][0]
<1>4. s \in Seq(Nat) /\ ToSet(s) = ToSet(lists[z][0]) \cup {pfn} /\ IsInjective(s)
  BY <1>2, <1>3, PushElements
<1> HIDE DEF s
<1>5. ToSet(lists[z][0]) \subseteq FreeSingles /\ ToSet(s) \subseteq Usable \cap Zones[z]
  BY <1>1, <1>2, <1>4 DEF FreeSingles
<1>6. FreeSingles' = (FreeSingles \ ToSet(lists[z][0])) \cup ToSet(s)
  BY <1>1, <1>4, <1>5, OneListChanges DEF s
<1>7. FreeSingles' = FreeSingles \cup {pfn}
  BY <1>4, <1>5, <1>6
<1>8. freePages' = Cardinality(FreeSingles')
  BY <1>1, <1>7, SinglesFinite, FS_AddElement, FS_CardinalityType DEF PmmInv
<1>9. held' = {<<p, 0>> : p \in Usable \ FreeSingles'}
  BY <1>1, <1>7 DEF PmmInv
<1>10. PmmInv'
  <2>1. /\ lists' \in [DOMAIN Zones -> [Orders -> Seq(Nat)]]
        /\ \A y \in DOMAIN Zones :
              /\ \A o \in Orders \ {0} : lists'[y][o] = <<>>
              /\ IsInjective(lists'[y][0])
              /\ ToSet(lists'[y][0]) \subseteq Usable \cap Zones[y]
    BY <1>1, <1>4, <1>5, OneListChanges DEF s
  <2>2. desc' \in [Pages -> [buddy : {FALSE}, order : Nat]]
    BY FreeSingle
  <2> QED BY <1>8, <1>9, <2>1, <2>2 DEF PmmInv, Pages
<1> QED BY <1>1, <1>10

LEMMA PmmInitially == PmmInit => PmmInv
<1> SUFFICES ASSUME PmmInit PROVE PmmInv
  OBVIOUS
<1>1. PICK first \in [DOMAIN Zones -> UNION {Pushed(Usable \cap Zones[z]) : z \in DOMAIN Zones}] :
        /\ \A z \in DOMAIN Zones : first[z] \in Pushed(Usable \cap Zones[z])
        /\ lists = [z \in DOMAIN Zones |-> [o \in Orders |-> IF o = 0 THEN first[z] ELSE <<>>]]
  BY DEF PmmInit
<1>2. ASSUME NEW z \in DOMAIN Zones
      PROVE  first[z] \in Seq(Nat) /\ ToSet(first[z]) = Usable \cap Zones[z] /\ IsInjective(first[z])
  <2> DEFINE s == first[z]
             S == Usable \cap Zones[z]
  <2>1. S \subseteq Nat /\ IsFiniteSet(S)
    BY PmmConstants, PmmAssumption, FS_Subset
  <2>2. s \in [1 .. Cardinality(S) -> S] /\ ToSet(s) = S
        /\ \A i, j \in DOMAIN s : i < j => s[i] > s[j]
    BY <1>1 DEF Pushed
  <2>3. Cardinality(S) \in Nat
    BY <2>1, FS_CardinalityType
  <2> HIDE DEF s, S
  <2>4. s \in [1 .. Cardinality(S) -> Nat]
    BY <2>1, <2>2
  <2>5. s \in Seq(Nat)
    BY <2>3, <2>4, SeqDef
  <2>6. ASSUME NEW i \in DOMAIN s, NEW j \in DOMAIN s, s[i] = s[j] PROVE i = j
    <3>1. i \in Nat /\ j \in Nat /\ s[i] \in Nat /\ s[j] \in Nat
      BY <2>3, <2>4
    <3>2. ~(i < j) /\ ~(j < i)
      BY <2>2, <2>6, <3>1
    <3> QED BY <3>1, <3>2
  <2> QED BY <2>2, <2>5, <2>6 DEF s, S, IsInjective
<1>3. 0 \in Orders /\ <<>> \in Seq(Nat)
  BY PmmConstants
<1>4. /\ lists \in [DOMAIN Zones -> [Orders -> Seq(Nat)]]
      /\ \A z \in DOMAIN Zones : lists[z][0] = first[z] /\ \A o \in Orders \ {0} : lists[z][o] = <<>>
  BY <1>1, <1>2, <1>3
<1>5. FreeSingles = Usable
  BY <1>2, <1>4, PmmConstants DEF FreeSingles, Pages
<1>6. desc \in [Pages -> [buddy : {FALSE}, order : Nat]]
  <2>1. Unused \in [buddy : {FALSE}, order : Nat] /\ Pointer \in [buddy : {FALSE}, order : Nat]
    BY DEF Unused, Pointer
  <2> QED BY <2>1 DEF PmmInit, Pages
<1>7. held = {<<p, 0>> : p \in Usable \ FreeSingles} /\ freePages = Cardinality(FreeSingles)
  BY <1>5 DEF PmmInit
<1> QED BY <1>2, <1>4, <1>6, <1>7 DEF PmmInv

LEMMA PmmStep == PmmInv /\ [PmmNext]_pmmVars => PmmInv'
<1> SUFFICES ASSUME PmmInv, [PmmNext]_pmmVars PROVE PmmInv'
  OBVIOUS
<1>1. CASE UNCHANGED pmmVars
  BY <1>1 DEF pmmVars, PmmInv, FreeSingles, Pages
<1>2. ASSUME NEW order \in Orders, AllocPages(order) PROVE PmmInv'
  BY <1>2, PmmAlloc
<1>3. ASSUME NEW b \in held, FreePages(b[1], b[2]) PROVE PmmInv'
  BY <1>3, PmmFree
<1> QED BY <1>1, <1>2, <1>3 DEF PmmNext

(* The page allocator keeps PmmInv, whoever its clients are. *)
THEOREM PmmInvariant == PmmSpec => []PmmInv
<1> QED BY PmmInitially, PmmStep, PTL DEF PmmSpec

LEMMA FreeBlocksSingle == PmmInv => FreeBlocks = {<<p, 0>> : p \in FreeSingles}
<1> SUFFICES ASSUME PmmInv PROVE FreeBlocks = {<<p, 0>> : p \in FreeSingles}
  OBVIOUS
<1>1. ASSUME NEW b \in FreeBlocks PROVE b \in {<<p, 0>> : p \in FreeSingles}
  <2>1. b \in Usable \X Orders /\ \E z \in DOMAIN Zones : b[1] \in ToSet(lists[z][b[2]])
    BY DEF FreeBlocks
  <2>2. PICK z \in DOMAIN Zones : b[1] \in ToSet(lists[z][b[2]])
    BY <2>1
  <2>3. lists[z][b[2]] # <<>>
    BY <2>2 DEF ToSet
  <2>4. b[2] = 0
    BY <2>1, <2>3 DEF PmmInv
  <2>5. b = <<b[1], 0>> /\ b[1] \in FreeSingles
    BY <2>1, <2>2, <2>4 DEF FreeSingles
  <2> QED BY <2>5
<1>2. ASSUME NEW p \in FreeSingles PROVE <<p, 0>> \in FreeBlocks
  BY PmmConstants DEF FreeBlocks, FreeSingles
<1> QED BY <1>1, <1>2

LEMMA OnePage ==
    ASSUME NEW p \in Nat
    PROVE  Block(p, 0) = {p}
<1>1. 2^0 = 1
  BY SMT
<1>2. Block(p, 0) = p .. p
  BY <1>1 DEF Block
<1> QED BY <1>2

LEMMA PagesOfSingles ==
    ASSUME NEW P, P \subseteq Nat
    PROVE  UNION {Block(b[1], b[2]) : b \in {<<p, 0>> : p \in P}} = P
<1> DEFINE B == {<<p, 0>> : p \in P}
<1>1. \A b \in B : b[1] \in P /\ Block(b[1], b[2]) = {b[1]}
  BY OnePage
<1>2. \A p \in P : <<p, 0>> \in B /\ <<p, 0>>[1] = p
  OBVIOUS
<1> HIDE DEF B
<1>3. ASSUME NEW x \in UNION {Block(b[1], b[2]) : b \in B} PROVE x \in P
  BY <1>1
<1>4. ASSUME NEW x \in P PROVE x \in UNION {Block(b[1], b[2]) : b \in B}
  BY <1>1, <1>2
<1>5. UNION {Block(b[1], b[2]) : b \in B} = P
  BY <1>3, <1>4
<1> QED BY <1>5 DEF B

LEMMA PmmMeaning == PmmInv => BlocksDisjoint /\ PagesAccounted /\ SinglePagesOnly
<1> SUFFICES ASSUME PmmInv PROVE BlocksDisjoint /\ PagesAccounted /\ SinglePagesOnly
  OBVIOUS
<1>1. FreeBlocks = {<<p, 0>> : p \in FreeSingles} /\ held = {<<p, 0>> : p \in Usable \ FreeSingles}
  BY FreeBlocksSingle DEF PmmInv
<1>2. FreeSingles \subseteq Usable /\ Usable \subseteq Nat
  BY PmmConstants DEF FreeSingles
<1>3. FreeBlocks \cup held = {<<p, 0>> : p \in Usable}
  BY <1>1, <1>2
<1>4. \A p \in Usable : Block(p, 0) = {p}
  BY <1>2, OnePage
<1>5. SinglePagesOnly
  BY <1>3 DEF SinglePagesOnly
<1>6. BlocksDisjoint
  <2>1. \A a, b \in FreeBlocks \cup held : a # b => Block(a[1], a[2]) \cap Block(b[1], b[2]) = {}
    <3> SUFFICES ASSUME NEW p \in Usable, NEW q \in Usable, p # q
                 PROVE  Block(p, 0) \cap Block(q, 0) = {}
      BY <1>3
    <3> QED BY <1>4
  <2>2. \A a \in FreeBlocks \cup held : Block(a[1], a[2]) \subseteq Usable
    BY <1>3, <1>4
  <2>3. FreeBlocks \cap held = {}
    BY <1>1
  <2>4. \A z \in DOMAIN Zones, o \in Orders : IsInjective(lists[z][o])
    BY DEF PmmInv, IsInjective
  <2> QED BY <2>1, <2>2, <2>3, <2>4 DEF BlocksDisjoint
<1>7. PagesAccounted
  <2>1. UNION {Block(b[1], b[2]) : b \in FreeBlocks} = FreeSingles
    BY <1>1, <1>2, PagesOfSingles
  <2>2. UNION {Block(b[1], b[2]) : b \in FreeBlocks \cup held} = Usable
    BY <1>2, <1>3, PagesOfSingles
  <2> QED BY <2>1, <2>2 DEF PagesAccounted, PmmInv
<1> QED BY <1>5, <1>6, <1>7

(* The slab caches and the other clients use the page allocator as its
   specification has it: they free what they hold and write to no free page. *)
LEMMA MemStepIsPmm == [MemNext]_memVars => [PmmNext]_pmmVars
<1> SUFFICES ASSUME [MemNext]_memVars PROVE [PmmNext]_pmmVars
  OBVIOUS
<1>1. AllocPages(0) => PmmNext
  BY PmmConstants DEF PmmNext
<1>2. \A c : GrowStep(c) => [PmmNext]_pmmVars
  BY <1>1 DEF GrowStep
<1>3. ASSUME NEW c \in Caches, Alloc(c) \/ AllocNull(c) \/ CreateCache(c) PROVE [PmmNext]_pmmVars
  BY <1>2, <1>3 DEF Alloc, AllocNull, CreateCache
<1>4. ASSUME NEW o \in taken, Free(o) PROVE [PmmNext]_pmmVars
  BY <1>4 DEF Free
<1>5. CASE GrowFirst
  BY <1>1, <1>5 DEF GrowFirst
<1>6. CASE GrowFails
  BY <1>6 DEF GrowFails
<1>7. CASE OthersAlloc
  BY <1>7 DEF OthersAlloc, PmmNext
<1>8. CASE OthersFree
  BY <1>8 DEF OthersFree, PmmNext
<1>9. CASE UNCHANGED memVars
  BY <1>9 DEF memVars
<1> QED BY <1>3, <1>4, <1>5, <1>6, <1>7, <1>8, <1>9 DEF MemNext

LEMMA MemoryIsPmm == MemSpec => PmmSpec
<1>1. MemInit => PmmInit
  BY DEF MemInit
<1> QED BY <1>1, MemStepIsPmm, PTL DEF MemSpec, PmmSpec

(* Under every order of calls of the slab caches and the other clients, free and
   held blocks share no page and no block is on two lists, for all zones, usable
   pages and orders. *)
THEOREM MemBlocksDisjoint == MemSpec => []BlocksDisjoint
<1>1. PmmInv => BlocksDisjoint
  BY PmmMeaning
<1> QED BY <1>1, MemoryIsPmm, PmmInvariant, PTL

(* free_pages counts the pages on the free lists and what is not free is held. *)
THEOREM MemPagesAccounted == MemSpec => []PagesAccounted
<1>1. PmmInv => PagesAccounted
  BY PmmMeaning
<1> QED BY <1>1, MemoryIsPmm, PmmInvariant, PTL

(* No sequence of calls ever makes a run of pages: free_pages reads the flags
   that push has overwritten, so it never merges, and alloc_pages of more than
   one page always fails. *)
THEOREM MemSinglePagesOnly == MemSpec => []SinglePagesOnly
<1>1. PmmInv => SinglePagesOnly
  BY PmmMeaning
<1> QED BY <1>1, MemoryIsPmm, PmmInvariant, PTL

-----------------------------------------------------------------------------
(* The slab caches. *)

SlabRecords ==
    [pages : [Caches -> Seq(Pages)], full : [Caches -> Seq(Pages)],
     cache : [Pages -> {NoCache} \cup {<<c>> : c \in Caches}],
     free  : [Pages -> Seq(Nat)], inuse : [Pages -> Nat]]

TakenIn(T, p) == {o[2] : o \in {t \in T : t[1] = p}}

(* The slots of a page are divided between its free list and T. *)
PageOk(s, T, p) ==
    /\ s.cache[p] = NoCache => TakenIn(T, p) = {}
    /\ \A c \in Caches : s.cache[p] = <<c>> =>
          /\ IsInjective(s.free[p])
          /\ ToSet(s.free[p]) \cap TakenIn(T, p) = {}
          /\ ToSet(s.free[p]) \cup TakenIn(T, p) = 1 .. Total[c]
          /\ Total[c] > 0 => s.inuse[p] = Cardinality(TakenIn(T, p))

PagesOf(s, c) == {p \in Pages : s.cache[p] = <<c>>}

(* The pages of a cache are divided between its two lists. *)
CacheOk(s, c) ==
    /\ IsInjective(s.pages[c]) /\ IsInjective(s.full[c])
    /\ ToSet(s.pages[c]) \cap ToSet(s.full[c]) = {}
    /\ ToSet(s.pages[c]) \cup ToSet(s.full[c]) = PagesOf(s, c)
    /\ Total[c] > 0 => ToSet(s.pages[c]) = {p \in PagesOf(s, c) : s.free[p] # <<>>}

SlabOk(s, T) ==
    /\ s \in SlabRecords /\ T \subseteq Pages \X Nat
    /\ \A p \in Pages : PageOk(s, T, p)
    /\ \A c \in Caches : CacheOk(s, c)

LEMMA SlabConstants ==
    /\ Total \in [Caches -> Nat] /\ Meta \in Caches /\ Total[Meta] > 0
    /\ BootCaches \in Seq(Caches) /\ IsInjective(BootCaches) /\ Created \subseteq Caches
    /\ \A i \in DOMAIN BootCaches : BootCaches[i] \notin Created
<1>1. ToSet(BootCaches) \subseteq Caches
  BY DEF Caches
<1>2. BootCaches \in Seq(Caches)
  BY <1>1, SlabAssumption, SeqMonotonic
<1>3. \A i \in DOMAIN BootCaches : BootCaches[i] \in ToSet(BootCaches)
  BY DEF ToSet
<1> QED BY <1>1, <1>2, <1>3, SlabAssumption DEF Caches

(* T with the slot i of p, and without it. *)
With(T, p, i) == T \cup {<<p, i>>}
Without(T, p, i) == T \ {<<p, i>>}

Slots(T) == T \subseteq Pages \X Nat

LEMMA TakenInAdds ==
    ASSUME NEW T, NEW p, NEW i, NEW q
    PROVE  TakenIn(With(T, p, i), q) = IF q = p THEN TakenIn(T, q) \cup {i} ELSE TakenIn(T, q)
<1> DEFINE U == T \cup {<<p, i>>}
<1>0. U = With(T, p, i)
  BY DEF With
<1>1. CASE q = p
  <2>1. \A t \in U : t[1] = q => t[2] \in TakenIn(T, q) \cup {i}
    BY <1>1 DEF TakenIn
  <2>2. \A t \in T : t \in U
    OBVIOUS
  <2>3. <<p, i>> \in U /\ <<p, i>>[1] = q /\ <<p, i>>[2] = i
    BY <1>1
  <2>4. TakenIn(U, q) \subseteq TakenIn(T, q) \cup {i}
    BY <2>1 DEF TakenIn
  <2>5. TakenIn(T, q) \subseteq TakenIn(U, q)
    BY <2>2 DEF TakenIn
  <2>6. i \in TakenIn(U, q)
    BY <2>3 DEF TakenIn
  <2>7. TakenIn(U, q) = TakenIn(T, q) \cup {i}
    BY <2>4, <2>5, <2>6
  <2> HIDE DEF U
  <2> QED BY <1>0, <1>1, <2>7
<1>2. CASE q # p
  <2>1. {t \in U : t[1] = q} = {t \in T : t[1] = q}
    BY <1>2
  <2>2. TakenIn(U, q) = TakenIn(T, q)
    BY <2>1 DEF TakenIn
  <2> HIDE DEF U
  <2> QED BY <1>0, <1>2, <2>2
<1> QED BY <1>1, <1>2

LEMMA TakenInDrops ==
    ASSUME NEW T, Slots(T), NEW p, NEW i, NEW q
    PROVE  TakenIn(Without(T, p, i), q) = IF q = p THEN TakenIn(T, q) \ {i} ELSE TakenIn(T, q)
<1>1. \A o \in T : o = <<o[1], o[2]>>
  BY DEF Slots
<1> QED BY <1>1 DEF TakenIn, Without

(* A record of the slab type with new fields is one. *)
LEMMA RecordOf ==
    ASSUME NEW s \in SlabRecords, NEW A \in [Caches -> Seq(Pages)], NEW B \in [Caches -> Seq(Pages)],
           NEW C \in [Pages -> {NoCache} \cup {<<c>> : c \in Caches}],
           NEW D \in [Pages -> Seq(Nat)], NEW E \in [Pages -> Nat]
    PROVE  /\ [s EXCEPT !.pages = A, !.cache = C, !.free = D, !.inuse = E] \in SlabRecords
           /\ [s EXCEPT !.free = D, !.inuse = E] \in SlabRecords
           /\ [s EXCEPT !.pages = A, !.full = B] \in SlabRecords
           /\ [s EXCEPT !.full = B, !.pages = A] \in SlabRecords
<1> DEFINE P == [Caches -> Seq(Pages)]
           Q == [Pages -> {NoCache} \cup {<<c>> : c \in Caches}]
           R == [Pages -> Seq(Nat)]
           N == [Pages -> Nat]
<1>1. SlabRecords = [pages : P, full : P, cache : Q, free : R, inuse : N]
  BY DEF SlabRecords
<1>2. A \in P /\ B \in P /\ C \in Q /\ D \in R /\ E \in N
  OBVIOUS
<1> HIDE DEF P, Q, R, N
<1> QED BY <1>1, <1>2

(* The free list of a new page. *)
AllSlots(c) == [i \in 1 .. Total[c] |-> i]

GrowShape(s, t, c, p) ==
    /\ t \in SlabRecords /\ t.full = s.full
    /\ t.pages = [s.pages EXCEPT ![c] = <<p>> \o s.pages[c]]
    /\ t.cache = [s.cache EXCEPT ![p] = <<c>>]
    /\ t.free = [s.free EXCEPT ![p] = AllSlots(c)]
    /\ t.inuse = [s.inuse EXCEPT ![p] = 0]

LEMMA GrowFields ==
    ASSUME NEW s \in SlabRecords, NEW c \in Caches, NEW p \in Pages
    PROVE  GrowShape(s, Grow(s, c, p), c, p)
<1> DEFINE t == Grow(s, c, p)
<1>1. /\ t.full = s.full
      /\ t.pages = [s.pages EXCEPT ![c] = <<p>> \o s.pages[c]]
      /\ t.cache = [s.cache EXCEPT ![p] = <<c>>]
      /\ t.free = [s.free EXCEPT ![p] = AllSlots(c)]
      /\ t.inuse = [s.inuse EXCEPT ![p] = 0]
  BY DEF Grow, SlabRecords, AllSlots
<1>2. t.pages \in [Caches -> Seq(Pages)]
  BY <1>1, PushElements DEF SlabRecords
<1>3. t.free \in [Pages -> Seq(Nat)]
  <2>1. AllSlots(c) \in Seq(Nat)
    BY SlabConstants, SeqDef DEF AllSlots
  <2> QED BY <1>1, <2>1 DEF SlabRecords
<1>4. t \in SlabRecords
  <2> DEFINE A == [s.pages EXCEPT ![c] = <<p>> \o s.pages[c]]
             C == [s.cache EXCEPT ![p] = <<c>>]
             D == [s.free EXCEPT ![p] = AllSlots(c)]
             E == [s.inuse EXCEPT ![p] = 0]
  <2>1. A \in [Caches -> Seq(Pages)] /\ D \in [Pages -> Seq(Nat)]
    BY <1>1, <1>2, <1>3
  <2>2. C \in [Pages -> {NoCache} \cup {<<d>> : d \in Caches}] /\ E \in [Pages -> Nat]
    BY DEF SlabRecords
  <2>3. t = [s EXCEPT !.pages = A, !.cache = C, !.free = D, !.inuse = E]
    BY DEF Grow, AllSlots
  <2>4. s.full \in [Caches -> Seq(Pages)]
    BY DEF SlabRecords
  <2> HIDE DEF A, C, D, E, t
  <2> QED BY <2>1, <2>2, <2>3, <2>4, RecordOf
<1> QED BY <1>1, <1>4 DEF GrowShape

LEMMA TakeFields ==
    ASSUME NEW s \in SlabRecords, NEW c \in Caches, s.pages[c] # <<>>
    PROVE  LET t == Take(s, c)
               p == Head(s.pages[c])
               full == s.inuse[p] + 1 >= Total[c]
           IN  /\ t \in SlabRecords /\ t.cache = s.cache
               /\ t.pages = IF full THEN [s.pages EXCEPT ![c] = Tail(s.pages[c])] ELSE s.pages
               /\ t.full = IF full THEN [s.full EXCEPT ![c] = <<p>> \o s.full[c]] ELSE s.full
               /\ t.free = [s.free EXCEPT ![p] = IF s.free[p] = <<>> THEN <<>> ELSE Tail(s.free[p])]
               /\ t.inuse = [s.inuse EXCEPT ![p] = s.inuse[p] + 1]
<1> DEFINE t == Take(s, c)
           p == Head(s.pages[c])
           full == s.inuse[p] + 1 >= Total[c]
           u == [s EXCEPT !.free[p] = IF @ = <<>> THEN <<>> ELSE Tail(@), !.inuse[p] = @ + 1]
<1>1. p \in Pages /\ Tail(s.pages[c]) \in Seq(Pages) /\ <<p>> \o s.full[c] \in Seq(Pages)
  <2>1. s.pages[c] \in Seq(Pages) /\ s.full[c] \in Seq(Pages)
    BY DEF SlabRecords
  <2> QED BY <2>1, NonEmptyDomain, PushElements
<1>2. /\ u \in SlabRecords /\ u.pages = s.pages /\ u.full = s.full /\ u.cache = s.cache
      /\ u.free = [s.free EXCEPT ![p] = IF s.free[p] = <<>> THEN <<>> ELSE Tail(s.free[p])]
      /\ u.inuse = [s.inuse EXCEPT ![p] = s.inuse[p] + 1]
  <2>1. (IF s.free[p] = <<>> THEN <<>> ELSE Tail(s.free[p])) \in Seq(Nat)
    <3>1. s.free[p] \in Seq(Nat)
      BY <1>1 DEF SlabRecords
    <3> QED BY <3>1, NonEmptyDomain
  <2> HIDE DEF p
  <2> DEFINE D == [s.free EXCEPT ![p] = IF s.free[p] = <<>> THEN <<>> ELSE Tail(s.free[p])]
             E == [s.inuse EXCEPT ![p] = s.inuse[p] + 1]
  <2>2. D \in [Pages -> Seq(Nat)] /\ E \in [Pages -> Nat]
    BY <1>1, <2>1 DEF SlabRecords
  <2>3. u = [s EXCEPT !.free = D, !.inuse = E]
    OBVIOUS
  <2>4. /\ s.pages \in [Caches -> Seq(Pages)] /\ s.full \in [Caches -> Seq(Pages)]
        /\ s.cache \in [Pages -> {NoCache} \cup {<<d>> : d \in Caches}]
    BY DEF SlabRecords
  <2> HIDE DEF D, E, u
  <2>5. u \in SlabRecords
    BY <2>2, <2>3, <2>4, RecordOf
  <2>6. u.pages = s.pages /\ u.full = s.full /\ u.cache = s.cache /\ u.free = D /\ u.inuse = E
    BY <2>3 DEF SlabRecords
  <2> QED BY <2>5, <2>6 DEF D, E
<1>3. t = IF u.inuse[p] >= Total[c]
          THEN [u EXCEPT !.pages[c] = Tail(@), !.full[c] = <<p>> \o @] ELSE u
  BY DEF Take
<1>4. u.inuse[p] = s.inuse[p] + 1
  BY <1>1, <1>2 DEF SlabRecords
<1> HIDE DEF u, t, p
<1>5. CASE full
  <2>1. t = [u EXCEPT !.pages[c] = Tail(@), !.full[c] = <<p>> \o @]
    BY <1>3, <1>4, <1>5
  <2>2. /\ t.cache = u.cache /\ t.free = u.free /\ t.inuse = u.inuse
        /\ t.pages = [u.pages EXCEPT ![c] = Tail(u.pages[c])]
        /\ t.full = [u.full EXCEPT ![c] = <<p>> \o u.full[c]]
    BY <1>2, <2>1 DEF SlabRecords
  <2>3. t.pages \in [Caches -> Seq(Pages)] /\ t.full \in [Caches -> Seq(Pages)]
    <3>1. u.pages \in [Caches -> Seq(Pages)] /\ u.full \in [Caches -> Seq(Pages)]
      BY <1>2 DEF SlabRecords
    <3>2. Tail(u.pages[c]) \in Seq(Pages) /\ <<p>> \o u.full[c] \in Seq(Pages)
      BY <1>1, <1>2
    <3> QED BY <2>2, <3>1, <3>2
  <2>4. t \in SlabRecords
    <3> DEFINE A == [u.pages EXCEPT ![c] = Tail(u.pages[c])]
               B == [u.full EXCEPT ![c] = <<p>> \o u.full[c]]
    <3>1. t = [u EXCEPT !.pages = A, !.full = B]
      BY <2>1
    <3>2. A \in [Caches -> Seq(Pages)] /\ B \in [Caches -> Seq(Pages)]
      BY <2>2, <2>3
    <3>3. /\ u.cache \in [Pages -> {NoCache} \cup {<<d>> : d \in Caches}]
          /\ u.free \in [Pages -> Seq(Nat)] /\ u.inuse \in [Pages -> Nat]
      BY <1>2 DEF SlabRecords
    <3> HIDE DEF A, B
    <3> QED BY <1>2, <3>1, <3>2, <3>3, RecordOf
  <2> QED BY <1>2, <1>5, <2>2, <2>4 DEF t, p
<1>6. CASE ~full
  <2>1. t = u
    BY <1>3, <1>4, <1>6
  <2> QED BY <1>2, <1>6, <2>1 DEF t, p
<1> QED BY <1>5, <1>6

PutShape(s, t, c, p, i) ==
    LET full == s.inuse[p] >= Total[c]
    IN  /\ t \in SlabRecords /\ t.cache = s.cache
        /\ t.pages = IF full THEN [s.pages EXCEPT ![c] = <<p>> \o s.pages[c]] ELSE s.pages
        /\ t.full = IF full THEN [s.full EXCEPT ![c] = RemoveFirst(s.full[c], p)] ELSE s.full
        /\ t.free = [s.free EXCEPT ![p] = <<i>> \o s.free[p]]
        /\ t.inuse = [s.inuse EXCEPT ![p] = s.inuse[p] - 1]

LEMMA PutFields ==
    ASSUME NEW s \in SlabRecords, NEW c \in Caches, NEW p \in Pages, NEW i \in Nat,
           s.inuse[p] > 0, IsInjective(s.full[c]),
           s.inuse[p] >= Total[c] => p \in ToSet(s.full[c])
    PROVE  PutShape(s, Put(s, c, p, i), c, p, i)
<1> DEFINE t == Put(s, c, p, i)
           full == s.inuse[p] >= Total[c]
           u == [s EXCEPT !.free[p] = <<i>> \o @, !.inuse[p] = @ - 1]
           D == [s.free EXCEPT ![p] = <<i>> \o s.free[p]]
           E == [s.inuse EXCEPT ![p] = s.inuse[p] - 1]
<1>1. /\ s.pages \in [Caches -> Seq(Pages)] /\ s.full \in [Caches -> Seq(Pages)]
      /\ s.cache \in [Pages -> {NoCache} \cup {<<d>> : d \in Caches}]
      /\ s.free \in [Pages -> Seq(Nat)] /\ s.inuse \in [Pages -> Nat]
  BY DEF SlabRecords
<1>2. D \in [Pages -> Seq(Nat)] /\ E \in [Pages -> Nat]
  <2>1. <<i>> \o s.free[p] \in Seq(Nat)
    BY <1>1, PushElements
  <2> QED BY <1>1, <2>1
<1>3. u = [s EXCEPT !.free = D, !.inuse = E]
  OBVIOUS
<1>4. t = IF u.inuse[p] + 1 >= Total[c]
          THEN [u EXCEPT !.full[c] = RemoveFirst(@, p), !.pages[c] = <<p>> \o @] ELSE u
  BY DEF Put
<1>5. E[p] = s.inuse[p] - 1 /\ s.inuse[p] \in Nat
  BY <1>1
<1> HIDE DEF D, E, u, t
<1>6. u \in SlabRecords
  BY <1>1, <1>2, <1>3, RecordOf
<1>7. u.pages = s.pages /\ u.full = s.full /\ u.cache = s.cache /\ u.free = D /\ u.inuse = E
  BY <1>3 DEF SlabRecords
<1>8. u.inuse[p] + 1 >= Total[c] <=> full
  BY <1>5, <1>7
<1>9. CASE full
  <2> DEFINE A == [s.pages EXCEPT ![c] = <<p>> \o s.pages[c]]
             B == [s.full EXCEPT ![c] = RemoveFirst(s.full[c], p)]
  <2>1. A \in [Caches -> Seq(Pages)] /\ B \in [Caches -> Seq(Pages)]
    <3>1. <<p>> \o s.pages[c] \in Seq(Pages)
      BY <1>1, PushElements
    <3>2. RemoveFirst(s.full[c], p) \in Seq(Pages)
      BY <1>1, <1>9, RemoveElements
    <3> QED BY <1>1, <3>1, <3>2
  <2>2. t = [u EXCEPT !.full[c] = RemoveFirst(@, p), !.pages[c] = <<p>> \o @]
    BY <1>4, <1>8, <1>9
  <2>3. t = [u EXCEPT !.full = B, !.pages = A]
    BY <1>7, <2>2
  <2>4. t \in SlabRecords
    <3> HIDE DEF A, B
    <3> QED BY <1>1, <1>2, <1>6, <2>1, <2>3, RecordOf
  <2>5. t.cache = u.cache /\ t.free = u.free /\ t.inuse = u.inuse /\ t.pages = A /\ t.full = B
    BY <1>6, <2>3 DEF SlabRecords
  <2> QED BY <1>7, <1>9, <2>4, <2>5 DEF PutShape, t, D, E
<1>10. CASE ~full
  <2>1. t = u
    BY <1>4, <1>8, <1>10
  <2> QED BY <1>6, <1>7, <1>10, <2>1 DEF PutShape, t, D, E
<1> QED BY <1>9, <1>10

(* What grow, alloc and free do with the pages and their slots. *)
LEMMA GrowOk ==
    ASSUME NEW s, NEW T, SlabOk(s, T), NEW c \in Caches, NEW p \in Pages, s.cache[p] = NoCache,
           NEW t, GrowShape(s, t, c, p)
    PROVE  /\ SlabOk(t, T) /\ t.cache = [s.cache EXCEPT ![p] = <<c>>]
           /\ t.pages[c] # <<>> /\ Head(t.pages[c]) = p
<1> DEFINE f == AllSlots(c)
<1>0. s \in SlabRecords /\ T \subseteq Pages \X Nat
      /\ (\A q \in Pages : PageOk(s, T, q)) /\ \A d \in Caches : CacheOk(s, d)
  BY DEF SlabOk
<1>1. /\ t \in SlabRecords /\ t.full = s.full
      /\ t.pages = [s.pages EXCEPT ![c] = <<p>> \o s.pages[c]]
      /\ t.cache = [s.cache EXCEPT ![p] = <<c>>]
      /\ t.free = [s.free EXCEPT ![p] = f]
      /\ t.inuse = [s.inuse EXCEPT ![p] = 0]
  BY DEF GrowShape
<1>2. /\ s.pages \in [Caches -> Seq(Pages)] /\ s.full \in [Caches -> Seq(Pages)]
      /\ s.cache \in [Pages -> {NoCache} \cup {<<d>> : d \in Caches}]
      /\ s.free \in [Pages -> Seq(Nat)] /\ s.inuse \in [Pages -> Nat]
  BY <1>0 DEF SlabRecords
<1>3. Total[c] \in Nat
  BY SlabConstants
<1>4. IsInjective(f) /\ ToSet(f) = 1 .. Total[c] /\ (Total[c] > 0 => f # <<>>)
  <2>1. DOMAIN f = 1 .. Total[c] /\ \A i \in DOMAIN f : f[i] = i
    BY DEF AllSlots
  <2> HIDE DEF f
  <2>2. IsInjective(f) /\ ToSet(f) = 1 .. Total[c]
    BY <2>1 DEF IsInjective, ToSet
  <2>3. Total[c] > 0 => 1 \in DOMAIN f
    BY <1>3, <2>1
  <2> QED BY <2>2, <2>3
<1> HIDE DEF f
<1>5. ASSUME NEW q \in Pages PROVE PageOk(t, T, q)
  <2>1. CASE q = p
    <3>1. t.cache[q] = <<c>> /\ t.free[q] = f /\ t.inuse[q] = 0 /\ TakenIn(T, q) = {}
      BY <1>0, <1>1, <1>2, <2>1 DEF PageOk
    <3>2. Cardinality({}) = 0
      BY FS_EmptySet
    <3> QED BY <1>4, <3>1, <3>2 DEF PageOk, NoCache
  <2>2. CASE q # p
    <3>1. t.cache[q] = s.cache[q] /\ t.free[q] = s.free[q] /\ t.inuse[q] = s.inuse[q]
      BY <1>1, <1>2, <2>2
    <3>2. PageOk(s, T, q)
      BY <1>0
    <3> QED BY <3>1, <3>2 DEF PageOk
  <2> QED BY <2>1, <2>2
<1>6. ASSUME NEW d \in Caches PROVE PagesOf(t, d) = IF d = c THEN PagesOf(s, d) \cup {p} ELSE PagesOf(s, d)
  <2>1. t.cache[p] = <<c>> /\ \A q \in Pages \ {p} : t.cache[q] = s.cache[q]
    BY <1>1, <1>2
  <2>2. p \notin PagesOf(s, d)
    <3>1. NoCache # <<d>>
      BY DEF NoCache
    <3> QED BY <3>1 DEF PagesOf
  <2>3. p \in PagesOf(t, d) <=> d = c
    BY <2>1 DEF PagesOf
  <2>4. \A q \in Pages \ {p} : q \in PagesOf(t, d) <=> q \in PagesOf(s, d)
    BY <2>1 DEF PagesOf
  <2>5. PagesOf(t, d) \subseteq Pages /\ PagesOf(s, d) \subseteq Pages
    BY DEF PagesOf
  <2> QED BY <2>2, <2>3, <2>4, <2>5
<1>7. ASSUME NEW d \in Caches PROVE p \notin PagesOf(s, d)
  <2>1. NoCache # <<d>>
    BY DEF NoCache
  <2> QED BY <2>1 DEF PagesOf
<1>8. ASSUME NEW d \in Caches PROVE CacheOk(t, d)
  <2>0. CacheOk(s, d) /\ t.full[d] = s.full[d]
    BY <1>0, <1>1
  <2>1. \A q \in PagesOf(s, d) : t.free[q] = s.free[q]
    BY <1>1, <1>2, <1>7 DEF PagesOf
  <2>2. CASE d = c
    <3>1. /\ ToSet(t.pages[d]) = ToSet(s.pages[d]) \cup {p}
          /\ IsInjective(s.pages[d]) /\ p \notin ToSet(s.pages[d]) => IsInjective(t.pages[d])
      BY <1>1, <1>2, <2>2, PushElements
    <3>2. p \notin ToSet(s.pages[d]) /\ p \notin ToSet(s.full[d])
      BY <1>7, <2>0 DEF CacheOk
    <3>3. Total[d] > 0 => t.free[p] # <<>>
      BY <1>1, <1>2, <1>4, <2>2
    <3>4. PagesOf(t, d) = PagesOf(s, d) \cup {p}
      BY <1>6, <2>2
    <3>5. Total[d] > 0 => ToSet(t.pages[d]) = {q \in PagesOf(t, d) : t.free[q] # <<>>}
      BY <2>0, <2>1, <3>1, <3>3, <3>4 DEF CacheOk
    <3> QED BY <2>0, <3>1, <3>2, <3>4, <3>5 DEF CacheOk
  <2>3. CASE d # c
    <3>1. t.pages[d] = s.pages[d] /\ PagesOf(t, d) = PagesOf(s, d)
      BY <1>1, <1>2, <1>6, <2>3
    <3> QED BY <2>0, <2>1, <3>1 DEF CacheOk
  <2> QED BY <2>2, <2>3
<1>9. t.pages[c] # <<>> /\ Head(t.pages[c]) = p
  <2>1. t.pages[c] = <<p>> \o s.pages[c] /\ s.pages[c] \in Seq(Pages)
    BY <1>1, <1>2
  <2>2. t.pages[c] # <<>> /\ t.pages[c] \in Seq(Pages)
    BY <2>1, PushElements
  <2>3. (<<p>> \o s.pages[c])[1] = p
    BY <2>1
  <2> QED BY <2>1, <2>2, <2>3, NonEmptyDomain
<1> QED BY <1>0, <1>1, <1>5, <1>8, <1>9 DEF SlabOk

(* alloc in a cache with slots: the first free slot of the first page. *)
LEMMA TakeOk ==
    ASSUME NEW s, NEW T, SlabOk(s, T), NEW c \in Caches, s.pages[c] # <<>>,
           s.free[Head(s.pages[c])] # <<>>
    PROVE  LET p == Head(s.pages[c])
               x == Head(s.free[p])
                 o == <<p, x>>
           IN  /\ SlabOk(Take(s, c), With(T, p, x)) /\ Take(s, c).cache = s.cache
               /\ o \notin T /\ o \in Pages \X Nat /\ s.cache[p] = <<c>>
<1> DEFINE t == Take(s, c)
           p == Head(s.pages[c])
           x == Head(s.free[p])
           U == With(T, p, x)
           full == s.inuse[p] + 1 >= Total[c]
<1>0. s \in SlabRecords /\ T \subseteq Pages \X Nat
      /\ (\A q \in Pages : PageOk(s, T, q)) /\ \A d \in Caches : CacheOk(s, d)
  BY DEF SlabOk
<1>1. /\ t \in SlabRecords /\ t.cache = s.cache
      /\ t.pages = IF full THEN [s.pages EXCEPT ![c] = Tail(s.pages[c])] ELSE s.pages
      /\ t.full = IF full THEN [s.full EXCEPT ![c] = <<p>> \o s.full[c]] ELSE s.full
      /\ t.free = [s.free EXCEPT ![p] = Tail(s.free[p])]
      /\ t.inuse = [s.inuse EXCEPT ![p] = s.inuse[p] + 1]
  BY <1>0, TakeFields
<1>2. /\ s.pages \in [Caches -> Seq(Pages)] /\ s.full \in [Caches -> Seq(Pages)]
      /\ s.cache \in [Pages -> {NoCache} \cup {<<d>> : d \in Caches}]
      /\ s.free \in [Pages -> Seq(Nat)] /\ s.inuse \in [Pages -> Nat]
  BY <1>0 DEF SlabRecords
<1>3. p \in Pages /\ p \in ToSet(s.pages[c])
  BY <1>2, NonEmptyDomain
<1>4. s.free[p] \in Seq(Nat) /\ x \in ToSet(s.free[p]) /\ x \in Nat
  BY <1>2, <1>3, NonEmptyDomain
<1>5. p \in PagesOf(s, c) /\ s.cache[p] = <<c>>
  BY <1>0, <1>3 DEF CacheOk, PagesOf
<1>6. /\ IsInjective(s.free[p]) /\ ToSet(s.free[p]) \cap TakenIn(T, p) = {}
      /\ ToSet(s.free[p]) \cup TakenIn(T, p) = 1 .. Total[c]
      /\ Total[c] > 0 => s.inuse[p] = Cardinality(TakenIn(T, p))
  BY <1>0, <1>3, <1>5 DEF PageOk
<1>7. /\ Total[c] \in Nat /\ Total[c] > 0 /\ IsFiniteSet(TakenIn(T, p))
      /\ s.inuse[p] = Cardinality(TakenIn(T, p))
  <2>1. Total[c] \in Nat
    BY SlabConstants
  <2>2. x \in 1 .. Total[c]
    BY <1>4, <1>6
  <2>3. IsFiniteSet(1 .. Total[c])
    BY <2>1, FS_Interval
  <2>4. IsFiniteSet(TakenIn(T, p))
    BY <1>6, <2>3, FS_Subset
  <2> QED BY <1>6, <2>1, <2>2, <2>4
<1>8. /\ ToSet(Tail(s.free[p])) = ToSet(s.free[p]) \ {x} /\ IsInjective(Tail(s.free[p]))
      /\ Tail(s.free[p]) \in Seq(Nat)
  BY <1>4, <1>6, TailElements, NonEmptyDomain
<1>9. <<p, x>> \notin T
  <2>1. x \notin TakenIn(T, p)
    BY <1>4, <1>6
  <2>2. <<p, x>> \in T => x \in TakenIn(T, p)
    BY DEF TakenIn
  <2> QED BY <2>1, <2>2
<1> HIDE DEF t, p, x
<1>10. ASSUME NEW q PROVE TakenIn(U, q) = IF q = p THEN TakenIn(T, q) \cup {x} ELSE TakenIn(T, q)
  BY TakenInAdds
<1> HIDE DEF U
<1>11. ASSUME NEW q \in Pages PROVE PageOk(t, U, q)
  <2>1. CASE q = p
    <3>1. t.cache[q] = <<c>> /\ t.free[q] = Tail(s.free[p]) /\ t.inuse[q] = s.inuse[p] + 1
          /\ TakenIn(U, q) = TakenIn(T, p) \cup {x}
      BY <1>1, <1>2, <1>3, <1>5, <1>10, <2>1
    <3>2. Cardinality(TakenIn(T, p) \cup {x}) = Cardinality(TakenIn(T, p)) + 1
      BY <1>4, <1>6, <1>7, FS_AddElement
    <3>3. ToSet(t.free[q]) \cap TakenIn(U, q) = {}
          /\ ToSet(t.free[q]) \cup TakenIn(U, q) = 1 .. Total[c]
      BY <1>4, <1>6, <1>8, <3>1
    <3> QED BY <1>7, <1>8, <3>1, <3>2, <3>3 DEF PageOk, NoCache
  <2>2. CASE q # p
    <3>1. t.cache[q] = s.cache[q] /\ t.free[q] = s.free[q] /\ t.inuse[q] = s.inuse[q]
          /\ TakenIn(U, q) = TakenIn(T, q)
      BY <1>1, <1>2, <1>10, <2>2
    <3>2. PageOk(s, T, q)
      BY <1>0
    <3> QED BY <3>1, <3>2 DEF PageOk
  <2> QED BY <2>1, <2>2
(* The page goes to the full ones exactly when its last free slot is taken. *)
<1>12. full <=> t.free[p] = <<>>
  <2> DEFINE V == TakenIn(T, p) \cup {x}
  <2>1. t.free[p] = Tail(s.free[p])
    BY <1>1, <1>2, <1>3
  <2>2. V \subseteq 1 .. Total[c] /\ ToSet(Tail(s.free[p])) \cup V = 1 .. Total[c]
        /\ ToSet(Tail(s.free[p])) \cap V = {}
    BY <1>4, <1>6, <1>8
  <2>3. Cardinality(V) = s.inuse[p] + 1 /\ IsFiniteSet(V)
    BY <1>4, <1>6, <1>7, FS_AddElement
  <2>4. Cardinality(1 .. Total[c]) = Total[c] /\ IsFiniteSet(1 .. Total[c])
    BY <1>7, FS_Interval
  <2>5. Cardinality(V) <= Total[c] /\ (Cardinality(V) = Total[c] => V = 1 .. Total[c])
    <3>1. V \in SUBSET (1 .. Total[c])
      BY <2>2
    <3> HIDE DEF V
    <3> QED BY <2>4, <3>1, FS_Subset
  <2>6. s.inuse[p] \in Nat
    BY <1>2, <1>3
  <2> HIDE DEF V
  <2>7. full <=> V = 1 .. Total[c]
    BY <1>7, <2>3, <2>4, <2>5, <2>6
  <2>8. V = 1 .. Total[c] <=> ToSet(Tail(s.free[p])) = {}
    BY <2>2
  <2>9. ToSet(Tail(s.free[p])) = {} <=> Tail(s.free[p]) = <<>>
    <3>1. Tail(s.free[p]) # <<>> => Head(Tail(s.free[p])) \in ToSet(Tail(s.free[p]))
      BY <1>8, NonEmptyDomain
    <3>2. ToSet(<<>>) = {}
      BY DEF ToSet
    <3> QED BY <3>1, <3>2
  <2> QED BY <2>1, <2>7, <2>8, <2>9
<1>13. \A d \in Caches : PagesOf(t, d) = PagesOf(s, d)
  BY <1>1 DEF PagesOf
<1>14. ASSUME NEW d \in Caches PROVE CacheOk(t, d)
  <2>0. CacheOk(s, d) /\ PagesOf(t, d) = PagesOf(s, d)
    BY <1>0, <1>13
  <2>1. \A q \in Pages \ {p} : t.free[q] = s.free[q]
    BY <1>1, <1>2
  <2>2. CASE d # c
    <3>1. t.pages[d] = s.pages[d] /\ t.full[d] = s.full[d]
      BY <1>1, <1>2, <2>2
    <3>2. \A q \in PagesOf(s, d) : t.free[q] = s.free[q]
      BY <1>5, <2>1, <2>2 DEF PagesOf
    <3> QED BY <2>0, <3>1, <3>2 DEF CacheOk
  <2>3. CASE d = c /\ ~full
    <3>1. t.pages[d] = s.pages[d] /\ t.full[d] = s.full[d] /\ t.free[p] # <<>>
      BY <1>1, <1>2, <1>12, <2>3
    <3>2. \A q \in PagesOf(s, d) : t.free[q] # <<>> <=> s.free[q] # <<>>
      BY <2>1, <3>1 DEF PagesOf, p
    <3> QED BY <2>0, <3>1, <3>2 DEF CacheOk
  <2>4. CASE d = c /\ full
    <3>1. t.pages[d] = Tail(s.pages[d]) /\ t.full[d] = <<p>> \o s.full[d] /\ t.free[p] = <<>>
      BY <1>1, <1>2, <1>12, <2>4
    <3>2. s.pages[d] \in Seq(Pages) /\ s.full[d] \in Seq(Pages) /\ s.pages[d] # <<>>
          /\ p = Head(s.pages[d]) /\ IsInjective(s.pages[d]) /\ IsInjective(s.full[d])
      BY <1>2, <2>0, <2>4 DEF CacheOk, p
    <3>3. ToSet(t.pages[d]) = ToSet(s.pages[d]) \ {p} /\ IsInjective(t.pages[d])
      BY <3>1, <3>2, TailElements
    <3>4. p \in ToSet(s.pages[d]) /\ p \notin ToSet(s.full[d])
      BY <1>3, <2>0, <2>4 DEF CacheOk
    <3>5. ToSet(t.full[d]) = ToSet(s.full[d]) \cup {p} /\ IsInjective(t.full[d])
      BY <1>3, <3>1, <3>2, <3>4, PushElements
    <3>6. Total[d] > 0 => ToSet(t.pages[d]) = {q \in PagesOf(t, d) : t.free[q] # <<>>}
      BY <2>0, <2>1, <3>1, <3>3, <3>4 DEF CacheOk, PagesOf
    <3> QED BY <2>0, <3>3, <3>4, <3>5, <3>6 DEF CacheOk
  <2> QED BY <2>2, <2>3, <2>4
<1>15. U \subseteq Pages \X Nat /\ <<p, x>> \in Pages \X Nat
  BY <1>0, <1>3, <1>4 DEF U, With
<1>16. SlabOk(t, U)
  BY <1>1, <1>11, <1>14, <1>15 DEF SlabOk
<1> QED BY <1>1, <1>5, <1>9, <1>15, <1>16 DEF t, p, x, U

(* alloc in a cache whose pages hold no slot moves the page to the full ones. *)
LEMMA TakeNull ==
    ASSUME NEW s, NEW T, SlabOk(s, T), NEW c \in Caches, s.pages[c] # <<>>,
           s.free[Head(s.pages[c])] = <<>>
    PROVE  SlabOk(Take(s, c), T) /\ Take(s, c).cache = s.cache
<1> DEFINE t == Take(s, c)
           p == Head(s.pages[c])
           full == s.inuse[p] + 1 >= Total[c]
<1>0. s \in SlabRecords /\ T \subseteq Pages \X Nat
      /\ (\A q \in Pages : PageOk(s, T, q)) /\ \A d \in Caches : CacheOk(s, d)
  BY DEF SlabOk
<1>1. /\ t \in SlabRecords /\ t.cache = s.cache
      /\ t.pages = IF full THEN [s.pages EXCEPT ![c] = Tail(s.pages[c])] ELSE s.pages
      /\ t.full = IF full THEN [s.full EXCEPT ![c] = <<p>> \o s.full[c]] ELSE s.full
      /\ t.free = [s.free EXCEPT ![p] = <<>>]
      /\ t.inuse = [s.inuse EXCEPT ![p] = s.inuse[p] + 1]
  BY <1>0, TakeFields
<1>2. /\ s.pages \in [Caches -> Seq(Pages)] /\ s.full \in [Caches -> Seq(Pages)]
      /\ s.cache \in [Pages -> {NoCache} \cup {<<d>> : d \in Caches}]
      /\ s.free \in [Pages -> Seq(Nat)] /\ s.inuse \in [Pages -> Nat]
  BY <1>0 DEF SlabRecords
<1>3. p \in Pages /\ p \in ToSet(s.pages[c]) /\ s.free[p] = <<>>
  BY <1>2, NonEmptyDomain
<1>4. p \in PagesOf(s, c) /\ s.cache[p] = <<c>>
  BY <1>0, <1>3 DEF CacheOk, PagesOf
<1> HIDE DEF t, p
(* A page whose slots are all taken is not among those with a free slot. *)
<1>5. Total[c] = 0
  <2>1. Total[c] \in Nat
    BY SlabConstants
  <2>2. ~(Total[c] > 0)
    BY <1>0, <1>3 DEF CacheOk
  <2> QED BY <2>1, <2>2
<1>6. full /\ t.free = s.free
  <2>1. s.inuse[p] \in Nat
    BY <1>2, <1>3
  <2>2. full
    BY <1>5, <2>1
  <2>3. [s.free EXCEPT ![p] = <<>>] = s.free
    BY <1>2, <1>3
  <2> QED BY <1>1, <2>2, <2>3
<1>7. /\ t.pages = [s.pages EXCEPT ![c] = Tail(s.pages[c])]
      /\ t.full = [s.full EXCEPT ![c] = <<p>> \o s.full[c]]
  BY <1>1, <1>6
<1>8. ASSUME NEW q \in Pages PROVE PageOk(t, T, q)
  <2>1. PageOk(s, T, q) /\ t.cache[q] = s.cache[q] /\ t.free[q] = s.free[q]
    BY <1>0, <1>1, <1>6
  <2>2. CASE q = p
    <3>1. \A d \in Caches : s.cache[q] = <<d>> => d = c
      BY <1>4, <2>2
    <3> QED BY <1>5, <2>1, <3>1 DEF PageOk
  <2>3. CASE q # p
    <3>1. t.inuse[q] = s.inuse[q]
      BY <1>1, <1>2, <2>3
    <3> QED BY <2>1, <3>1 DEF PageOk
  <2> QED BY <2>2, <2>3
<1>9. ASSUME NEW d \in Caches PROVE CacheOk(t, d)
  <2>0. CacheOk(s, d) /\ PagesOf(t, d) = PagesOf(s, d)
    BY <1>0, <1>1 DEF PagesOf
  <2>1. CASE d # c
    <3>1. t.pages[d] = s.pages[d] /\ t.full[d] = s.full[d]
      BY <1>2, <1>7, <2>1
    <3> QED BY <1>6, <2>0, <3>1 DEF CacheOk
  <2>2. CASE d = c
    <3>1. t.pages[d] = Tail(s.pages[d]) /\ t.full[d] = <<p>> \o s.full[d]
      BY <1>2, <1>7, <2>2
    <3>2. s.pages[d] \in Seq(Pages) /\ s.full[d] \in Seq(Pages) /\ s.pages[d] # <<>>
          /\ p = Head(s.pages[d]) /\ IsInjective(s.pages[d]) /\ IsInjective(s.full[d])
      BY <1>2, <2>0, <2>2 DEF CacheOk, p
    <3>3. ToSet(t.pages[d]) = ToSet(s.pages[d]) \ {p} /\ IsInjective(t.pages[d])
      BY <3>1, <3>2, TailElements
    <3>4. p \in ToSet(s.pages[d]) /\ p \notin ToSet(s.full[d])
      BY <1>3, <2>0, <2>2 DEF CacheOk
    <3>5. ToSet(t.full[d]) = ToSet(s.full[d]) \cup {p} /\ IsInjective(t.full[d])
      BY <1>3, <3>1, <3>2, <3>4, PushElements
    <3>6. ~(Total[d] > 0)
      BY <1>5, <2>2
    <3> QED BY <2>0, <3>3, <3>4, <3>5, <3>6 DEF CacheOk
  <2> QED BY <2>1, <2>2
<1>10. SlabOk(t, T)
  BY <1>0, <1>1, <1>8, <1>9 DEF SlabOk
<1> QED BY <1>1, <1>10 DEF t

(* free: the slot returns to its page, and a page that was full to the pages   *)
(* with a free slot.                                                           *)
LEMMA PutOk ==
    ASSUME NEW s, NEW T, SlabOk(s, T), NEW c \in Caches, NEW p, NEW i,
           <<p, i>> \in T, s.cache[p] = <<c>>
    PROVE  SlabOk(Put(s, c, p, i), Without(T, p, i)) /\ Put(s, c, p, i).cache = s.cache
<1> DEFINE t == Put(s, c, p, i)
           U == Without(T, p, i)
           full == s.inuse[p] >= Total[c]
<1>0. s \in SlabRecords /\ T \subseteq Pages \X Nat
      /\ (\A q \in Pages : PageOk(s, T, q)) /\ \A d \in Caches : CacheOk(s, d)
  BY DEF SlabOk
<1>1. p \in Pages /\ i \in Nat
  BY <1>0
<1>2. /\ s.pages \in [Caches -> Seq(Pages)] /\ s.full \in [Caches -> Seq(Pages)]
      /\ s.cache \in [Pages -> {NoCache} \cup {<<d>> : d \in Caches}]
      /\ s.free \in [Pages -> Seq(Nat)] /\ s.inuse \in [Pages -> Nat]
  BY <1>0 DEF SlabRecords
<1>3. i \in TakenIn(T, p)
  <2>1. <<p, i>>[1] = p /\ <<p, i>>[2] = i
    OBVIOUS
  <2> QED BY <2>1 DEF TakenIn
<1>4. /\ IsInjective(s.free[p]) /\ ToSet(s.free[p]) \cap TakenIn(T, p) = {}
      /\ ToSet(s.free[p]) \cup TakenIn(T, p) = 1 .. Total[c]
      /\ Total[c] > 0 => s.inuse[p] = Cardinality(TakenIn(T, p))
  BY <1>0, <1>1 DEF PageOk
<1>5. /\ Total[c] \in Nat /\ Total[c] > 0 /\ IsFiniteSet(TakenIn(T, p))
      /\ s.inuse[p] = Cardinality(TakenIn(T, p))
      /\ Cardinality(1 .. Total[c]) = Total[c] /\ IsFiniteSet(1 .. Total[c])
      /\ Cardinality(TakenIn(T, p)) <= Total[c]
      /\ (Cardinality(TakenIn(T, p)) = Total[c] => TakenIn(T, p) = 1 .. Total[c])
  <2>1. Total[c] \in Nat
    BY SlabConstants
  <2>2. i \in 1 .. Total[c]
    BY <1>3, <1>4
  <2>3. IsFiniteSet(1 .. Total[c]) /\ Cardinality(1 .. Total[c]) = Total[c]
    BY <2>1, FirstNumbers
  <2>4. TakenIn(T, p) \in SUBSET (1 .. Total[c])
    BY <1>4
  <2>5. /\ IsFiniteSet(TakenIn(T, p)) /\ Cardinality(TakenIn(T, p)) <= Cardinality(1 .. Total[c])
        /\ Cardinality(TakenIn(T, p)) = Cardinality(1 .. Total[c]) => TakenIn(T, p) = 1 .. Total[c]
    BY <2>3, <2>4, FS_Subset
  <2> QED BY <1>4, <2>1, <2>2, <2>3, <2>5
<1>6. Cardinality(TakenIn(T, p) \ {i}) = s.inuse[p] - 1 /\ s.inuse[p] \in Nat /\ s.inuse[p] > 0
  <2>1. s.inuse[p] \in Nat
    BY <1>1, <1>2
  <2>2. Cardinality(TakenIn(T, p) \ {i}) = Cardinality(TakenIn(T, p)) - 1
    BY <1>3, <1>5, FS_RemoveElement
  <2>3. Cardinality(TakenIn(T, p)) # 0
    BY <1>3, <1>5, FS_EmptySet
  <2> QED BY <1>5, <2>1, <2>2, <2>3
<1>7. full <=> s.free[p] = <<>>
  <2>1. full <=> TakenIn(T, p) = 1 .. Total[c]
    BY <1>5, <1>6
  <2>2. TakenIn(T, p) = 1 .. Total[c] <=> ToSet(s.free[p]) = {}
    BY <1>4
  <2>3. ToSet(s.free[p]) = {} <=> s.free[p] = <<>>
    <3>1. s.free[p] # <<>> => Head(s.free[p]) \in ToSet(s.free[p])
      BY <1>1, <1>2, NonEmptyDomain
    <3>2. ToSet(<<>>) = {}
      BY DEF ToSet
    <3> QED BY <3>1, <3>2
  <2> QED BY <2>1, <2>2, <2>3
<1>8. p \in PagesOf(s, c) /\ (p \in ToSet(s.full[c]) <=> full)
      /\ (p \in ToSet(s.pages[c]) <=> ~full)
  <2>1. p \in PagesOf(s, c)
    BY <1>1 DEF PagesOf
  <2>2. p \in ToSet(s.pages[c]) <=> s.free[p] # <<>>
    BY <1>0, <1>5, <2>1 DEF CacheOk
  <2>3. p \in ToSet(s.full[c]) <=> p \notin ToSet(s.pages[c])
    BY <1>0, <2>1 DEF CacheOk
  <2> QED BY <1>7, <2>1, <2>2, <2>3
<1>9. IsInjective(s.full[c])
  BY <1>0 DEF CacheOk
<1>10. /\ t \in SlabRecords /\ t.cache = s.cache
       /\ t.pages = IF full THEN [s.pages EXCEPT ![c] = <<p>> \o s.pages[c]] ELSE s.pages
       /\ t.full = IF full THEN [s.full EXCEPT ![c] = RemoveFirst(s.full[c], p)] ELSE s.full
       /\ t.free = [s.free EXCEPT ![p] = <<i>> \o s.free[p]]
       /\ t.inuse = [s.inuse EXCEPT ![p] = s.inuse[p] - 1]
  <2>1. s \in SlabRecords /\ (s.inuse[p] >= Total[c] => p \in ToSet(s.full[c]))
    BY <1>0, <1>8
  <2>2. PutShape(s, t, c, p, i)
    BY <1>1, <1>6, <1>9, <2>1, PutFields
  <2> HIDE DEF t
  <2> QED BY <2>2 DEF PutShape
<1>11. /\ ToSet(<<i>> \o s.free[p]) = ToSet(s.free[p]) \cup {i} /\ IsInjective(<<i>> \o s.free[p])
       /\ <<i>> \o s.free[p] # <<>>
  <2>1. s.free[p] \in Seq(Nat) /\ i \notin ToSet(s.free[p])
    BY <1>1, <1>2, <1>3, <1>4
  <2> QED BY <1>1, <1>4, <2>1, PushElements
<1> HIDE DEF t
<1>12. ASSUME NEW q PROVE TakenIn(U, q) = IF q = p THEN TakenIn(T, q) \ {i} ELSE TakenIn(T, q)
  <2>1. Slots(T)
    BY <1>0 DEF Slots
  <2> QED BY <2>1, TakenInDrops
<1> HIDE DEF U
<1>13. ASSUME NEW q \in Pages PROVE PageOk(t, U, q)
  <2>1. CASE q = p
    <3>1. t.cache[q] = <<c>> /\ t.free[q] = <<i>> \o s.free[p] /\ t.inuse[q] = s.inuse[p] - 1
          /\ TakenIn(U, q) = TakenIn(T, p) \ {i}
      BY <1>1, <1>2, <1>10, <1>12, <2>1
    <3>2. ToSet(t.free[q]) \cap TakenIn(U, q) = {}
          /\ ToSet(t.free[q]) \cup TakenIn(U, q) = 1 .. Total[c]
      BY <1>3, <1>4, <1>11, <3>1
    <3>3. IsInjective(t.free[q]) /\ t.inuse[q] = Cardinality(TakenIn(U, q))
      BY <1>6, <1>11, <3>1
    <3>4. NoCache # <<c>>
      BY DEF NoCache
    <3>5. \A d \in Caches : <<c>> = <<d>> => d = c
      OBVIOUS
    <3> QED BY <3>1, <3>2, <3>3, <3>4, <3>5 DEF PageOk
  <2>2. CASE q # p
    <3>1. t.cache[q] = s.cache[q] /\ t.free[q] = s.free[q] /\ t.inuse[q] = s.inuse[q]
          /\ TakenIn(U, q) = TakenIn(T, q)
      BY <1>2, <1>10, <1>12, <2>2
    <3>2. PageOk(s, T, q)
      BY <1>0
    <3> QED BY <3>1, <3>2 DEF PageOk
  <2> QED BY <2>1, <2>2
<1>14. t.free[p] # <<>> /\ \A q \in Pages \ {p} : t.free[q] = s.free[q]
  BY <1>1, <1>2, <1>10, <1>11
<1>15. ASSUME NEW d \in Caches PROVE CacheOk(t, d)
  <2>0. CacheOk(s, d) /\ PagesOf(t, d) = PagesOf(s, d)
    BY <1>0, <1>10 DEF PagesOf
  <2>2. CASE d # c
    <3>1. t.pages[d] = s.pages[d] /\ t.full[d] = s.full[d]
      BY <1>2, <1>10, <2>2
    <3>2. p \notin PagesOf(s, d)
      BY <2>2 DEF PagesOf
    <3>3. \A q \in PagesOf(s, d) : t.free[q] = s.free[q]
      BY <1>14, <3>2 DEF PagesOf
    <3> QED BY <2>0, <3>1, <3>3 DEF CacheOk
  <2>3. CASE d = c /\ ~full
    <3>1. t.pages[d] = s.pages[d] /\ t.full[d] = s.full[d] /\ s.free[p] # <<>>
      BY <1>2, <1>7, <1>10, <2>3
    <3>2. \A q \in PagesOf(s, d) : t.free[q] # <<>> <=> s.free[q] # <<>>
      BY <1>14, <3>1 DEF PagesOf
    <3> QED BY <2>0, <3>1, <3>2 DEF CacheOk
  <2>4. CASE d = c /\ full
    <3>1. t.pages[d] = <<p>> \o s.pages[d] /\ t.full[d] = RemoveFirst(s.full[d], p)
      BY <1>2, <1>10, <2>4
    <3>2. s.pages[d] \in Seq(Pages) /\ s.full[d] \in Seq(Pages)
          /\ IsInjective(s.pages[d]) /\ IsInjective(s.full[d])
      BY <1>2, <2>0 DEF CacheOk
    <3>3. p \in ToSet(s.full[d]) /\ p \notin ToSet(s.pages[d])
      BY <1>8, <2>4
    <3>4. ToSet(t.pages[d]) = ToSet(s.pages[d]) \cup {p} /\ IsInjective(t.pages[d])
      BY <1>1, <3>1, <3>2, <3>3, PushElements
    <3>5. ToSet(t.full[d]) = ToSet(s.full[d]) \ {p} /\ IsInjective(t.full[d])
      BY <3>1, <3>2, <3>3, RemoveElements
    <3>6. Total[d] > 0 => ToSet(t.pages[d]) = {q \in PagesOf(t, d) : t.free[q] # <<>>}
      BY <1>8, <1>14, <2>0, <2>4, <3>4 DEF CacheOk, PagesOf
    <3> QED BY <2>0, <3>3, <3>4, <3>5, <3>6 DEF CacheOk
  <2> QED BY <2>2, <2>3, <2>4
<1>16. U \subseteq Pages \X Nat
  BY <1>0 DEF U, Without
<1>17. SlabOk(t, U)
  BY <1>10, <1>13, <1>15, <1>16 DEF SlabOk
<1> QED BY <1>10, <1>17 DEF t, U

-----------------------------------------------------------------------------
(* The caches hold their pages. *)
AllHeld(s, H) == \A p \in Pages : s.cache[p] # NoCache => <<p, 0>> \in H

(* The descriptors of the caches made by create_cache are slots of Meta, in use,
   each its own. *)
Descriptors(s, T, m) ==
    /\ m \in [Created -> T \cup {NoSlot}]
    /\ \A c \in Created : m[c] # NoSlot => s.cache[m[c][1]] = <<Meta>>
    /\ \A c, d \in Created : m[c] # NoSlot /\ m[c] = m[d] => c = d

(* No cache waits twice for its first page, and one of create_cache has its
   descriptor. *)
Waiting(g, m) ==
    /\ g \in Seq(Caches) /\ IsInjective(g)
    /\ \A i \in DOMAIN g : g[i] \in Created => m[g[i]] # NoSlot

SlabInv ==
    /\ PmmInv /\ SlabOk(slab, taken) /\ AllHeld(slab, held)
    /\ Descriptors(slab, taken, made) /\ Waiting(growing, made)

(* A page that the page allocator hands out belongs to no cache. *)
LEMMA FreshUnused ==
    ASSUME SlabInv, NEW order \in Orders, AllocPages(order)
    PROVE  /\ PmmInv' /\ Fresh \in Pages /\ slab.cache[Fresh] = NoCache
           /\ held' = held \cup {<<Fresh, 0>>}
<1>1. PmmInv' /\ Fresh \in FreeSingles /\ held' = held \cup {<<Fresh, 0>>}
  BY PmmAlloc DEF SlabInv
<1>2. Fresh \in Pages
  BY <1>1, SinglesFinite, PmmConstants
<1>3. <<Fresh, 0>> \notin held
  BY <1>1 DEF SlabInv, PmmInv
<1> QED BY <1>1, <1>2, <1>3 DEF SlabInv, AllHeld

(* Growing a cache by that page. *)
LEMMA GrowFresh ==
    ASSUME SlabInv, AllocPages(0), NEW c \in Caches
    PROVE  LET t == Grow(slab, c, Fresh)
           IN  /\ PmmInv' /\ SlabOk(t, taken) /\ AllHeld(t, held')
               /\ t.pages[c] # <<>>
               /\ \A p \in Pages : slab.cache[p] # NoCache => t.cache[p] = slab.cache[p]
<1> DEFINE t == Grow(slab, c, Fresh)
<1>1. /\ PmmInv' /\ Fresh \in Pages /\ slab.cache[Fresh] = NoCache
      /\ held' = held \cup {<<Fresh, 0>>}
  BY FreshUnused, PmmConstants
<1>2. SlabOk(slab, taken) /\ slab \in SlabRecords /\ AllHeld(slab, held)
  BY DEF SlabInv, SlabOk
<1>3. GrowShape(slab, t, c, Fresh)
  BY <1>1, <1>2, GrowFields
<1> HIDE DEF t
<1>4. SlabOk(t, taken) /\ t.cache = [slab.cache EXCEPT ![Fresh] = <<c>>] /\ t.pages[c] # <<>>
  BY <1>1, <1>2, <1>3, GrowOk
<1>5. slab.cache \in [Pages -> {NoCache} \cup {<<d>> : d \in Caches}]
  BY <1>2 DEF SlabRecords
<1>6. \A p \in Pages \ {Fresh} : t.cache[p] = slab.cache[p]
  BY <1>4, <1>5
<1>7. AllHeld(t, held')
  BY <1>1, <1>2, <1>6 DEF AllHeld
<1> QED BY <1>1, <1>4, <1>6, <1>7 DEF t

(* What alloc finds. *)
LEMMA ReadyOk ==
    ASSUME SlabInv, NEW c \in Caches, GrowStep(c)
    PROVE  /\ PmmInv' /\ SlabOk(Ready(c), taken) /\ AllHeld(Ready(c), held')
           /\ Ready(c).pages[c] # <<>>
           /\ \A p \in Pages : slab.cache[p] # NoCache => Ready(c).cache[p] = slab.cache[p]
<1>1. CASE slab.pages[c] = <<>>
  <2>1. Ready(c) = Grow(slab, c, Fresh) /\ AllocPages(0)
    BY <1>1 DEF Ready, GrowStep
  <2> QED BY <2>1, GrowFresh
<1>2. CASE slab.pages[c] # <<>>
  <2>1. Ready(c) = slab /\ UNCHANGED pmmVars
    BY <1>2 DEF Ready, GrowStep
  <2>2. PmmInv' /\ held' = held
    BY <2>1 DEF pmmVars, SlabInv, PmmInv, FreeSingles
  <2> QED BY <1>2, <2>1, <2>2 DEF SlabInv
<1> QED BY <1>1, <1>2

(* The slot alloc returns was free, and belongs to the cache. *)
LEMMA SlotOk ==
    ASSUME SlabInv, NEW c \in Caches, GrowStep(c), Slot(c) # NoSlot
    PROVE  /\ SlabOk(Take(Ready(c), c), taken \cup {Slot(c)})
           /\ Take(Ready(c), c).cache = Ready(c).cache
           /\ Slot(c) \notin taken /\ Slot(c)[1] \in Pages /\ Ready(c).cache[Slot(c)[1]] = <<c>>
<1> DEFINE r == Ready(c)
           p == Head(r.pages[c])
           x == Head(r.free[p])
<1>1. SlabOk(r, taken) /\ r.pages[c] # <<>>
  BY ReadyOk
<1>2. r.free[p] # <<>> /\ Slot(c) = <<p, x>>
  BY DEF Slot
<1> HIDE DEF r
<1>3. /\ SlabOk(Take(r, c), With(taken, p, x)) /\ Take(r, c).cache = r.cache
      /\ <<p, x>> \notin taken /\ <<p, x>> \in Pages \X Nat /\ r.cache[p] = <<c>>
  BY <1>1, <1>2, TakeOk
<1> HIDE DEF p, x
<1>4. With(taken, p, x) = taken \cup {Slot(c)}
  BY <1>2 DEF With
<1>5. Slot(c)[1] = p /\ p \in Pages
  BY <1>2, <1>3
<1> QED BY <1>2, <1>3, <1>4, <1>5 DEF r

(* Only a page that cannot hold a slot yields none. *)
LEMMA SlotExists ==
    ASSUME SlabInv, NEW c \in Caches, GrowStep(c), Total[c] > 0
    PROVE  Slot(c) # NoSlot
<1> DEFINE r == Ready(c)
           p == Head(r.pages[c])
<1>1. SlabOk(r, taken) /\ r.pages[c] # <<>>
  BY ReadyOk
<1>2. CacheOk(r, c) /\ r.pages[c] \in Seq(Pages)
  BY <1>1 DEF SlabOk, SlabRecords
<1> HIDE DEF r
<1>3. p \in ToSet(r.pages[c])
  BY <1>1, <1>2, NonEmptyDomain
<1>4. r.free[p] # <<>>
  BY <1>2, <1>3 DEF CacheOk
<1>5. <<p, Head(r.free[p])>> # NoSlot
  BY DEF NoSlot
<1> QED BY <1>4, <1>5 DEF Slot, r

(* Without slot: the page that has none may change lists. *)
LEMMA NoSlotOk ==
    ASSUME SlabInv, NEW c \in Caches, GrowStep(c), Slot(c) = NoSlot
    PROVE  SlabOk(Take(Ready(c), c), taken) /\ Take(Ready(c), c).cache = Ready(c).cache
<1> DEFINE r == Ready(c)
           p == Head(r.pages[c])
<1>1. SlabOk(r, taken) /\ r.pages[c] # <<>>
  BY ReadyOk
<1>2. <<p, Head(r.free[p])>> # NoSlot
  BY DEF NoSlot
<1>3. r.free[p] = <<>>
  BY <1>2 DEF Slot
<1> HIDE DEF r
<1> QED BY <1>1, <1>3, TakeNull DEF r

(* More slots in use, and pages that keep their cache: the descriptors stay. *)
LEMMA DescriptorsKept ==
    ASSUME NEW s, NEW t, NEW T, NEW U, NEW m, SlabOk(s, T), Descriptors(s, T, m), T \subseteq U,
           \A p \in Pages : s.cache[p] # NoCache => t.cache[p] = s.cache[p]
    PROVE  Descriptors(t, U, m)
<1>1. T \subseteq Pages \X Nat
  BY DEF SlabOk
<1>2. ASSUME NEW c \in Created, m[c] # NoSlot PROVE t.cache[m[c][1]] = <<Meta>>
  <2>1. m[c] \in T /\ s.cache[m[c][1]] = <<Meta>>
    BY <1>2 DEF Descriptors
  <2>2. m[c][1] \in Pages
    BY <1>1, <2>1
  <2>3. <<Meta>> # NoCache
    BY DEF NoCache
  <2> QED BY <2>1, <2>2, <2>3
<1> QED BY <1>2 DEF Descriptors

LEMMA SlabInitially == MemInit => SlabInv
<1> SUFFICES ASSUME MemInit PROVE SlabInv
  OBVIOUS
<1>1. PmmInv
  BY PmmInitially DEF MemInit
<1>2. /\ slab.pages = [c \in Caches |-> <<>>] /\ slab.full = [c \in Caches |-> <<>>]
      /\ slab.cache = [p \in Pages |-> NoCache]
      /\ slab.free = [p \in Pages |-> <<>>] /\ slab.inuse = [p \in Pages |-> 0]
      /\ taken = {} /\ growing = BootCaches /\ made = [c \in Created |-> NoSlot]
  BY DEF MemInit
<1>3. slab \in SlabRecords
  BY DEF MemInit, SlabRecords
<1>4. ASSUME NEW p \in Pages PROVE PageOk(slab, taken, p)
  <2>1. slab.cache[p] = NoCache /\ TakenIn(taken, p) = {}
    BY <1>2 DEF TakenIn
  <2>2. \A c : <<c>> # NoCache
    BY DEF NoCache
  <2> QED BY <2>1, <2>2 DEF PageOk
<1>5. ASSUME NEW c \in Caches PROVE CacheOk(slab, c)
  <2>1. slab.pages[c] = <<>> /\ slab.full[c] = <<>>
    BY <1>2
  <2>2. ToSet(<<>>) = {} /\ IsInjective(<<>>)
    BY DEF ToSet, IsInjective
  <2>3. PagesOf(slab, c) = {}
    <3>1. <<c>> # NoCache
      BY DEF NoCache
    <3> QED BY <1>2, <3>1 DEF PagesOf
  <2> QED BY <2>1, <2>2, <2>3 DEF CacheOk
<1>6. SlabOk(slab, taken)
  BY <1>2, <1>3, <1>4, <1>5 DEF SlabOk
<1>7. AllHeld(slab, held)
  BY <1>2 DEF AllHeld
<1>8. Descriptors(slab, taken, made)
  BY <1>2 DEF Descriptors
<1>9. Waiting(growing, made)
  BY <1>2, SlabConstants DEF Waiting
<1> QED BY <1>1, <1>6, <1>7, <1>8, <1>9 DEF SlabInv

(* alloc and kmalloc. *)
LEMMA AllocKeeps ==
    ASSUME SlabInv, NEW c \in Caches, Alloc(c) PROVE SlabInv'
<1>1. /\ GrowStep(c) /\ Slot(c) # NoSlot /\ slab' = Take(Ready(c), c)
      /\ taken' = taken \cup {Slot(c)} /\ made' = made /\ growing' = growing
  BY DEF Alloc
<1>2. /\ PmmInv' /\ AllHeld(Ready(c), held')
      /\ \A p \in Pages : slab.cache[p] # NoCache => Ready(c).cache[p] = slab.cache[p]
  BY <1>1, ReadyOk
<1>3. SlabOk(slab', taken') /\ slab'.cache = Ready(c).cache
  BY <1>1, SlotOk
<1>4. AllHeld(slab', held')
  BY <1>2, <1>3 DEF AllHeld
<1>5. Descriptors(slab', taken', made')
  <2>1. SlabOk(slab, taken) /\ Descriptors(slab, taken, made) /\ taken \subseteq taken'
    BY <1>1 DEF SlabInv
  <2>2. \A p \in Pages : slab.cache[p] # NoCache => slab'.cache[p] = slab.cache[p]
    BY <1>2, <1>3
  <2> QED BY <1>1, <2>1, <2>2, DescriptorsKept
<1>6. Waiting(growing', made')
  BY <1>1 DEF SlabInv
<1> QED BY <1>2, <1>3, <1>4, <1>5, <1>6 DEF SlabInv

LEMMA AllocNullKeeps ==
    ASSUME SlabInv, NEW c \in Caches, AllocNull(c) PROVE SlabInv'
<1>1. /\ GrowStep(c) /\ Slot(c) = NoSlot /\ (slab' = Take(Ready(c), c) \/ slab' = Ready(c))
      /\ taken' = taken /\ made' = made /\ growing' = growing
  BY DEF AllocNull
<1>2. /\ PmmInv' /\ SlabOk(Ready(c), taken) /\ AllHeld(Ready(c), held')
      /\ \A p \in Pages : slab.cache[p] # NoCache => Ready(c).cache[p] = slab.cache[p]
  BY <1>1, ReadyOk
<1>3. SlabOk(slab', taken') /\ slab'.cache = Ready(c).cache
  BY <1>1, <1>2, NoSlotOk
<1>4. AllHeld(slab', held')
  BY <1>2, <1>3 DEF AllHeld
<1>5. Descriptors(slab', taken', made')
  <2>1. SlabOk(slab, taken) /\ Descriptors(slab, taken, made) /\ taken \subseteq taken'
    BY <1>1 DEF SlabInv
  <2>2. \A p \in Pages : slab.cache[p] # NoCache => slab'.cache[p] = slab.cache[p]
    BY <1>2, <1>3
  <2> QED BY <1>1, <2>1, <2>2, DescriptorsKept
<1>6. Waiting(growing', made')
  BY <1>1 DEF SlabInv
<1> QED BY <1>2, <1>3, <1>4, <1>5, <1>6 DEF SlabInv

(* create_cache takes its descriptor. *)
LEMMA CreateCacheKeeps ==
    ASSUME SlabInv, NEW c \in Caches, CreateCache(c) PROVE SlabInv'
<1>1. /\ GrowStep(Meta) /\ slab' = Take(Ready(Meta), Meta) /\ taken' = taken \cup {Slot(Meta)}
      /\ made' = [made EXCEPT ![c] = Slot(Meta)] /\ growing' = <<c>>
      /\ c \in Created /\ made[c] = NoSlot
  BY DEF CreateCache, Live
<1>2. Meta \in Caches /\ Total[Meta] > 0
  BY SlabConstants
<1>3. /\ PmmInv' /\ AllHeld(Ready(Meta), held')
      /\ \A p \in Pages : slab.cache[p] # NoCache => Ready(Meta).cache[p] = slab.cache[p]
  BY <1>1, <1>2, ReadyOk
<1>4. Slot(Meta) # NoSlot
  BY <1>1, <1>2, SlotExists
<1>5. /\ SlabOk(slab', taken') /\ slab'.cache = Ready(Meta).cache
      /\ Slot(Meta) \notin taken /\ Ready(Meta).cache[Slot(Meta)[1]] = <<Meta>>
  BY <1>1, <1>2, <1>4, SlotOk
<1>6. AllHeld(slab', held')
  BY <1>3, <1>5 DEF AllHeld
<1>7. Descriptors(slab', taken', made)
  <2>1. SlabOk(slab, taken) /\ Descriptors(slab, taken, made) /\ taken \subseteq taken'
    BY <1>1 DEF SlabInv
  <2>2. \A p \in Pages : slab.cache[p] # NoCache => slab'.cache[p] = slab.cache[p]
    BY <1>3, <1>5
  <2> QED BY <2>1, <2>2, DescriptorsKept
<1>8. made \in [Created -> taken \cup {NoSlot}]
  BY DEF SlabInv, Descriptors
<1>9. made'[c] = Slot(Meta) /\ \A d \in Created \ {c} : made'[d] = made[d] /\ made'[d] # Slot(Meta)
  BY <1>1, <1>4, <1>5, <1>8
<1>10. Descriptors(slab', taken', made')
  <2>1. made' \in [Created -> taken' \cup {NoSlot}]
    BY <1>1, <1>8
  <2>2. \A d \in Created : made'[d] # NoSlot => slab'.cache[made'[d][1]] = <<Meta>>
    BY <1>5, <1>7, <1>9 DEF Descriptors
  <2>3. \A d, e \in Created : made'[d] # NoSlot /\ made'[d] = made'[e] => d = e
    BY <1>7, <1>9 DEF Descriptors
  <2> QED BY <2>1, <2>2, <2>3 DEF Descriptors
<1>11. Waiting(growing', made')
  <2>1. <<c>> \in Seq(Caches) /\ DOMAIN <<c>> = {1} /\ <<c>>[1] = c
    OBVIOUS
  <2>2. IsInjective(<<c>>)
    BY <2>1 DEF IsInjective
  <2> QED BY <1>1, <1>4, <1>9, <2>1, <2>2 DEF Waiting
<1> QED BY <1>3, <1>5, <1>6, <1>10, <1>11 DEF SlabInv

(* A slot in use lies in a page of some cache. *)
LEMMA TakenHasCache ==
    ASSUME NEW s, NEW T, SlabOk(s, T), NEW o \in T
    PROVE  /\ o[1] \in Pages /\ o = <<o[1], o[2]>>
           /\ \E c \in Caches : s.cache[o[1]] = <<c>>
<1>1. T \subseteq Pages \X Nat /\ s \in SlabRecords
  BY DEF SlabOk
<1>2. o[1] \in Pages /\ o = <<o[1], o[2]>>
  BY <1>1
<1>3. PageOk(s, T, o[1])
  BY <1>2 DEF SlabOk
<1>4. o[2] \in TakenIn(T, o[1])
  BY DEF TakenIn
<1>5. s.cache[o[1]] # NoCache
  BY <1>3, <1>4 DEF PageOk
<1>6. s.cache[o[1]] \in {NoCache} \cup {<<c>> : c \in Caches}
  BY <1>1, <1>2 DEF SlabRecords
<1> QED BY <1>2, <1>5, <1>6

(* A slot that is no descriptor may go. *)
LEMMA DescriptorsOthers ==
    ASSUME NEW s, NEW t, NEW T, NEW U, NEW m, Descriptors(s, T, m), t.cache = s.cache,
           NEW o, U = T \ {o}, o \notin {m[c] : c \in Created}
    PROVE  Descriptors(t, U, m)
<1>1. m \in [Created -> U \cup {NoSlot}]
  BY DEF Descriptors
<1> QED BY <1>1 DEF Descriptors

(* kfree and cache_free. *)
LEMMA FreeKeeps ==
    ASSUME SlabInv, NEW o \in taken, Free(o) PROVE SlabInv'
<1>1. /\ slab' = Put(slab, slab.cache[o[1]][1], o[1], o[2]) /\ taken' = taken \ {o}
      /\ o \notin {made[c] : c \in Created} /\ made' = made /\ growing' = growing
      /\ lists' = lists /\ desc' = desc /\ freePages' = freePages /\ held' = held
  BY DEF Free, pmmVars
<1>2. SlabOk(slab, taken)
  BY DEF SlabInv
<1>3. o[1] \in Pages /\ o = <<o[1], o[2]>>
  BY <1>2, TakenHasCache
<1>4. PICK c \in Caches : slab.cache[o[1]] = <<c>>
  BY <1>2, TakenHasCache
<1>5. slab' = Put(slab, c, o[1], o[2]) /\ <<o[1], o[2]>> \in taken
  BY <1>1, <1>3, <1>4
<1>6. SlabOk(slab', Without(taken, o[1], o[2])) /\ slab'.cache = slab.cache
  BY <1>2, <1>4, <1>5, PutOk
<1>7. taken' = Without(taken, o[1], o[2])
  BY <1>1, <1>3 DEF Without
<1>8. PmmInv'
  BY <1>1 DEF SlabInv, PmmInv, FreeSingles
<1>9. AllHeld(slab', held')
  BY <1>1, <1>6 DEF SlabInv, AllHeld
<1>10. Descriptors(slab', taken', made')
  BY <1>1, <1>6, DescriptorsOthers DEF SlabInv
<1>11. Waiting(growing', made')
  BY <1>1 DEF SlabInv
<1> QED BY <1>6, <1>7, <1>8, <1>9, <1>10, <1>11 DEF SlabInv

(* Of the caches that wait, the others still do so. *)
LEMMA WaitingTail ==
    ASSUME NEW g, NEW m, NEW n, Waiting(g, m), g # <<>>,
           \A c \in Created : c # Head(g) => n[c] = m[c]
    PROVE  Waiting(Tail(g), n) /\ Head(g) \in Caches /\ (Head(g) \in Created => m[Head(g)] # NoSlot)
<1>1. g \in Seq(Caches) /\ IsInjective(g)
  BY DEF Waiting
<1>2. /\ ToSet(Tail(g)) = ToSet(g) \ {Head(g)} /\ IsInjective(Tail(g))
      /\ Tail(g) \in Seq(Caches) /\ Head(g) \in Caches /\ Head(g) \in ToSet(g)
  BY <1>1, TailElements, NonEmptyDomain
<1>3. \A c \in ToSet(g) : c \in Created => m[c] # NoSlot
  BY DEF Waiting, ToSet
<1>4. \A i \in DOMAIN Tail(g) : Tail(g)[i] \in ToSet(Tail(g))
  BY DEF ToSet
<1> QED BY <1>2, <1>3, <1>4 DEF Waiting

(* The first page of a cache of the kernel or of create_cache. *)
LEMMA GrowFirstKeeps == ASSUME SlabInv, GrowFirst PROVE SlabInv'
<1> DEFINE c == Head(growing)
<1>1. /\ growing # <<>> /\ AllocPages(0) /\ slab' = Grow(slab, c, Fresh)
      /\ growing' = Tail(growing) /\ taken' = taken /\ made' = made
  BY DEF GrowFirst
<1>2. Waiting(growing, made)
  BY DEF SlabInv
<1>3. c \in Caches /\ Waiting(growing', made')
  BY <1>1, <1>2, WaitingTail
<1> HIDE DEF c
<1>4. /\ PmmInv' /\ SlabOk(slab', taken') /\ AllHeld(slab', held')
      /\ \A p \in Pages : slab.cache[p] # NoCache => slab'.cache[p] = slab.cache[p]
  BY <1>1, <1>3, GrowFresh
<1>5. Descriptors(slab', taken', made')
  BY <1>1, <1>4, DescriptorsKept DEF SlabInv
<1> QED BY <1>3, <1>4, <1>5 DEF SlabInv

(* create_cache gives its descriptor back. *)
LEMMA GrowFailsKeeps == ASSUME SlabInv, GrowFails PROVE SlabInv'
<1> DEFINE c == Head(growing)
<1>1. /\ growing # <<>> /\ growing' = Tail(growing)
      /\ lists' = lists /\ desc' = desc /\ freePages' = freePages /\ held' = held
  BY DEF GrowFails, pmmVars
<1>2. Waiting(growing, made) /\ SlabOk(slab, taken) /\ Descriptors(slab, taken, made)
  BY DEF SlabInv
<1>3. PmmInv'
  BY <1>1 DEF SlabInv, PmmInv, FreeSingles
<1>4. CASE c \notin Created
  <2>1. slab' = slab /\ taken' = taken /\ made' = made
    BY <1>4 DEF GrowFails
  <2>2. Waiting(growing', made')
    BY <1>1, <1>2, <2>1, WaitingTail
  <2> QED BY <1>1, <1>2, <1>3, <2>1, <2>2 DEF SlabInv
<1>5. CASE c \in Created
  <2>1. /\ slab' = Put(slab, Meta, made[c][1], made[c][2])
        /\ taken' = taken \ {made[c]} /\ made' = [made EXCEPT ![c] = NoSlot]
    BY <1>5 DEF GrowFails
  <2>2. made \in [Created -> taken \cup {NoSlot}]
    BY <1>2 DEF Descriptors
  <2>3. \A d \in Created : d # c => made'[d] = made[d]
    BY <2>1, <2>2
  <2>4. Waiting(growing', made') /\ made[c] # NoSlot
    BY <1>1, <1>2, <1>5, <2>3, WaitingTail
  <2> DEFINE p == made[c][1]
             i == made[c][2]
  <2>5. made[c] \in taken /\ slab.cache[p] = <<Meta>> /\ made'[c] = NoSlot
    BY <1>2, <1>5, <2>1, <2>2, <2>4 DEF Descriptors
  <2>6. made[c] = <<p, i>>
    BY <1>2, <2>5, TakenHasCache
  <2>7. <<p, i>> \in taken /\ Meta \in Caches
    BY <2>5, <2>6, SlabConstants
  <2>8. SlabOk(slab', Without(taken, p, i)) /\ slab'.cache = slab.cache
    BY <1>2, <2>1, <2>5, <2>7, PutOk
  <2>9. taken' = Without(taken, p, i)
    BY <2>1, <2>6 DEF Without
  <2>10. AllHeld(slab', held')
    BY <1>1, <2>8 DEF SlabInv, AllHeld
  <2>11. Descriptors(slab', taken', made')
    <3>1. \A d \in Created : d # c /\ made[d] # NoSlot => made[d] # made[c]
      BY <1>2, <1>5, <2>4 DEF Descriptors
    <3>2. made' \in [Created -> taken' \cup {NoSlot}]
      <4>1. \A d \in Created : made'[d] \in taken' \cup {NoSlot}
        BY <2>1, <2>2, <2>3, <2>5, <3>1
      <4>2. DOMAIN made' = Created /\ made' = [d \in Created |-> made'[d]]
        BY <2>1, <2>2
      <4> QED BY <4>1, <4>2
    <3>3. \A d \in Created : made'[d] # NoSlot => d # c /\ made'[d] = made[d]
      BY <2>3, <2>5
    <3>4. \A d, e \in Created : made'[d] # NoSlot /\ made'[d] = made'[e] => d = e
      BY <1>2, <3>3 DEF Descriptors
    <3>5. \A d \in Created : made'[d] # NoSlot => slab'.cache[made'[d][1]] = <<Meta>>
      BY <1>2, <2>8, <3>3 DEF Descriptors
    <3> QED BY <3>2, <3>4, <3>5 DEF Descriptors
  <2> QED BY <1>3, <2>4, <2>8, <2>9, <2>10, <2>11 DEF SlabInv
<1> QED BY <1>4, <1>5

LEMMA SlabStep == SlabInv /\ [MemNext]_memVars => SlabInv'
<1> SUFFICES ASSUME SlabInv, [MemNext]_memVars PROVE SlabInv'
  OBVIOUS
<1>1. ASSUME NEW c \in Caches, Alloc(c) \/ AllocNull(c) \/ CreateCache(c) PROVE SlabInv'
  BY <1>1, AllocKeeps, AllocNullKeeps, CreateCacheKeeps
<1>2. ASSUME NEW o \in taken, Free(o) PROVE SlabInv'
  BY <1>2, FreeKeeps
<1>3. CASE GrowFirst
  BY <1>3, GrowFirstKeeps
<1>4. CASE GrowFails
  BY <1>4, GrowFailsKeeps
<1>5. CASE OthersAlloc
  <2>1. PICK o \in Orders : AllocPages(o) /\ UNCHANGED <<slab, taken, made, growing, fault>>
    BY <1>5 DEF OthersAlloc
  <2>2. PmmInv' /\ held' = held \cup {<<Fresh, 0>>}
    BY <2>1, FreshUnused
  <2> QED BY <2>1, <2>2 DEF SlabInv, AllHeld
(* The others free no page of a cache: they hold none. *)
<1>6. CASE OthersFree
  <2>1. PICK b \in held : b[1] \notin SlabPages /\ FreePages(b[1], b[2])
    BY <1>6 DEF OthersFree
  <2>2. UNCHANGED <<slab, taken, made, growing, fault>>
    BY <1>6 DEF OthersFree
  <2>3. PmmInv' /\ held' = held \ {<<b[1], 0>>}
    BY <2>1, PmmFree DEF SlabInv
  <2>4. AllHeld(slab, held')
    <3>1. ASSUME NEW p \in Pages, slab.cache[p] # NoCache PROVE <<p, 0>> \in held'
      <4>1. p # b[1]
        BY <2>1, <3>1 DEF SlabPages
      <4>2. <<p, 0>> \in held
        BY <3>1 DEF SlabInv, AllHeld
      <4> QED BY <2>3, <4>1, <4>2
    <3> QED BY <3>1 DEF AllHeld
  <2> QED BY <2>2, <2>3, <2>4 DEF SlabInv
<1>7. CASE UNCHANGED memVars
  BY <1>7 DEF memVars, pmmVars, SlabInv, PmmInv, FreeSingles
<1> QED BY <1>1, <1>2, <1>3, <1>4, <1>5, <1>6, <1>7 DEF MemNext

(* The caches keep SlabInv under every order of calls. *)
THEOREM SlabInvariant == MemSpec => []SlabInv
BY SlabInitially, SlabStep, PTL DEF MemSpec

-----------------------------------------------------------------------------
LEMMA SlabPageHasCache ==
    ASSUME SlabInv, NEW p \in SlabPages
    PROVE  p \in Pages /\ \E c \in Caches : slab.cache[p] = <<c>>
<1>1. p \in Pages /\ slab.cache[p] # NoCache /\ slab \in SlabRecords
  BY DEF SlabPages, SlabInv, SlabOk
<1>2. slab.cache[p] \in {NoCache} \cup {<<c>> : c \in Caches}
  BY <1>1 DEF SlabRecords
<1> QED BY <1>1, <1>2

(* Slab: no slot is handed out twice and none is lost, whatever the caches, the
   slots of their pages and the order of allocations, frees, failed and new
   caches. *)
THEOREM SlabSlotsOnce == MemSpec => []SlotsOnce
<1>1. SlabInv => SlotsOnce
  <2> SUFFICES ASSUME SlabInv, NEW p \in SlabPages
               PROVE  LET c == slab.cache[p][1]
                      IN  /\ IsInjective(slab.free[p])
                          /\ ToSet(slab.free[p]) \cap TakenOf(p) = {}
                          /\ ToSet(slab.free[p]) \cup TakenOf(p) = 1 .. Total[c]
                          /\ Total[c] > 0 => slab.inuse[p] = Cardinality(TakenOf(p))
    BY DEF SlotsOnce
  <2>1. PICK c \in Caches : slab.cache[p] = <<c>>
    BY SlabPageHasCache
  <2>2. slab.cache[p][1] = c /\ TakenOf(p) = TakenIn(taken, p)
    BY <2>1 DEF TakenOf, TakenIn
  <2>3. PageOk(slab, taken, p)
    BY SlabPageHasCache DEF SlabInv, SlabOk
  <2> QED BY <2>1, <2>2, <2>3 DEF PageOk
<1> QED BY <1>1, SlabInvariant, PTL

(* Slab: every page of a cache is on one of its lists, once, and where alloc
   looks if it has a free slot: a slot that was freed is always found again. *)
THEOREM SlabPagesListed == MemSpec => []PagesListed
<1>1. SlabInv => PagesListed
  <2> SUFFICES ASSUME SlabInv, NEW c \in Caches
               PROVE  LET of == {p \in SlabPages : slab.cache[p][1] = c}
                      IN  /\ IsInjective(slab.pages[c] \o slab.full[c])
                          /\ ToSet(slab.pages[c] \o slab.full[c]) = of
                          /\ Total[c] > 0 => ToSet(slab.pages[c]) = {p \in of : slab.free[p] # <<>>}
    BY DEF PagesListed
  <2> DEFINE of == {p \in SlabPages : slab.cache[p][1] = c}
  <2>1. CacheOk(slab, c) /\ slab.pages[c] \in Seq(Pages) /\ slab.full[c] \in Seq(Pages)
    BY DEF SlabInv, SlabOk, SlabRecords
  <2>2. of = PagesOf(slab, c)
    <3>1. ASSUME NEW p \in of PROVE p \in PagesOf(slab, c)
      <4>1. PICK d \in Caches : slab.cache[p] = <<d>>
        BY SlabPageHasCache
      <4> QED BY <4>1, SlabPageHasCache DEF PagesOf
    <3>2. ASSUME NEW p \in PagesOf(slab, c) PROVE p \in of
      <4>1. p \in Pages /\ slab.cache[p] = <<c>> /\ <<c>> # NoCache /\ <<c>>[1] = c
        BY DEF PagesOf, NoCache
      <4> QED BY <4>1 DEF SlabPages
    <3> QED BY <3>1, <3>2
  <2> HIDE DEF of
  <2>3. /\ IsInjective(slab.pages[c] \o slab.full[c])
        /\ ToSet(slab.pages[c] \o slab.full[c]) = of
    <3> DEFINE s == slab.pages[c]
               t == slab.full[c]
    <3>1. /\ IsInjective(s) /\ IsInjective(t) /\ ToSet(s) \cap ToSet(t) = {}
          /\ ToSet(s) \cup ToSet(t) = of
      BY <2>1, <2>2 DEF CacheOk
    <3>2. s \in Seq(Pages) /\ t \in Seq(Pages)
      BY <2>1
    <3> HIDE DEF s, t
    <3>3. IsInjective(s \o t) /\ ToSet(s \o t) = ToSet(s) \cup ToSet(t)
      BY <3>1, <3>2, ConcatElements
    <3> QED BY <3>1, <3>3 DEF s, t
  <2>4. Total[c] > 0 => ToSet(slab.pages[c]) = {p \in of : slab.free[p] # <<>>}
    BY <2>1, <2>2 DEF CacheOk
  <2> QED BY <2>3, <2>4 DEF of
<1> QED BY <1>1, SlabInvariant, PTL

(* Slab: a page of a cache stays the cache's: the page allocator has it neither
   on a list nor in a block it gave to another. *)
THEOREM SlabPagesAreHeld == MemSpec => []SlabPagesHeld
<1>1. SlabInv => SlabPagesHeld
  <2> SUFFICES ASSUME SlabInv, NEW p \in SlabPages
               PROVE  <<p, 0>> \in held /\ \A b \in FreeBlocks : p \notin Block(b[1], b[2])
    BY DEF SlabPagesHeld
  <2>1. <<p, 0>> \in held
    BY DEF SlabPages, SlabInv, AllHeld
  <2>2. PmmInv
    BY DEF SlabInv
  <2>3. p \in Usable \ FreeSingles
    BY <2>1, <2>2 DEF PmmInv
  <2>4. ASSUME NEW b \in FreeBlocks PROVE p \notin Block(b[1], b[2])
    <3>1. PICK f \in FreeSingles : b = <<f, 0>>
      BY <2>2, FreeBlocksSingle
    <3>2. f \in Nat
      BY SinglesFinite, PmmConstants
    <3>3. Block(b[1], b[2]) = {f}
      BY <3>1, <3>2, OnePage
    <3> QED BY <2>3, <3>3
  <2> QED BY <2>1, <2>4
<1> QED BY <1>1, SlabInvariant, PTL

-----------------------------------------------------------------------------
(* The pool of the font engine. *)

(* No block reaches behind the offset, so that what is cut off there is nobody's;
   and no block outlives the memory object, so that the offset only falls when
   there is none left. *)
FontInv ==
    /\ offset \in 0 .. PoolSize
    /\ blocks \in [Owners -> [at : Nat, size : Nat]]
    /\ \A c \in Owners : blocks[c].at + blocks[c].size <= offset
    /\ blocks[Memory] = Nowhere => \A c \in Owners : blocks[c] = Nowhere
    /\ DataKept

LEMMA Multiple ==
    ASSUME NEW q \in Nat, NEW w \in Nat \ {0}
    PROVE  (q * w) % w = 0 /\ q * w \in Nat
  OBVIOUS

LEMMA Divided ==
    ASSUME NEW n \in Nat, NEW w \in Nat \ {0}
    PROVE  n = (n \div w) * w + (n % w) /\ n \div w \in Nat /\ n % w \in Nat /\ n % w < w
  OBVIOUS

(* RoundUp goes up, to a multiple of the alignment. *)
LEMMA RoundsUp ==
    ASSUME NEW n \in Nat
    PROVE  RoundUp(n) \in Nat /\ n <= RoundUp(n) /\ RoundUp(n) % Align = 0
<1>1. Align \in Nat \ {0} /\ n + Align - 1 \in Nat
  BY FontAssumption
<1> DEFINE q == (n + Align - 1) \div Align
           r == (n + Align - 1) % Align
<1>2. n + Align - 1 = q * Align + r /\ q \in Nat /\ r \in Nat /\ r < Align
  BY <1>1, Divided
<1>3. RoundUp(n) = q * Align
  BY DEF RoundUp
<1> HIDE DEF q, r
<1>4. (q * Align) % Align = 0 /\ q * Align \in Nat
  BY <1>1, <1>2, Multiple
<1>5. n <= q * Align
  BY <1>1, <1>2, <1>4
<1> QED BY <1>3, <1>4, <1>5

(* Nothing lies in a block of size 0. *)
LEMMA NowhereEmpty == Within(Nowhere) = {}
  BY DEF Within, Nowhere

(* A new block cut off at from, where no other block reaches: every client keeps
   its data, and the client of the block keeps what the new block has room for. *)
LEMMA GiveKeeps ==
    ASSUME NEW c \in Owners, NEW from \in 0 .. PoolSize, NEW size \in Nat,
           NEW old \in [at : Nat, size : Nat],
           FontInv, Fits(from, size), Give(c, from, size, old),
           \A d \in Owners : blocks[d].at + blocks[d].size <= from,
           \A i \in Within(old) : i \in Bytes /\ pool[i] = c,
           c # Memory => blocks[Memory] # Nowhere,
           c = Memory => \A d \in Owners : blocks[d] = Nowhere
    PROVE  FontInv'
<1> DEFINE new == [at |-> RoundUp(from), size |-> size]
<1>1. from \in Nat /\ PoolSize \in Nat /\ RoundUp(from) \in Nat
      /\ from <= RoundUp(from) /\ RoundUp(from) % Align = 0
  BY FontAssumption, RoundsUp
<1>2. /\ offset' = RoundUp(from) + size
      /\ blocks' = [blocks EXCEPT ![c] = new]
      /\ pool' = [i \in Bytes |->
             IF i \notin Within(new) THEN pool[i]
             ELSE IF i - new.at < old.size THEN pool[old.at + (i - new.at)] ELSE c]
  BY DEF Give, Cut
<1>3. /\ new.at = RoundUp(from) /\ new.size = size /\ new \in [at : Nat, size : Nat]
      /\ RoundUp(from) + size <= PoolSize
  BY <1>1 DEF Fits
<1> HIDE DEF new
<1>4. Within(new) \subseteq Bytes /\ Within(new) = RoundUp(from) .. RoundUp(from) + size - 1
  BY <1>1, <1>3 DEF Within, Bytes
<1>5. offset' \in 0 .. PoolSize /\ blocks' \in [Owners -> [at : Nat, size : Nat]]
  BY <1>1, <1>2, <1>3 DEF FontInv
<1>6. ASSUME NEW d \in Owners
      PROVE  /\ blocks'[d].at % Align = 0
             /\ blocks'[d].at + blocks'[d].size <= offset'
             /\ \A i \in Within(blocks'[d]) : pool'[i] = d
  <2>1. CASE d = c
    <3>1. blocks'[d] = new
      BY <1>2, <2>1 DEF FontInv
    <3>2. ASSUME NEW i \in Within(new) PROVE pool'[i] = c
      <4>1. pool'[i] = IF i - new.at < old.size THEN pool[old.at + (i - new.at)] ELSE c
        BY <1>2, <1>4, <3>2
      <4>2. CASE i - new.at < old.size
        <5>1. old.at \in Nat /\ old.size \in Nat /\ i - new.at \in Nat
          BY <1>1, <1>3, <1>4, <3>2
        <5>2. old.at + (i - new.at) \in Within(old)
          BY <4>2, <5>1 DEF Within
        <5> QED BY <4>1, <4>2, <5>2
      <4> QED BY <4>1, <4>2
    <3> QED BY <1>1, <1>2, <1>3, <2>1, <3>1, <3>2
  <2>2. CASE d # c
    <3>1. blocks'[d] = blocks[d] /\ blocks[d] \in [at : Nat, size : Nat]
      BY <1>2, <2>2 DEF FontInv
    <3>2. blocks[d].at + blocks[d].size <= from
      OBVIOUS
    <3>3. ASSUME NEW i \in Within(blocks[d]) PROVE pool'[i] = d
      <4>1. i \in Bytes /\ i \notin Within(new)
        <5>1. blocks[d].at \in Nat /\ blocks[d].size \in Nat /\ from <= PoolSize
          BY <1>1, <3>1
        <5>2. i \in blocks[d].at .. blocks[d].at + blocks[d].size - 1
          BY DEF Within
        <5>3. i \in Nat /\ i < from
          BY <1>1, <3>2, <5>1, <5>2
        <5> QED BY <1>1, <1>3, <1>4, <5>1, <5>3 DEF Bytes
      <4>2. pool[i] = d
        BY DEF FontInv, DataKept
      <4> QED BY <1>2, <4>1, <4>2
    <3>4. blocks[d].at % Align = 0
      BY DEF FontInv, DataKept
    <3>5. blocks[d].at + blocks[d].size <= offset'
      BY <1>1, <1>2, <3>1, <3>2
    <3> QED BY <3>1, <3>3, <3>4, <3>5
  <2> QED BY <2>1, <2>2
<1>7. blocks'[Memory] = Nowhere => \A d \in Owners : blocks'[d] = Nowhere
  <2>1. Memory \in Owners
    BY DEF Owners
  <2>2. CASE c # Memory
    BY <1>2, <2>1, <2>2 DEF FontInv
  <2>3. CASE c = Memory
    BY <1>2, <2>1, <2>3 DEF FontInv
  <2> QED BY <2>2, <2>3
<1>8. ASSUME NEW d \in Owners PROVE blocks'[d].at + blocks'[d].size <= PoolSize
  <2>1. blocks'[d] \in [at : Nat, size : Nat] /\ blocks'[d].at + blocks'[d].size <= offset'
    BY <1>5, <1>6
  <2> QED BY <1>1, <1>5, <2>1
<1> QED BY <1>5, <1>6, <1>7, <1>8 DEF FontInv, DataKept

LEMMA FontInitially == FtInit => FontInv
<1> SUFFICES ASSUME FtInit PROVE FontInv
  OBVIOUS
<1>1. \A c \in Owners : blocks[c] = Nowhere
  BY DEF FtInit
<1>2. Nowhere \in [at : Nat, size : Nat] /\ Nowhere.at = 0 /\ Nowhere.size = 0
  BY DEF Nowhere
<1>3. PoolSize \in Nat /\ 0 % Align = 0
  BY FontAssumption
<1>4. DataKept
  BY <1>1, <1>2, <1>3, NowhereEmpty DEF DataKept
<1> QED BY <1>1, <1>2, <1>3, <1>4 DEF FtInit, FontInv

LEMMA FontStep == FontInv /\ [FtNext]_fontVars => FontInv'
<1> SUFFICES ASSUME FontInv, [FtNext]_fontVars PROVE FontInv'
  OBVIOUS
<1>a. PoolSize \in Nat /\ MemorySize \in Nat /\ Sizes \subseteq Nat /\ Memory \notin Clients
      /\ 0 % Align = 0
  BY FontAssumption
<1>b. Nowhere \in [at : Nat, size : Nat] /\ Nowhere.at = 0 /\ Nowhere.size = 0
  BY DEF Nowhere
<1>c. Memory \in Owners /\ Clients \subseteq Owners
  BY DEF Owners
<1>1. CASE UNCHANGED fontVars
  BY <1>1 DEF fontVars, FontInv, DataKept
<1>2. CASE FT_New_Memory
  <2>1. \A d \in Owners : blocks[d] = Nowhere
    BY <1>2 DEF FT_New_Memory, FontInv
  <2>2. Fits(0, MemorySize) /\ Give(Memory, 0, MemorySize, Nowhere)
    BY <1>2 DEF FT_New_Memory
  <2>3. \A d \in Owners : blocks[d].at + blocks[d].size <= 0
    BY <1>b, <2>1
  <2>4. 0 \in 0 .. PoolSize
    BY <1>a
  <2> QED BY <1>a, <1>b, <1>c, <2>1, <2>2, <2>3, <2>4, NowhereEmpty, GiveKeeps
<1>3. CASE FT_Done_Memory
  <2>1. /\ offset' = 0 /\ pool' = pool /\ blocks' = [blocks EXCEPT ![Memory] = Nowhere]
        /\ \A c \in Clients : blocks[c] = Nowhere
    BY <1>3 DEF FT_Done_Memory
  <2>2. \A c \in Owners : blocks'[c] = Nowhere
    BY <2>1 DEF FontInv, Owners
  <2>3. blocks' \in [Owners -> [at : Nat, size : Nat]]
    BY <1>b, <2>1 DEF FontInv
  <2>4. DataKept'
    BY <1>a, <1>b, <2>2, NowhereEmpty DEF DataKept
  <2> QED BY <1>a, <1>b, <2>1, <2>2, <2>3, <2>4 DEF FontInv
<1>4. ASSUME NEW c \in Clients, NEW size \in Sizes, FtAlloc(c, size) PROVE FontInv'
  <2>1. CASE UNCHANGED fontVars
    BY <1>1, <2>1
  <2>2. CASE Fits(offset, size) /\ Give(c, offset, size, Nowhere)
    BY <1>4, <1>a, <1>b, <1>c, <2>2, NowhereEmpty, GiveKeeps DEF FtAlloc, FontInv
  <2> QED BY <1>4, <2>1, <2>2 DEF FtAlloc
<1>5. ASSUME NEW c \in Clients, NEW size \in Sizes, FtRealloc(c, size) PROVE FontInv'
  <2>1. CASE UNCHANGED fontVars
    BY <1>1, <2>1
  <2>2. CASE Fits(offset, size) /\ Give(c, offset, size, blocks[c])
    <3>1. c \in Owners /\ c # Memory /\ blocks[c] \in [at : Nat, size : Nat]
      BY <1>a, <1>c DEF FontInv
    <3>2. blocks[Memory] # Nowhere
      BY <1>5, <3>1 DEF FtRealloc, FontInv
    <3>3. ASSUME NEW i \in Within(blocks[c]) PROVE i \in Bytes /\ pool[i] = c
      <4>1. blocks[c].at + blocks[c].size <= PoolSize /\ pool[i] = c
        BY <3>1 DEF FontInv, DataKept
      <4> QED BY <1>a, <3>1, <4>1 DEF Within, Bytes
    <3>4. \A d \in Owners : blocks[d].at + blocks[d].size <= offset
      BY DEF FontInv
    <3>5. offset \in 0 .. PoolSize /\ size \in Nat
      BY <1>a DEF FontInv
    <3> QED BY <2>2, <3>1, <3>2, <3>3, <3>4, <3>5, GiveKeeps
  <2> QED BY <1>5, <2>1, <2>2 DEF FtRealloc
<1>6. ASSUME NEW c \in Clients, FtFree(c) PROVE FontInv'
  <2>1. /\ offset' = offset /\ pool' = pool /\ blocks' = [blocks EXCEPT ![c] = Nowhere]
        /\ blocks[c] # Nowhere
    BY <1>6 DEF FtFree
  <2>2. \A d \in Owners : blocks'[d] = blocks[d] \/ blocks'[d] = Nowhere
    BY <2>1 DEF FontInv
  <2>3. blocks' \in [Owners -> [at : Nat, size : Nat]]
    BY <1>b, <2>1 DEF FontInv
  <2>4. blocks'[Memory] # Nowhere
    BY <1>a, <1>c, <2>1 DEF FontInv
  <2>5. \A d \in Owners : blocks'[d].at + blocks'[d].size <= offset'
    BY <1>b, <2>1, <2>2 DEF FontInv
  <2>6. ASSUME NEW d \in Owners
        PROVE  /\ blocks'[d].at % Align = 0
               /\ blocks'[d].at + blocks'[d].size <= PoolSize
               /\ \A i \in Within(blocks'[d]) : pool'[i] = d
    <3>1. CASE blocks'[d] = blocks[d]
      BY <2>1, <3>1 DEF FontInv, DataKept
    <3>2. CASE blocks'[d] = Nowhere
      BY <1>a, <1>b, <3>2, NowhereEmpty
    <3> QED BY <2>2, <3>1, <3>2
  <2> QED BY <2>1, <2>3, <2>4, <2>5, <2>6 DEF FontInv, DataKept
<1> QED BY <1>1, <1>2, <1>3, <1>4, <1>5, <1>6 DEF FtNext

(* Every block the font engine holds lies aligned in the pool and has the data
   written to it, whatever ft_alloc, ft_realloc and ft_free do with other blocks,
   however growth fails, and when the pool is reset for the next library, for
   every size of pool and blocks and every alignment. *)
THEOREM FontDataKept == FtSpec => []DataKept
<1>1. FontInv => DataKept
  BY DEF FontInv
<1> QED BY <1>1, FontInitially, FontStep, PTL DEF FtSpec
=============================================================================
