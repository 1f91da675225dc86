------------------------------ MODULE FreeSpace ------------------------------
(* The free-space tree of the file system (fs_fs/space.rs): a single leaf    *)
(* node holding an array of free extents, best-fit allocation and a free     *)
(* that merges with its neighbours.  Offsets and lengths are in bytes of a   *)
(* small device; Unit stands for FS_MIN_ALLOC.                               *)
EXTENDS Naturals, Sequences

CONSTANTS
    DataStart, Total,   \* the data area is DataStart .. Total - 1
    Unit,               \* FS_MIN_ALLOC
    MaxEntries,         \* MAX_FREE_ENTRIES
    Lengths             \* the lengths clients ask for

ASSUME FreeSpaceAssumption ==
    /\ DataStart \in Nat /\ Total \in Nat /\ DataStart < Total
    /\ Unit \in Nat \ {0} /\ MaxEntries \in Nat \ {0}
    /\ Lengths \subseteq Nat \ {0}

VARIABLES
    entries,    \* the leaf node: a sequence of free extents
    held,       \* extents handed out and not freed yet
    panicked    \* an array index out of bounds has stopped the kernel

vars == <<entries, held, panicked>>

Extent(off, len) == [off |-> off, len |-> len]
End(e) == e.off + e.len
Bytes(e) == e.off .. End(e) - 1
Covered(es) == UNION {Bytes(es[i]) : i \in DOMAIN es}

(* fs_format, create_free_space_root *)
Init ==
    /\ entries = <<Extent(DataStart, Total - DataStart)>>
    /\ held = {}
    /\ panicked = FALSE

Align(len) == ((len + Unit - 1) \div Unit) * Unit

(* alloc_from_node: the first of the extents with the smallest excess; 0 when
   none is long enough. *)
BestFit(es, len) ==
    LET fits == {i \in DOMAIN es : es[i].len >= len}
        best == {i \in fits : \A j \in fits : es[i].len <= es[j].len}
    IN  IF fits = {} THEN 0 ELSE CHOOSE i \in best : \A j \in best : i <= j

(* What is left of extent e without the range r: none, one or two pieces. *)
Cut(e, r) ==
    IF End(e) <= r.off \/ e.off >= End(r) THEN <<e>>
    ELSE (IF e.off < r.off THEN <<Extent(e.off, r.off - e.off)>> ELSE <<>>)
         \o (IF End(e) > End(r) THEN <<Extent(End(r), End(e) - End(r))>> ELSE <<>>)

(* Mutant: only the first extent that overlaps the range is cut. *)
RemoveFromOne(es, r) ==
    LET i == BestFit(es, r.len)
    IN  SubSeq(es, 1, i - 1) \o Cut(es[i], r) \o SubSeq(es, i + 1, Len(es))

(* remove_range rewrites the array in place while it reads it: what it finds at i
   is what it has put there, if a split has taken it that far. *)
ReadAt(es, out, i) == IF i <= Len(out) THEN out[i] ELSE es[i]
RemoveRange(es, r) ==
    LET pass[i \in 0 .. Len(es)] ==
            IF i = 0 THEN <<>> ELSE pass[i - 1] \o Cut(ReadAt(es, pass[i - 1], i), r)
    IN  pass[Len(es)]

(* The last extent written is made longer by the new one. *)
Lengthen(out, new) ==
    [out EXCEPT ![Len(out)] = Extent(out[Len(out)].off, out[Len(out)].len + new.len)]
Adjoins(out, new) == out # <<>> /\ End(out[Len(out)]) = new.off

Merging(new, out, inserted) == [new |-> new, out |-> out, inserted |-> inserted]

(* One extent e of the array is merged with, or put around, the new extent. *)
MergeStep(st, e) ==
    LET new == st.new
    IN  CASE st.inserted -> Merging(new, Append(st.out, e), TRUE)
          [] ~st.inserted /\ e.off = End(new) ->
                Merging(Extent(new.off, new.len + e.len), st.out, FALSE)
          [] ~st.inserted /\ e.off > End(new) /\ Adjoins(st.out, new) ->
                Merging(new, Append(Lengthen(st.out, new), e), TRUE)
          [] ~st.inserted /\ End(e) = new.off ->
                Merging(Extent(e.off, new.len + e.len), st.out, FALSE)
          [] ~st.inserted /\ End(e) < new.off -> Merging(new, Append(st.out, e), FALSE)
          [] OTHER -> Merging(new, st.out \o <<new, e>>, TRUE)

(* After the last extent the new one still has to be placed. *)
MergeEnd(st) ==
    IF st.inserted THEN st.out
    ELSE IF Adjoins(st.out, st.new) THEN Lengthen(st.out, st.new)
    ELSE Append(st.out, st.new)

(* The loop of free_internal over the array. *)
Merge(es, r) ==
    LET merge[i \in 0 .. Len(es)] ==
            IF i = 0 THEN Merging(r, <<>>, FALSE) ELSE MergeStep(merge[i - 1], es[i])
    IN  merge[Len(es)]

(* Mutant: an extent adjacent to the freed one is merged past its end. *)
MergeTooFar(es, r) == MergeEnd(Merge(es, Extent(r.off, r.len + 1)))

(* free_internal *)
FreeInternal(es, r) == MergeEnd(Merge(es, r))

(* Put extent r into the array es; merged_entries has room for MaxEntries
   extents, and writing one more is a panic. *)
Put(es, r) ==
    LET merged == FreeInternal(es, r)
    IN  IF Len(merged) > MaxEntries
        THEN panicked' = TRUE /\ entries' = es
        ELSE panicked' = FALSE /\ entries' = merged

(* alloc: cut the range out and put the rest of the extent back.  None, when
   nothing fits, changes nothing. *)
Alloc(len) ==
    LET need == Align(len)
        i == BestFit(entries, need)
        range == Extent(entries[i].off, need)
        cut == RemoveRange(entries, range)
        rest == Extent(End(range), entries[i].len - need)
    IN  /\ ~panicked /\ i # 0
        /\ IF rest.len > 0 THEN Put(cut, rest) ELSE entries' = cut /\ UNCHANGED panicked
        /\ held' = IF panicked' THEN held
                   ELSE held \cup {[off |-> range.off, len |-> need, asked |-> len]}

(* free_bytes_to_space, free_extent_node: the owner gives back the length it
   asked for. *)
Free(h) ==
    /\ ~panicked
    /\ Put(entries, Extent(h.off, h.asked))
    /\ held' = held \ {h}

Next == (\E len \in Lengths : Alloc(len)) \/ (\E h \in held : Free(h))

Spec == Init /\ [][Next]_vars

-----------------------------------------------------------------------------
(* Extents lie inside the data area. *)
TypeOK ==
    /\ Covered(entries) \subseteq DataStart .. Total - 1
    /\ \A i \in DOMAIN entries : entries[i].len > 0
    /\ panicked \in BOOLEAN

(* alloc never hands out a byte that somebody holds, and no byte is both held
   and free, however the free list is split, merged and duplicated. *)
NoDoubleAllocation ==
    /\ \A h, g \in held : h # g => Bytes(h) \cap Bytes(g) = {}
    /\ \A h \in held : Bytes(h) \cap Covered(entries) = {}

(* free makes the bytes it is given allocatable, and no others. *)
FreeReturns ==
    [][\A h \in held \ held' : ~panicked' =>
        Covered(entries') = Covered(entries) \cup (h.off .. h.off + h.asked - 1)]_vars

=============================================================================
