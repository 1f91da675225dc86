-------------------------------- MODULE Names --------------------------------
(* Inodes and directory entries: the calls of fs/mod.rs that make, remove and   *)
(* rename names (sys_open with O_CREAT, sys_mkdir, sys_symlink, sys_unlink,     *)
(* sys_rmdir, sys_rename) over fs_fs/dir.rs, fs_fs/inode.rs and vfs/pathwalk.rs.*)
(* They take no lock; a kernel thread gives up the processor only where it asks *)
(* to, so a call is one step.                                                   *)
(*                                                                              *)
(* No directory ever gets an extent, so all of them keep their entries in one   *)
(* area behind the inode table, each from its beginning up to its own size.     *)
(* Looking a name up writes the root of the hash index over the first entry.    *)
(* The prev and next offsets in an entry are written and never followed. The    *)
(* removal of a name from the hash index finds nothing: no name is ever put in. *)
EXTENDS Naturals, Sequences, FiniteSets, SequencesExt

CONSTANTS
    Components, LongNames,  \* file names; those of more than 39 bytes
    LastIno,                \* FS_TOTAL_INODES - 1
    Slots,                  \* bound: entries the area holds
    MaxFree                 \* bound: the counter of free inodes

Inos == 0 .. LastIno
RootIno == 0
NoIno == LastIno + 1        \* None, of Option<Ino>
IndexIno == LastIno + 2     \* what the hash root reads as: an inode that is not there
NoName == "noname"          \* the empty name
Names == Components \cup LongNames
Paths == {<<>>} \cup {<<n>> : n \in Names} \cup {<<d, n>> : d, n \in Components}

ASSUME NamesAssumption ==
    /\ LastIno \in Nat /\ Slots \in Nat /\ MaxFree \in Nat
    /\ NoName \notin Names

VARIABLES
    disk,    \* [mode, size, area, free]: the inode table, sizes counted in entries,
             \* the area of the entries, the free_inodes of the superblock
    plain    \* Plain(disk) has held so far

treeVars == <<disk, plain>>

EmptyEntry == [ino |-> 0, name |-> NoName]
HashRoot == [ino |-> IndexIno, name |-> NoName]

TreeInit ==
    /\ disk = [mode |-> [i \in Inos |-> IF i = RootIno THEN "dir" ELSE "free"],
               size |-> [i \in Inos |-> 0],
               area |-> [s \in 1 .. Slots |-> EmptyEntry],
               free |-> LastIno]
    /\ plain = TRUE

(* Only the root directory has entries, and no two with the same name. *)
Plain(d) ==
    /\ d.mode[RootIno] = "dir"
    /\ \A i \in Inos \ {RootIno} : d.mode[i] # "dir" /\ d.size[i] = 0
    /\ \A s, t \in 1 .. d.size[RootIno] :
         d.area[s].name = d.area[t].name => d.area[s].name = NoName \/ s = t

Least(S) == CHOOSE i \in S : \A j \in S : i <= j

-----------------------------------------------------------------------------
(* alloc_inode: None when the counter is zero or no inode is free. *)
FreeInos(d) == {i \in Inos : d.mode[i] = "free"}
CanAlloc(d) == d.free > 0 /\ FreeInos(d) # {}
NewIno(d) == Least(FreeInos(d))
AllocInode(d, mode) ==
    [d EXCEPT !.mode[NewIno(d)] = mode, !.size[NewIno(d)] = 0, !.free = @ - 1]

(* Mutant: a free inode is not counted. *)
FreeInodeUncounted(d, i) == [d EXCEPT !.mode[i] = "free", !.size[i] = 0]

(* free_inode: the inode is cleared and counted, free or not. *)
FreeInode(d, i) ==
    IF i \notin Inos THEN d ELSE [d EXCEPT !.mode[i] = "free", !.size[i] = 0, !.free = @ + 1]

(* Entries of directory i with a name, as a scan of the area finds them. *)
Found(d, i, name) ==
    {s \in 1 .. d.size[i] : d.area[s].ino # 0 /\ d.area[s].name = name}

Indexed(d) == [d EXCEPT !.area[1] = HashRoot]

(* dir_lookup *)
DirLookup(d, i, name) ==
    LET at == Found(Indexed(d), i, name)
    IN  IF i \notin Inos \/ d.mode[i] # "dir" \/ name \in LongNames
        THEN [disk |-> d, ino |-> NoIno]
        ELSE [disk |-> Indexed(d), ino |-> IF at = {} THEN NoIno ELSE d.area[Least(at)].ino]

(* dir_add writes at the size of i, which need not be a directory. *)
CanAdd(name) == name \notin LongNames
DirAdd(d, i, ino, name) ==
    [d EXCEPT !.area[d.size[i] + 1] = [ino |-> ino, name |-> name], !.size[i] = @ + 1]

(* Mutant: the entry stays. *)
DirRemoveNothing(d, i, name) == Indexed(d)

(* dir_remove *)
CanRemove(d, i, name) == d.mode[i] = "dir" /\ CanAdd(name) /\ Found(d, i, name) # {}
DirRemove(d, i, name) == Indexed([d EXCEPT !.area[Least(Found(d, i, name))] = EmptyEntry])

(* path_walk *)
Walk(d, path) ==
    LET walk[k \in 0 .. Len(path)] ==
            IF k = 0 THEN [disk |-> d, ino |-> RootIno]
            ELSE LET w == walk[k - 1]
                 IN  IF w.ino = NoIno THEN w ELSE DirLookup(w.disk, w.ino, path[k])
    IN  walk[Len(path)]

(* parent_of and filename_of; the root has no name and is its own parent. *)
ParentOf(path) == IF path = <<>> THEN <<>> ELSE Front(path)
FilenameOf(path) == IF path = <<>> THEN NoName ELSE Last(path)

-----------------------------------------------------------------------------
(* Room for what a call adds: at most three entries, in areas of at most Slots. *)
Bounded(d) == d.free <= MaxFree /\ \A i \in Inos : d.size[i] + 2 <= Slots

(* A new inode and its entry; a name too long gives the inode back. *)
Make(d, parent, name, mode) ==
    IF parent = NoIno \/ ~CanAlloc(d) \/ ~CanAdd(name) THEN d
    ELSE DirAdd(AllocInode(d, mode), parent, NewIno(d), name)
Makes(d, parent, name) == parent # NoIno /\ CanAlloc(d) /\ CanAdd(name)

(* sys_open with O_CREAT *)
Open(path) ==
    LET target == Walk(disk, path)
        parent == Walk(target.disk, ParentOf(path))
    IN  disk' = IF target.ino # NoIno THEN target.disk
                ELSE Make(parent.disk, parent.ino, FilenameOf(path), "file")

(* sys_symlink, which does not ask whether the name exists *)
Symlink(path) ==
    LET parent == Walk(disk, ParentOf(path))
        name == FilenameOf(path)
    IN  /\ name # NoName
        /\ disk' = Make(parent.disk, parent.ino, name, "file")

(* sys_mkdir: the entries "." and ".." of the new directory, whose size is 0, go
   to the start of the area. *)
Mkdir(path) ==
    LET parent == Walk(disk, ParentOf(path))
        name == FilenameOf(path)
        made == Make(parent.disk, parent.ino, name, "dir")
        self == NewIno(parent.disk)
    IN  /\ name # NoName
        /\ disk' = IF Makes(parent.disk, parent.ino, name)
                   THEN DirAdd(DirAdd(made, self, self, "."), self, parent.ino, "..")
                   ELSE parent.disk

(* sys_unlink, without the disk *)
Unlinked(d, path) ==
    LET parent == Walk(d, ParentOf(path))
        target == Walk(parent.disk, path)
        name == FilenameOf(path)
    IN  IF parent.ino = NoIno THEN parent.disk
        ELSE IF target.ino = NoIno \/ ~CanRemove(target.disk, parent.ino, name) THEN target.disk
        ELSE FreeInode(DirRemove(target.disk, parent.ino, name), target.ino)

Unlink(path) == disk' = Unlinked(disk, path)

(* sys_rmdir is sys_unlink for what has at most two entries: 128 bytes. *)
Rmdir(path) ==
    LET parent == Walk(disk, ParentOf(path))
        target == Walk(parent.disk, path)
    IN  disk' = IF parent.ino # NoIno /\ target.ino \in Inos /\ target.disk.size[target.ino] > 2
                THEN target.disk ELSE Unlinked(disk, path)

(* sys_rename *)
Rename(old, new) ==
    LET oldParent == Walk(disk, ParentOf(old))
        newParent == Walk(oldParent.disk, ParentOf(new))
        target == Walk(newParent.disk, old)
        existing == Walk(target.disk, new)
        cleared == IF existing.ino # NoIno THEN Unlinked(existing.disk, new) ELSE existing.disk
        added == DirAdd(cleared, newParent.ino, target.ino, FilenameOf(new))
    IN  disk' = IF oldParent.ino = NoIno THEN oldParent.disk
                ELSE IF newParent.ino = NoIno THEN newParent.disk
                ELSE IF target.ino = NoIno THEN target.disk
                ELSE IF ~CanAdd(FilenameOf(new)) THEN cleared
                ELSE IF CanRemove(added, oldParent.ino, FilenameOf(old))
                THEN DirRemove(added, oldParent.ino, FilenameOf(old))
                ELSE IF CanRemove(added, newParent.ino, FilenameOf(new))
                THEN DirRemove(added, newParent.ino, FilenameOf(new))
                ELSE added

TreeNext ==
    /\ Bounded(disk)
    /\ \/ \E p \in Paths : Open(p) \/ Symlink(p) \/ Mkdir(p) \/ Unlink(p) \/ Rmdir(p)
       \/ \E p, q \in Paths : Rename(p, q)
    /\ plain' = (plain /\ Plain(disk'))

TreeSpec == TreeInit /\ [][TreeNext]_treeVars

-----------------------------------------------------------------------------
(* The slots a lookup in the root directory can reach, without the hash root. *)
Live == {s \in 1 .. disk.size[RootIno] : disk.area[s].ino \in Inos \ {0}}

(* The superblock never counts fewer free inodes than there are, so a create is
   not refused for lack of one that exists; and it counts them exactly as long as
   the file system is plain. (Otherwise two entries of one inode may free it twice.) *)
InodesAccounted ==
    /\ disk.free >= Cardinality(FreeInos(disk))
    /\ plain => disk.free = Cardinality(FreeInos(disk))

(* In a plain file system an entry names an inode in use, and no two entries name
   the same one, through creates, unlinks and renames, onto existing names and
   onto themselves. *)
EntriesSound ==
    plain => /\ \A s \in Live : disk.mode[disk.area[s].ino] # "free"
             /\ \A s, t \in Live : disk.area[s].ino = disk.area[t].ino => s = t

(* dir.rs:77: dir_add enters the name into the directory, hash index and list
   included: a file in use has an entry. *)
FilesReachable ==
    plain => \A i \in Inos \ {RootIno} :
                disk.mode[i] # "free" => \E s \in Live : disk.area[s].ino = i
=============================================================================
