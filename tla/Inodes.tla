------------------------------- MODULE Inodes -------------------------------
(***************************************************************************)
(* The file system structure of snfs_server/fs.c (struct fs_), its bitmaps *)
(* and its inode cache, as operators from one value of the structure to    *)
(* the next.  fs stands for the fs_t that the code hands around.           *)
(*                                                                         *)
(* fsi_store_fsdata copies bitmaps and inode table to blocks 0-9; nothing  *)
(* reads those again after fs_new, so they are left out.  The contents of  *)
(* files are left out as well: they are the subject of BlockCache.         *)
(***************************************************************************)
EXTENDS Naturals

CONSTANTS ItabSize,         \* ITAB_SIZE: number of inodes; 0 is never used, 1 is the root
          FirstBlock,       \* the first data block
          NumBlocks,        \* block_num_blocks
          BlockSize,        \* BLOCK_SIZE
          InodeNumBlks,     \* INODE_NUM_BLKS
          InodeCacheSize    \* INODE_CACHE_SIZE

ASSUME InodesAssumption ==
    /\ ItabSize \in Nat \ {0, 1}
    /\ FirstBlock \in Nat \ {0}
    /\ NumBlocks \in Nat
    /\ NumBlocks > FirstBlock
    /\ BlockSize \in Nat \ {0}
    /\ InodeNumBlks \in Nat \ {0}
    /\ InodeCacheSize \in Nat \ {0}

Root == 1
InodeNums == 0 .. ItabSize - 1
Blocks == FirstBlock .. NumBlocks - 1
Indices == 0 .. InodeNumBlks - 1
ISlots == 0 .. InodeCacheSize - 1

\* An inode; block 0 and type "none" are what zeroed memory says.
Inode == [type : {"none", "dir", "file"}, size : Nat, blocks : [Indices -> Blocks \cup {0}]]
InodeInit(type) == [type |-> type, size |-> 0, blocks |-> [i \in Indices |-> 0]]

InodeEntry == [num : InodeNums, inode : Inode, dirty : BOOLEAN, last : Nat]
ZeroInodeEntry == [num |-> 0, inode |-> InodeInit("none"), dirty |-> FALSE, last |-> 0]

OffsetToBlocks(pos) == pos \div BlockSize + (IF pos % BlockSize > 0 THEN 1 ELSE 0)

MinOf(a, b) == IF a <= b THEN a ELSE b
MaxOf(a, b) == IF a >= b THEN a ELSE b

-----------------------------------------------------------------------------
(* Bitmaps: fsi_bmap_find_free takes the lowest clear bit.                 *)

\* Mutant: one bit too many.
FreeInodesTooMany(fs) == (0 .. ItabSize) \ fs.inode_bmap
FreeInodes(fs) == InodeNums \ fs.inode_bmap

FreeBlocks(fs) == Blocks \ fs.blk_bmap

Lowest(S) == CHOOSE x \in S : \A y \in S : x <= y

-----------------------------------------------------------------------------
(* Both caches replace the first slot among those least recently used.     *)

LruSlot(cache, S) ==
    CHOOSE i \in S : \A j \in S : \/ cache[i].last < cache[j].last
                                  \/ cache[i].last = cache[j].last /\ i <= j

-----------------------------------------------------------------------------
(* The inode cache.                                                        *)

CachedAt(fs, n) == {i \in ISlots : fs.inode_cache[i].num = n}

\* find_inode_in_cache and the refresh of last_access every caller makes.
Touch(fs, n, now) == [fs EXCEPT !.inode_cache[Lowest(CachedAt(fs, n))].last = now]

\* add_inode_to_cache.  The inode is always the one in the table, copied
\* after the victim was written back to the table.
AddInode(fs, n, dirty, now) ==
    LET v == LruSlot(fs.inode_cache, ISlots)
        old == fs.inode_cache[v]
        tab == IF old.dirty THEN [fs.inode_tab EXCEPT ![old.num] = old.inode] ELSE fs.inode_tab
    IN [fs EXCEPT !.inode_tab = tab,
                  !.inode_cache[v] = [num |-> n, inode |-> tab[n], dirty |-> dirty, last |-> now]]

TableRef == InodeCacheSize

\* Mutant: an inode is cached whether it is in use or not.
AccessUnchecked(fs, n, now) ==
    IF CachedAt(fs, n) # {}
    THEN [ok |-> TRUE, fs |-> Touch(fs, n, now), at |-> Lowest(CachedAt(fs, n))]
    ELSE [ok |-> n \in fs.inode_bmap, fs |-> AddInode(fs, n, FALSE, now), at |-> TableRef]

\* Mutant: the copies that go into the cache are marked dirty.
AccessDirty(fs, n, now) ==
    IF CachedAt(fs, n) # {}
    THEN [ok |-> TRUE, fs |-> Touch(fs, n, now), at |-> Lowest(CachedAt(fs, n))]
    ELSE IF n \in fs.inode_bmap
    THEN [ok |-> TRUE, fs |-> AddInode(fs, n, TRUE, now), at |-> TableRef]
    ELSE [ok |-> FALSE, fs |-> fs, at |-> TableRef]

\* How fs_get_attrs, fs_read, fs_write and fs_readdir get at inode n: in the
\* cache, or in the table and then a clean copy goes into the cache.  at is
\* where the code's pointer points: a cache slot, or TableRef for the table.
Access(fs, n, now) ==
    IF CachedAt(fs, n) # {}
    THEN [ok |-> TRUE, fs |-> Touch(fs, n, now), at |-> Lowest(CachedAt(fs, n))]
    ELSE IF n \in fs.inode_bmap
    THEN [ok |-> TRUE, fs |-> AddInode(fs, n, FALSE, now), at |-> TableRef]
    ELSE [ok |-> FALSE, fs |-> fs, at |-> TableRef]

\* The inode a pointer obtained for inode n leads to.
Deref(fs, at, n) == IF at = TableRef THEN fs.inode_tab[n] ELSE fs.inode_cache[at].inode
Store(fs, at, n, inode) ==
    IF at = TableRef THEN [fs EXCEPT !.inode_tab[n] = inode]
                   ELSE [fs EXCEPT !.inode_cache[at].inode = inode]

\* fs_get_attrs: an inode that is neither a directory nor a file ends the server.
Attrs(acc, n) ==
    LET inode == Deref(acc.fs, acc.at, n) IN
    [st |-> IF ~acc.ok THEN "error" ELSE IF inode.type = "none" THEN "exit" ELSE "ok",
     fs |-> acc.fs, inode |-> inode]

GetAttrs(fs, n, now) ==
    IF n \notin InodeNums THEN [st |-> "error", fs |-> fs, inode |-> InodeInit("none")]
                          ELSE Attrs(Access(fs, n, now), n)
=============================================================================
