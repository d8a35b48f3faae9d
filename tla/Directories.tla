----------------------------- MODULE Directories -----------------------------
(***************************************************************************)
(* Directories and their page cache in snfs_server/fs.c: fsi_dir_search,   *)
(* the path walk of fs_lookup, the entry that fs_create and fs_mkdir add,  *)
(* and the listing of fs_readdir.  fs.page[b] is what the disk has in      *)
(* block b as a page of directory entries.                                 *)
(***************************************************************************)
EXTENDS Inodes, Sequences

CONSTANTS Names,            \* file names
          NoName,           \* the empty string
          DirPageEntries,   \* DIR_PAGE_ENTRIES
          DirCacheSize      \* DIR_CACHE_SIZE

ASSUME DirectoriesAssumption ==
    /\ NoName \notin Names
    /\ DirPageEntries \in Nat \ {0}
    /\ DirCacheSize \in Nat \ {0}
    /\ BlockSize % DirPageEntries = 0
    /\ InodeNumBlks * DirPageEntries >= ItabSize - 2

DentrySize == BlockSize \div DirPageEntries
Positions == 0 .. DirPageEntries - 1
DSlots == 0 .. DirCacheSize - 1

Dentry == [name : Names \cup {NoName}, inode : InodeNums]
NoDentry == [name |-> NoName, inode |-> 0]
Page == [Positions -> Dentry]
ZeroPage == [i \in Positions |-> NoDentry]

DirEntry == [dir : InodeNums, block : Blocks \cup {0}, entries : Page, last : Nat]
ZeroDirEntry == [dir |-> 0, block |-> 0, entries |-> ZeroPage, last |-> 0]

-----------------------------------------------------------------------------
(* The directory cache: entries are found by directory, or by directory    *)
(* and block.  Nothing in fs.c ever removes or refreshes one.              *)

SlotsOfDir(fs, dir) == {i \in DSlots : fs.dir_cache[i].dir = dir}
SlotsOfPage(fs, dir, b) == {i \in SlotsOfDir(fs, dir) : fs.dir_cache[i].block = b}

\* The slot that has page b of dir, once one has it.
PageSlot(fs, dir, b) == Lowest(SlotsOfPage(fs, dir, b))

\* Mutant: the slot keeps the entries of the page it had before.
FillPageUncopied(fs, dir, b, page, now) ==
    [fs EXCEPT !.dir_cache[LruSlot(fs.dir_cache, DSlots)] =
        [@ EXCEPT !.dir = dir, !.block = b, !.last = now]]

\* A page that was read from the disk goes into the least recently used slot.
FillPage(fs, dir, b, page, now) ==
    [fs EXCEPT !.dir_cache[LruSlot(fs.dir_cache, DSlots)] =
        [dir |-> dir, block |-> b, entries |-> page, last |-> now]]

TouchPage(fs, dir, b, now) == [fs EXCEPT !.dir_cache[PageSlot(fs, dir, b)].last = now]

\* The cache with page b of dir in it: as it was found there, however old, or
\* read from the disk.
FetchPage(fs, dir, b, now) ==
    IF SlotsOfPage(fs, dir, b) # {} THEN TouchPage(fs, dir, b, now)
                                    ELSE FillPage(fs, dir, b, fs.page[b], now)

EntriesAt(fs, dir, b) == fs.dir_cache[PageSlot(fs, dir, b)].entries

Matches(entries, n, name) == {j \in 0 .. n - 1 : entries[j].name = name}

\* "garantir consistência": the entry goes into the first empty place of the
\* slot that was searched first, whatever page that slot has by now.
Remember(fs, slot, entry) ==
    LET empty == Matches(fs.dir_cache[slot].entries, DirPageEntries, NoName) IN
    IF slot \in DSlots /\ empty # {}
    THEN [fs EXCEPT !.dir_cache[slot].entries[Lowest(empty)] = entry]
    ELSE fs

-----------------------------------------------------------------------------
(* fsi_dir_search *)

\* The first n entries of one page are searched.  hit is the slot the search
\* began with, DirCacheSize if none.
SearchPage(f, entries, n, name, hit) ==
    LET m == Matches(entries, n, name)
    IN IF m = {} THEN [fs |-> f, found |-> FALSE, inode |-> 0]
       ELSE [fs |-> IF hit = DirCacheSize THEN f ELSE Remember(f, hit, entries[Lowest(m)]),
             found |-> TRUE, inode |-> entries[Lowest(m)].inode]

\* Of the num entries of a directory, those in page k or a later one.
LeftAt(num, k) == num - k * DirPageEntries

\* The second part: page after page of the directory, whose inode is the one
\* in the table.
SearchPages(fs, dir, name, hit, now) ==
    LET idir == fs.inode_tab[dir]
        num == idir.size \div DentrySize
        fetched(f, k) == FetchPage(f, dir, idir.blocks[k], now)
        page(f, k) == SearchPage(f, EntriesAt(f, dir, idir.blocks[k]),
                                 MinOf(DirPageEntries, LeftAt(num, k)), name, hit)
        visit[k \in 0 .. InodeNumBlks] ==
            IF k = 0 THEN [fs |-> fs, found |-> FALSE, inode |-> 0]
            ELSE IF visit[k - 1].found \/ LeftAt(num, k - 1) <= 0 THEN visit[k - 1]
            ELSE page(fetched(visit[k - 1].fs, k - 1), k - 1)
    IN visit[InodeNumBlks]

\* The first part searches all of one page of the directory, if it is cached.
SearchFirst(fs, dir, name, now) ==
    LET hit == IF SlotsOfDir(fs, dir) = {} THEN DirCacheSize ELSE Lowest(SlotsOfDir(fs, dir))
        m == IF hit = DirCacheSize THEN {} ELSE Matches(fs.dir_cache[hit].entries, DirPageEntries, name)
    IN [fs |-> IF hit = DirCacheSize THEN fs ELSE [fs EXCEPT !.dir_cache[hit].last = now],
        found |-> m # {}, hit |-> hit,
        inode |-> IF m = {} THEN 0 ELSE fs.dir_cache[hit].entries[Lowest(m)].inode]

DirSearch(fs, dir, name, now) ==
    LET first == SearchFirst(fs, dir, name, now)
    IN IF first.found THEN [fs |-> first.fs, found |-> TRUE, inode |-> first.inode]
                      ELSE SearchPages(first.fs, dir, name, first.hit, now)

IsDir(fs, dir) == dir \in fs.inode_bmap /\ fs.inode_tab[dir].type = "dir"

WalkTo(s) == [ok |-> s.found, fs |-> s.fs, inode |-> s.inode]

\* fs_lookup of a path of names below the root.  The result for the empty path
\* is what the caller's variable held before: junk.
Lookup(fs, path, junk, now) ==
    LET dir(before, k) == IF k = 1 THEN Root ELSE before.inode
        step(before, k) ==
            IF before.ok /\ IsDir(fs, dir(before, k))
            THEN WalkTo(DirSearch(before.fs, dir(before, k), path[k], now))
            ELSE [before EXCEPT !.ok = FALSE]
        walk[k \in 0 .. Len(path)] ==
            IF k = 0 THEN [ok |-> TRUE, fs |-> fs, inode |-> junk] ELSE step(walk[k - 1], k)
    IN walk[Len(path)]

-----------------------------------------------------------------------------
(* fs_create and fs_mkdir, which differ in the type of the new inode only. *)

Fail(fs) == [ok |-> FALSE, fs |-> fs, inode |-> 0]

NeedsBlock(idir) == idir.size % BlockSize = 0

\* The directory after it got a block for its next entry if it needs one.
Extended(fs, dir) ==
    LET b == Lowest(FreeBlocks(fs))
        idir == fs.inode_tab[dir]
    IN IF ~NeedsBlock(idir) THEN fs
       ELSE [fs EXCEPT !.blk_bmap = @ \cup {b},
                       !.inode_tab[dir].blocks[idir.size \div BlockSize] = b]

\* Mutant: the new inode is not marked as used.
AddEntryUnmarked(fs, dir, name, n, type) ==
    LET idir == fs.inode_tab[dir]
        b == idir.blocks[idir.size \div BlockSize]
    IN [fs EXCEPT !.page[b][(idir.size % BlockSize) \div DentrySize] = [name |-> name, inode |-> n],
                  !.inode_tab = [fs.inode_tab EXCEPT ![dir].size = @ + DentrySize, ![n] = InodeInit(type)]]

AddEntry(fs, dir, name, n, type) ==
    LET idir == fs.inode_tab[dir]
        b == idir.blocks[idir.size \div BlockSize]
    IN [fs EXCEPT !.page[b][(idir.size % BlockSize) \div DentrySize] = [name |-> name, inode |-> n],
                  !.inode_bmap = @ \cup {n},
                  !.inode_tab = [fs.inode_tab EXCEPT ![dir].size = @ + DentrySize, ![n] = InodeInit(type)]]

\* Mutant: the new entry goes into the last slot of the cache as well.
CreateNewCached(s, dir, name, type) ==
    IF \/ s.found
       \/ FreeInodes(s.fs) = {}
       \/ NeedsBlock(s.fs.inode_tab[dir]) /\ FreeBlocks(s.fs) = {}
    THEN Fail(s.fs)
    ELSE LET n == Lowest(FreeInodes(s.fs)) IN
         [ok |-> TRUE, inode |-> n,
          fs |-> Remember(AddEntry(Extended(s.fs, dir), dir, name, n, type), DirCacheSize - 1,
                          [name |-> name, inode |-> n])]

\* After the search for the name, which refreshed the directory cache.
CreateNew(s, dir, name, type) ==
    IF \/ s.found
       \/ FreeInodes(s.fs) = {}
       \/ NeedsBlock(s.fs.inode_tab[dir]) /\ FreeBlocks(s.fs) = {}
    THEN Fail(s.fs)
    ELSE LET n == Lowest(FreeInodes(s.fs)) IN
         [ok |-> TRUE, fs |-> AddEntry(Extended(s.fs, dir), dir, name, n, type), inode |-> n]

Create(fs, dir, name, type, now) ==
    IF name = NoName \/ ~IsDir(fs, dir) THEN Fail(fs)
    ELSE CreateNew(DirSearch(fs, dir, name, now), dir, name, type)

-----------------------------------------------------------------------------
(* fs_readdir *)

\* The type a listing shows for an entry, and the cache entry it refreshes.
EntryType(fs, n) ==
    IF CachedAt(fs, n) # {} THEN fs.inode_cache[Lowest(CachedAt(fs, n))].inode.type
    ELSE IF n \in fs.inode_bmap THEN fs.inode_tab[n].type
    ELSE "unknown"

TouchIfCached(fs, n, now) == IF CachedAt(fs, n) # {} THEN Touch(fs, n, now) ELSE fs

\* Mutant: whole pages are listed.
ListedInPages(idir, max) == MinOf(OffsetToBlocks(idir.size) * DirPageEntries, max)
Listed(idir, max) == MinOf(idir.size \div DentrySize, max)

List(fs, dir, idir, max, now) ==
    LET block(k) == idir.blocks[k \div DirPageEntries]
        fetch(f, k) == IF k % DirPageEntries = 0 THEN FetchPage(f, dir, block(k), now) ELSE f
        entry(f, k) == EntriesAt(f, dir, block(k))[k % DirPageEntries]
        show(f, out, e) == [fs |-> TouchIfCached(f, e.inode, now),
                            out |-> Append(out, [name |-> e.name, type |-> EntryType(f, e.inode)])]
        add(f, out, k) == show(f, out, entry(f, k))
        list[k \in 0 .. Listed(idir, max)] ==
            IF k = 0 THEN [fs |-> fs, out |-> << >>]
            ELSE add(fetch(list[k - 1].fs, k - 1), list[k - 1].out, k - 1)
    IN list[Listed(idir, max)]
=============================================================================
