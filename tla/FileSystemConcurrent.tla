------------------------ MODULE FileSystemConcurrent ------------------------
(***************************************************************************)
(* The file service with several consumer threads: look-up, fs_create and  *)
(* fs_mkdir, fs_read and fs_write cut where a thread takes or releases     *)
(* cache_mutex, and, outside of it, at every access to what threads share. *)
(* A step of a thread is one such section; pc names the next one.          *)
(*                                                                         *)
(* The code lets threads interfere.  races records which of the ways below *)
(* did happen, and the properties say that nothing else does damage.       *)
(***************************************************************************)
EXTENDS FileSystem

CONSTANTS Workers,       \* the consumer threads
          Requests,      \* what clients may ask for
          MaxRequests    \* bound: requests served

LookupRequest == [op : {"lookup"}, path : Paths \ {<< >>}]
ReadRequest == [op : {"read"}, n : InodeNums, off : Offsets, cnt : Counts \ {0}]
WriteRequest == [op : {"write"}, n : InodeNums, off : Offsets, cnt : Counts \ {0}]

ASSUME FileSystemConcurrentAssumption ==
    /\ Requests \subseteq CreateRequest \cup LookupRequest \cup ReadRequest \cup WriteRequest
    /\ MaxRequests \in Nat

VARIABLES job,     \* the request each thread serves, with its local variables
          rest,    \* what the static variable of strtok leads to: names of a path
          left,    \* requests still to come
          races    \* the kinds of interference there have been

cvars == <<fs, now, up, job, rest, left, races>>

SearchStages == {"count", "page", "load", "fill"}
AddStages == {"block", "reserve", "entry", "name", "link", "extend", "mark", "init"}
PointerStages == {"check", "read", "write", "grow", "size"}
Stages == {"idle", "token", "inode", "attrs"} \cup SearchStages \cup AddStages \cup PointerStages

\* n is the inode that is looked at: the directory to search, or the file.
\* hit, num, k, block and page belong to fsi_dir_search and the entry that is
\* added, new to the new inode, at, off and cnt to the transfer of bytes k.
Job == [pc : Stages, op : {"none", "create", "lookup", "read", "write"},
        path : Paths, name : Names \cup {NoName}, type : {"none", "file", "dir"},
        n : InodeNums, hit : 0 .. DirCacheSize, num : Nat, k : Nat,
        block : Blocks \cup {0}, page : Page, new : InodeNums,
        at : 0 .. TableRef, off : Nat, cnt : Nat]

Idle == [pc |-> "idle", op |-> "none", path |-> << >>, name |-> NoName, type |-> "none",
         n |-> 0, hit |-> DirCacheSize, num |-> 0, k |-> 0,
         block |-> 0, page |-> ZeroPage, new |-> 0, at |-> TableRef, off |-> 0, cnt |-> 0]

Continue(p, f, j) == /\ fs' = f
                     /\ job' = [job EXCEPT ![p] = j]
                     /\ UNCHANGED up
Finish(p, f) == Continue(p, f, Idle)
Goto(p, f, stage) == Continue(p, f, [job[p] EXCEPT !.pc = stage])

-----------------------------------------------------------------------------
(* Searching a directory.  The section that opens a search is part of the  *)
(* step that begins it.                                                    *)

\* The job without the local variables of the search.
Searched(j) == [j EXCEPT !.hit = DirCacheSize, !.num = 0, !.k = 0, !.block = 0, !.page = ZeroPage]

\* A look-up goes on with the next name, a creation fails.
Found(p, j, f, n) ==
    IF j.op = "lookup" THEN Continue(p, f, [Searched(j) EXCEPT !.pc = "token", !.n = n])
                       ELSE Finish(p, f)

NotFound(p, f) ==
    IF job[p].op = "lookup" THEN Finish(p, f)
                            ELSE Continue(p, f, [Searched(job[p]) EXCEPT !.pc = "inode"])

BeginSearch(p, j) ==
    LET s == SearchFirst(fs, j.n, j.name, now) IN
    IF ~IsDir(fs, j.n) THEN Finish(p, fs)
    ELSE IF s.found THEN Found(p, j, s.fs, s.inode)
    ELSE Continue(p, s.fs, [j EXCEPT !.pc = "count", !.hit = s.hit])

\* The size of the directory is read without the mutex.
Count(p) ==
    LET num == fs.inode_tab[job[p].n].size \div DentrySize IN
    /\ job[p].pc = "count"
    /\ IF num = 0 THEN NotFound(p, fs)
                  ELSE Continue(p, fs, [job[p] EXCEPT !.pc = "page", !.num = num])

\* After a page was searched: f is what that left.
SearchOn(p, f, entries) ==
    LET j == job[p]
        s == SearchPage(f, entries, MinOf(DirPageEntries, LeftAt(j.num, j.k)), j.name, j.hit)
    IN IF s.found THEN Found(p, j, s.fs, s.inode)
       ELSE IF LeftAt(j.num, j.k + 1) <= 0 THEN NotFound(p, s.fs)
       ELSE Continue(p, s.fs, [j EXCEPT !.pc = "page", !.k = @ + 1, !.block = 0, !.page = ZeroPage])

PageOf(p) == fs.inode_tab[job[p].n].blocks[job[p].k]

PageHit(p) ==
    /\ job[p].pc = "page"
    /\ SlotsOfPage(fs, job[p].n, PageOf(p)) # {}
    /\ SearchOn(p, TouchPage(fs, job[p].n, PageOf(p), now), EntriesAt(fs, job[p].n, PageOf(p)))

PageMiss(p) ==
    /\ job[p].pc = "page"
    /\ SlotsOfPage(fs, job[p].n, PageOf(p)) = {}
    /\ Continue(p, fs, [job[p] EXCEPT !.pc = "load", !.block = PageOf(p)])

\* Block 0, which only interference makes a block of a directory, has the
\* bitmap, and every fsi_store_fsdata puts it back there: no names.
DiskPage(b) == IF b = 0 THEN ZeroPage ELSE fs.page[b]
WithPage(b, page) == IF b = 0 THEN fs ELSE [fs EXCEPT !.page[b] = page]

\* block_read copies the page without the mutex.
PageLoad(p) ==
    /\ job[p].pc = "load"
    /\ Continue(p, fs, [job[p] EXCEPT !.pc = "fill", !.page = DiskPage(job[p].block)])

PageFill(p) ==
    LET j == job[p] IN
    /\ j.pc = "fill"
    /\ SearchOn(p, FillPage(fs, j.n, j.block, j.page, now), j.page)

-----------------------------------------------------------------------------
(* Looking a path up.  strtok keeps where it is in a static variable.      *)

StartLookup(p, r) ==
    /\ r.op = "lookup"
    /\ rest' = Tail(r.path)
    /\ BeginSearch(p, [Idle EXCEPT !.op = "lookup", !.path = r.path, !.n = Root, !.name = Head(r.path)])

\* Mutant: the search starts over in the root.
NextTokenInRoot(p) ==
    /\ job[p].pc = "token"
    /\ rest # << >>
    /\ rest' = Tail(rest)
    /\ BeginSearch(p, [job[p] EXCEPT !.name = Head(rest), !.n = Root])

NextToken(p) ==
    /\ job[p].pc = "token"
    /\ rest # << >>
    /\ rest' = Tail(rest)
    /\ BeginSearch(p, [job[p] EXCEPT !.name = Head(rest)])

LastToken(p) ==
    /\ job[p].pc = "token"
    /\ rest = << >>
    /\ Goto(p, fs, "attrs")
    /\ UNCHANGED rest

\* What a look-up and a write end with.
AttrsOf(p) ==
    LET attrs == GetAttrs(fs, job[p].n, now) IN
    /\ job[p].pc = "attrs"
    /\ fs' = attrs.fs
    /\ up' = (attrs.st # "exit")
    /\ job' = [job EXCEPT ![p] = Idle]

-----------------------------------------------------------------------------
(* fs_create and fs_mkdir: after the search everything is without mutex.   *)

StartCreate(p, r) ==
    /\ r.op = "create"
    /\ BeginSearch(p, [Idle EXCEPT !.op = "create", !.n = r.dir, !.name = r.name, !.type = r.type])

\* Mutant: the inodes in use are counted, and nothing is checked.
FindInodeByCount(p) ==
    /\ job[p].pc = "inode"
    /\ Continue(p, fs, [job[p] EXCEPT !.pc = "block", !.new = Cardinality(fs.inode_bmap)])

FindInode(p) ==
    /\ job[p].pc = "inode"
    /\ IF FreeInodes(fs) = {} THEN Finish(p, fs)
       ELSE Continue(p, fs, [job[p] EXCEPT !.pc = "block", !.new = Lowest(FreeInodes(fs))])

DirOf(p) == fs.inode_tab[job[p].n]

FindBlock(p) ==
    /\ job[p].pc = "block"
    /\ IF ~NeedsBlock(DirOf(p)) THEN Goto(p, fs, "entry")
       ELSE IF FreeBlocks(fs) = {} THEN Finish(p, fs)
       ELSE Continue(p, fs, [job[p] EXCEPT !.pc = "reserve", !.block = Lowest(FreeBlocks(fs))])

ReserveBlock(p) ==
    /\ job[p].pc = "reserve"
    /\ Goto(p, [fs EXCEPT !.blk_bmap = @ \cup {job[p].block},
                          !.inode_tab[job[p].n].blocks[DirOf(p).size \div BlockSize] = job[p].block],
            "entry")

\* The page is read; block and k say where in it the entry goes.
ReadEntryPage(p) ==
    LET b == DirOf(p).blocks[DirOf(p).size \div BlockSize] IN
    /\ job[p].pc = "entry"
    /\ Continue(p, fs, [job[p] EXCEPT !.pc = "name", !.block = b, !.page = DiskPage(b),
                                      !.k = (DirOf(p).size % BlockSize) \div DentrySize])

\* The page is written back word by word: first the name arrives ...
WriteName(p) ==
    LET j == job[p] IN
    /\ j.pc = "name"
    /\ Goto(p, WithPage(j.block, [j.page EXCEPT ![j.k].name = j.name]), "link")

\* Mutant: the page is written before the number is in it.
WriteLinkUnsaved(p) ==
    /\ job[p].pc = "link"
    /\ Goto(p, fs, "extend")

\* ... then the number of the inode.
WriteLink(p) ==
    LET j == job[p] IN
    /\ j.pc = "link"
    /\ Goto(p, WithPage(j.block, [DiskPage(j.block) EXCEPT ![j.k].inode = j.new]), "extend")

ExtendDir(p) ==
    /\ job[p].pc = "extend"
    /\ Goto(p, [fs EXCEPT !.inode_tab[job[p].n].size = @ + DentrySize], "mark")

\* Mutant: the new inode is not marked as used.
MarkInodeForgotten(p) ==
    /\ job[p].pc = "mark"
    /\ Goto(p, fs, "init")

MarkInode(p) ==
    /\ job[p].pc = "mark"
    /\ Goto(p, [fs EXCEPT !.inode_bmap = @ \cup {job[p].new}], "init")

InitInode(p) ==
    /\ job[p].pc = "init"
    /\ Finish(p, [fs EXCEPT !.inode_tab[job[p].new] = InodeInit(job[p].type)])

-----------------------------------------------------------------------------
(* fs_read and fs_write: the pointer to the inode outlives the mutex.      *)

OpenedFor(op, r, at) ==
    [Idle EXCEPT !.op = op, !.n = r.n, !.at = at, !.off = r.off, !.cnt = r.cnt]

StartRead(p, r) ==
    LET acc == Access(fs, r.n, now) IN
    /\ r.op = "read"
    /\ IF acc.ok THEN Continue(p, acc.fs, [OpenedFor("read", r, acc.at) EXCEPT !.pc = "check"])
                 ELSE Finish(p, acc.fs)

FileOf(p) == Deref(fs, job[p].at, job[p].n)

\* Type and size are read without the mutex.
CheckRead(p) ==
    LET j == job[p] IN
    /\ j.pc = "check"
    /\ IF FileOf(p).type # "file" \/ j.off >= FileOf(p).size THEN Finish(p, fs)
       ELSE Continue(p, fs, [j EXCEPT !.pc = "read", !.k = j.off \div BlockSize,
                                      !.cnt = MinOf(j.cnt, FileOf(p).size - j.off)])

\* One turn of a transfer loop; what it does to the contents is in BlockCache.
\* The number of the block is read without the mutex.
Target(p) == FileOf(p).blocks[job[p].k]

\* Mutant: one block too many.
LastBlockLate(j) == (j.k + 1) * BlockSize > j.off + j.cnt

LastBlock(j) == (j.k + 1) * BlockSize >= j.off + j.cnt

ReadBlock(p) ==
    LET j == job[p] IN
    /\ j.pc = "read"
    /\ IF LastBlock(j) THEN Finish(p, fs) ELSE Continue(p, fs, [j EXCEPT !.k = @ + 1])

\* A write behind the end begins at the end.
OpenedForWrite(r, acc) ==
    LET off == MinOf(r.off, Deref(acc.fs, acc.at, r.n).size) IN
    [OpenedFor("write", r, acc.at) EXCEPT !.pc = "write", !.off = off, !.k = off \div BlockSize]

\* The first section gets the inode and reserves the blocks.
StartWrite(p, r) ==
    LET acc == Access(fs, r.n, now)
        j == OpenedForWrite(r, acc)
        res == Reserve(acc, r.n, j.off, j.cnt)
    IN /\ r.op = "write"
       /\ IF ~acc.ok \/ Deref(acc.fs, acc.at, r.n).type # "file" THEN Finish(p, acc.fs)
          ELSE IF ~res.ok THEN Finish(p, res.fs)
          ELSE Continue(p, res.fs, j)

WriteBlock(p) ==
    LET j == job[p] IN
    /\ j.pc = "write"
    /\ Continue(p, fs, IF LastBlock(j) THEN [j EXCEPT !.pc = "grow"] ELSE [j EXCEPT !.k = @ + 1])

\* The size is compared without the mutex ...
GrowTest(p) ==
    LET j == job[p] IN
    /\ j.pc = "grow"
    /\ Goto(p, fs, IF j.off + j.cnt > FileOf(p).size THEN "size" ELSE "attrs")

\* ... and set with it.
GrowSet(p) ==
    LET j == job[p] IN
    /\ j.pc = "size"
    /\ Goto(p, SetSize(fs, j.at, j.n, j.off + j.cnt), "attrs")

-----------------------------------------------------------------------------
(* Interference                                                            *)

\* Two creations have chosen their inode: they may have chosen the same one,
\* the same block, and the same place in the directory.
CreationRace == \E p, q \in Workers : p # q /\ {job[p].pc, job[q].pc} \subseteq AddStages

\* Thread p of a write changes the bitmap of blocks while a creation has found
\* a bit clear and not set it yet, or sets it in the same byte.
BlockRace(p) ==
    /\ job[p].pc = "idle" /\ fs'.blk_bmap # fs.blk_bmap
    /\ \E q \in Workers : job[q].pc \in {"reserve", "entry"}

\* Thread p reuses the cache slot another thread has a pointer to, or writes
\* an old copy over the inode in the table behind another thread's pointer.
PointerRace(p) ==
    \E q \in Workers \ {p} : LET j == job[q] IN
        /\ j.pc \in PointerStages
        /\ \/ j.at # TableRef /\ fs'.inode_cache[j.at].num # j.n
           \/ j.at = TableRef /\ \E i \in Indices : /\ fs.inode_tab[j.n].blocks[i] # 0
                                                  /\ fs'.inode_tab[j.n].blocks[i] = 0

\* An inode is cached that is marked as used and not initialised yet.
InodeRace ==
    \E q \in Workers : job[q].pc = "init" /\ CachedAt(fs, job[q].new) # {}

\* Thread p reads a page, to search it or to add to it, whose last entry has a
\* name and no inode yet.
EntryRace(p) ==
    \E q \in Workers : /\ job[q].pc = "link" /\ job[p].pc \in {"load", "entry"}
                       /\ job[q].block = job'[p].block

\* The slot a search began with has a page of another directory.
SlotRace ==
    \E q \in Workers : /\ job[q].hit # DirCacheSize
                       /\ fs.dir_cache[job[q].hit].dir # job[q].n

\* Two look-ups share the position of strtok.
TokenRace ==
    \E p, q \in Workers :
        p # q /\ \A r \in {p, q} : job[r].op = "lookup" /\ job[r].pc # "attrs"

\* An entry is added to a directory that has no block left: the number of its
\* block is in what follows the array, which is not modelled.
Overflow ==
    \E q \in Workers : /\ job[q].pc \in {"reserve", "entry", "extend"}
                       /\ fs.inode_tab[job[q].n].size >= InodeNumBlks * BlockSize

Interference(p) ==
    {r \in {"creation", "block", "pointer", "inode", "entry", "slot", "token", "full"} :
        \/ r = "creation" /\ CreationRace'
        \/ r = "block" /\ BlockRace(p)
        \/ r = "pointer" /\ PointerRace(p)
        \/ r = "inode" /\ InodeRace'
        \/ r = "entry" /\ EntryRace(p)
        \/ r = "slot" /\ SlotRace'
        \/ r = "token" /\ TokenRace'
        \/ r = "full" /\ Overflow'}

-----------------------------------------------------------------------------
\* A thread takes the next request from the ring.
Start(p) ==
    /\ job[p].pc = "idle"
    /\ left > 0
    /\ left' = left - 1
    /\ \E r \in Requests :
          \/ StartLookup(p, r)
          \/ UNCHANGED rest /\ (StartCreate(p, r) \/ StartRead(p, r) \/ StartWrite(p, r))

Tokenize(p) == UNCHANGED left /\ (NextToken(p) \/ LastToken(p))

Search(p) == Count(p) \/ PageHit(p) \/ PageMiss(p) \/ PageLoad(p) \/ PageFill(p)

Add(p) ==
    \/ FindInode(p) \/ FindBlock(p) \/ ReserveBlock(p) \/ ReadEntryPage(p) \/ WriteName(p)
    \/ WriteLink(p) \/ ExtendDir(p) \/ MarkInode(p) \/ InitInode(p)

Transfer(p) == CheckRead(p) \/ ReadBlock(p) \/ WriteBlock(p) \/ GrowTest(p) \/ GrowSet(p)

Work(p) == UNCHANGED <<rest, left>> /\ (Search(p) \/ Add(p) \/ Transfer(p) \/ AttrsOf(p))

Step(p) ==
    /\ up
    /\ Start(p) \/ Tokenize(p) \/ Work(p)
    /\ races' = races \cup Interference(p)
    /\ UNCHANGED now

CTick == Tick /\ UNCHANGED <<job, rest, left, races>>

CInit ==
    /\ Init
    /\ job = [p \in Workers |-> Idle]
    /\ rest = << >> /\ left = MaxRequests /\ races = {}

CNext == CTick \/ \E p \in Workers : Step(p)

CSpec == CInit /\ [][CNext]_cvars

-----------------------------------------------------------------------------
(* Properties *)

Without(kinds) == races \cap kinds = {}

\* Every job keeps its shape, whatever other threads do to the inode, the
\* page or the slot it works on (fs.c:342-347, 655-694).
JobsOK ==
    Without({"full"}) => /\ job \in [Workers -> Job]
                         /\ rest \in Paths /\ left \in 0 .. MaxRequests

\* No block comes to two inodes, and none that an inode names is free, unless
\* two creations overlap or a write allocates within the window of a creation:
\* threads that only write, on the same or different files, never share one
\* (fs.c:798-806, 921-935).
SharingNeedsRace == Without({"creation", "block", "full"}) => BlocksNotShared

\* The loops of fs_read and fs_write, which look blocks up through a pointer
\* they got before they released the mutex, take every block from the file they
\* were called for, and none is missing, unless the inode behind the pointer
\* was replaced (fs.c:533-537, 694, 826).
StrayTransferNeedsRace ==
    Without({"creation", "block", "pointer"}) =>
        /\ SizeCovered
        /\ \A p \in Workers : job[p].pc \in {"read", "write"} =>
              /\ Target(p) # 0
              /\ \A n \in InodeNums \ {job[p].n} : \A x \in Copies(n) : Target(p) \notin BlocksOf(x)

\* The interference that may change a directory: a lost or doubled entry, a
\* block that a file has too, an old copy of the inode written back.
Shuffling == {"creation", "block", "pointer"}

\* Whenever no creation is between its entry and the mark of its inode, the
\* directories form a tree on the disk (fs.c:921-948).
BrokenTreeNeedsRace ==
    /\ Without(Shuffling)
    /\ \A p \in Workers : job[p].pc \notin {"extend", "mark"}
    => TreeIntact

\* Look-ups, transfers and creations at the same time, as in the test, take the
\* server down only when an inode or an entry was used half made
\* (fs.c:582-590, 939-948, Tests/test_snfs_concurrent.c:30-60).
ExitNeedsRace == Without({"inode", "entry", "full"}) => up

\* A cached page names what is in the directory, unless it was loaded half
\* written or changed after its slot was reused (fs.c:386-391, 406-414).
LyingPageNeedsRace ==
    /\ Without({"entry", "slot"} \cup Shuffling)
    /\ \A p \in Workers : job[p].pc \notin {"link", "extend"}
    => DirCacheNeverLies

\* The inodes that the names of a path lead to on the disk.
Reached(path) ==
    LET named(dirs, name) == {e.inode : e \in {d \in UNION {EntriesOf(n) : n \in dirs \cap Dirs} :
                                                    d.name = name}}
        reached[i \in 0 .. Len(path)] ==
            IF i = 0 THEN {Root} ELSE named(reached[i - 1], path[i])
    IN reached[Len(path)]

\* A look-up that ends with an inode has followed its own path, unless another
\* one moved the position of strtok or a cached page lies (fs.c:617, 638).
StrayLookupNeedsRace ==
    /\ Without({"token", "entry", "slot"} \cup Shuffling)
    /\ \A p \in Workers : job[p].pc \notin {"link", "extend"}
    => \A p \in Workers : job[p].op = "lookup" /\ job[p].pc = "attrs" =>
           job[p].n \in Reached(job[p].path)
=============================================================================
