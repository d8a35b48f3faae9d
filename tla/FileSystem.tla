----------------------------- MODULE FileSystem -----------------------------
(***************************************************************************)
(* The file service of the SNFS server: the request handlers of            *)
(* snfs_server/snfs.c with the functions of fs.c they call, from the first *)
(* to the last statement.  Requests are served one at a time here, which   *)
(* is what a single client sees; what several consumer threads do to each  *)
(* other is in FileSystemConcurrent.                                       *)
(*                                                                         *)
(* A handler is an operator that gives its answer: the status st ("exit"   *)
(* when the handler ends the process), the file system structure it leaves *)
(* behind, and what else the client gets to know.                          *)
(***************************************************************************)
EXTENDS Directories, FiniteSets

CONSTANTS Offsets,   \* offsets clients read and write at
          Counts,    \* byte counts clients read and write
          Junk,      \* what a variable that was never set may hold
          Setup,     \* creations that the clients have begun with
          MaxPath,   \* bound: names in a path
          MaxTime    \* bound: seconds that may pass

CreateRequest == [op : {"create"}, dir : InodeNums, name : Names, type : {"file", "dir"}]

ASSUME FileSystemAssumption ==
    /\ Offsets \subseteq Nat
    /\ Counts \subseteq Nat
    /\ Junk \subseteq 0 .. ItabSize
    /\ Setup \in Seq(CreateRequest)
    /\ MaxPath \in Nat
    /\ MaxTime \in Nat

VARIABLES fs,        \* FS, the file system structure
          now,       \* time(NULL)
          up         \* FALSE once the process called exit

vars == <<fs, now, up>>

\* What a client may pass as a handle; ItabSize stands for all that are too
\* large, and for every other value a variable that was never set may have.
Handles == 0 .. ItabSize
Valid(h) == h # ItabSize

Paths == UNION {[1 .. len -> Names] : len \in 0 .. MaxPath}

Answer(st, f) == [st |-> st, fs |-> f]
Status(ok) == IF ok THEN "ok" ELSE "error"

-----------------------------------------------------------------------------
(* Look-up, creation and listing.                                          *)

LookupAnswer(n, attrs) == [st |-> attrs.st, fs |-> attrs.fs, inode |-> n, size |-> attrs.inode.size]

LookupFound(l) ==
    IF l.ok THEN LookupAnswer(l.inode, GetAttrs(l.fs, l.inode, now)) ELSE Answer("error", l.fs)

\* junk is what fileid holds before fs_lookup is called.
SnfsLookup(path, junk) == LookupFound(Lookup(fs, path, junk, now))

CreateAnswer(c) == [st |-> Status(c.ok), fs |-> c.fs, inode |-> c.inode]

SnfsCreate(dir, name, type) ==
    IF Valid(dir) THEN CreateAnswer(Create(fs, dir, name, type, now)) ELSE Answer("error", fs)

\* An entry of unknown type ends the server.  It is what a listing shows for
\* an entry that the page in the cache does not have yet.
ListAnswer(l) ==
    [st |-> IF \A i \in DOMAIN l.out : l.out[i].type \in {"dir", "file"}
            THEN "ok" ELSE "exit",
     fs |-> l.fs, list |-> l.out]

ListDir(acc, dir, max) ==
    LET idir == Deref(acc.fs, acc.at, dir) IN
    IF ~acc.ok \/ idir.type # "dir" THEN Answer("error", acc.fs)
    ELSE ListAnswer(List(acc.fs, dir, idir, max, now))

SnfsReaddir(dir, max) ==
    IF Valid(dir) THEN ListDir(Access(fs, dir, now), dir, max) ELSE Answer("error", fs)

-----------------------------------------------------------------------------
(* Reading and writing.                                                    *)

\* Mutant: one block too many.
BlocksAtTooFar(inode, off, cnt) ==
    {inode.blocks[i] : i \in {j \in Indices : /\ j >= off \div BlockSize
                                              /\ j * BlockSize <= off + cnt}}

\* The blocks of an inode that bytes off .. off+cnt-1 are in.
BlocksAt(inode, off, cnt) ==
    {inode.blocks[i] : i \in {j \in Indices : /\ j >= off \div BlockSize
                                              /\ j * BlockSize < off + cnt}}

ReadFrom(acc, n, off, cnt) ==
    LET ifile == Deref(acc.fs, acc.at, n)
        max == IF off >= ifile.size THEN 0 ELSE MinOf(cnt, ifile.size - off)
    IN IF ~acc.ok \/ ifile.type # "file" THEN Answer("error", acc.fs)
       ELSE [st |-> "ok", fs |-> acc.fs, nread |-> max,
             blocks |-> IF max = 0 THEN {} ELSE BlocksAt(ifile, off, max)]

SnfsRead(n, off, cnt) ==
    IF Valid(n) THEN ReadFrom(Access(fs, n, now), n, off, cnt) ELSE Answer("error", fs)

\* Mutant: the block is not marked as used.
AllocateOneUnmarked(f, at, n, i) ==
    LET b == Lowest(FreeBlocks(f)) IN
    Store(f, at, n, [Deref(f, at, n) EXCEPT !.blocks[i] = b])

\* The lowest free block becomes block i of the inode behind at.
AllocateOne(f, at, n, i) ==
    LET b == Lowest(FreeBlocks(f)) IN
    Store([f EXCEPT !.blk_bmap = @ \cup {b}], at, n, [Deref(f, at, n) EXCEPT !.blocks[i] = b])

\* The allocation loop: blocks first .. first+count-1, one by one until there
\* is no free one left.
Allocate(f0, at, n, first, count) ==
    LET next(before, i) ==
            IF ~before.ok \/ FreeBlocks(before.fs) = {} THEN [before EXCEPT !.ok = FALSE]
            ELSE [ok |-> TRUE, fs |-> AllocateOne(before.fs, at, n, i)]
        alloc[k \in 0 .. count] ==
            IF k = 0 THEN [ok |-> TRUE, fs |-> f0] ELSE next(alloc[k - 1], first + k - 1)
    IN alloc[count]

\* Only a cached inode has a dirty mark to set.
MarkDirty(f, at) == IF at = TableRef THEN f ELSE [f EXCEPT !.inode_cache[at].dirty = TRUE]

\* The last part: a write past the end sets the size.  An inode that was not
\* cached when the write began goes into the cache now, a second time.
SetSize(f, at, n, size) ==
    LET g == Store(f, at, n, [Deref(f, at, n) EXCEPT !.size = size])
    IN IF at = TableRef THEN AddInode(g, n, TRUE, now) ELSE MarkDirty(g, at)

Grow(f, at, n, size) ==
    IF size <= Deref(f, at, n).size THEN f ELSE SetSize(f, at, n, size)

\* The section of fs_write that reserves the blocks that bytes up to off + cnt
\* need: none if the inode has no room for them, those there are if the disk
\* has too few.
Reserve(acc, n, off, cnt) ==
    LET used == OffsetToBlocks(Deref(acc.fs, acc.at, n).size)
        req == MaxOf(OffsetToBlocks(off + cnt), used) - used
        al == Allocate(acc.fs, acc.at, n, used, req)
    IN IF req > InodeNumBlks - used THEN [ok |-> FALSE, fs |-> acc.fs]
       ELSE IF req = 0 \/ ~al.ok THEN al
       ELSE [ok |-> TRUE, fs |-> MarkDirty(al.fs, acc.at)]

\* The bytes are replaced and the size is set.
WriteReserved(r, at, n, off, cnt) ==
    IF ~r.ok THEN [ok |-> FALSE, fs |-> r.fs, blocks |-> {}]
    ELSE [ok |-> TRUE, fs |-> Grow(r.fs, at, n, off + cnt),
          blocks |-> BlocksAt(Deref(r.fs, at, n), off, cnt)]

\* A write behind the end begins at the end.
WriteAt(acc, n, off, cnt) == WriteReserved(Reserve(acc, n, off, cnt), acc.at, n, off, cnt)

WriteFile(acc, n, off, cnt) ==
    LET ifile == Deref(acc.fs, acc.at, n) IN
    IF ~acc.ok \/ ifile.type # "file" THEN [ok |-> FALSE, fs |-> acc.fs, blocks |-> {}]
    ELSE WriteAt(acc, n, MinOf(off, ifile.size), cnt)

FsWrite(n, off, cnt) == WriteFile(Access(fs, n, now), n, off, cnt)

WriteAnswer(attrs, blocks) ==
    [st |-> attrs.st, fs |-> attrs.fs, size |-> attrs.inode.size, blocks |-> blocks]

Written(w, n) ==
    IF w.ok THEN WriteAnswer(GetAttrs(w.fs, n, now), w.blocks) ELSE Answer("error", w.fs)

SnfsWrite(n, off, cnt) == IF Valid(n) THEN Written(FsWrite(n, off, cnt), n) ELSE Answer("error", fs)

-----------------------------------------------------------------------------
(* Copying: the target is a name in the directory path tgtdir.             *)

\* Mutant: the size is set before the blocks are there.
CopyBlocksEarly(f0, at, src, new) ==
    LET size == Deref(f0, at, src).size
        f1 == [f0 EXCEPT !.inode_tab[new] = [@ EXCEPT !.size = size, !.type = "file"]]
    IN Allocate(f1, TableRef, new, 0, OffsetToBlocks(size))

\* The blocks of the new inode, which is the one in the table, are allocated
\* one by one while the source is read through a pointer that may by now lead
\* to a slot that was given to another inode.
CopyBlocks(f0, at, src, new) ==
    LET al == Allocate(f0, TableRef, new, 0, OffsetToBlocks(Deref(f0, at, src).size))
        size == Deref(al.fs, at, src).size
    IN IF ~al.ok THEN al
       ELSE [ok |-> TRUE, fs |-> [al.fs EXCEPT !.inode_tab[new] = [@ EXCEPT !.size = size,
                                                                            !.type = "file"]]]

CopyAnswer(cp, n, new) == [st |-> Status(cp.ok), fs |-> cp.fs, from |-> n, to |-> new]

\* The steps of fs_copy, each with what the one before it gave: n is the
\* source, new its copy.
CopyData(acc, n, new) ==
    CopyAnswer(CopyBlocks(AddInode(acc.fs, new, TRUE, now), acc.at, n, new), n, new)

CopyCreated(c, n) ==
    IF c.ok THEN CopyData(Access(c.fs, n, now), n, c.inode) ELSE Answer("error", c.fs)

CopyTarget(d, n, name) ==
    IF d.ok THEN CopyCreated(Create(d.fs, d.inode, name, "file", now), n) ELSE Answer("error", d.fs)

\* A target in the root has the empty string for its directory, which is not
\* a path.
CopySource(attrs, n, tgtdir, name) ==
    IF attrs.st = "exit" THEN Answer("exit", attrs.fs)
    ELSE IF attrs.st = "error" \/ attrs.inode.type # "file" \/ tgtdir = << >>
    THEN Answer("error", attrs.fs)
    ELSE CopyTarget(Lookup(attrs.fs, tgtdir, 0, now), n, name)

CopyFound(s, tgtdir, name) ==
    IF s.ok THEN CopySource(GetAttrs(s.fs, s.inode, now), s.inode, tgtdir, name)
            ELSE Answer("error", s.fs)

SnfsCopy(src, junk, tgtdir, name) == CopyFound(Lookup(fs, src, junk, now), tgtdir, name)

-----------------------------------------------------------------------------
Reply(answer) ==
    /\ up
    /\ fs' = answer.fs
    /\ up' = (answer.st # "exit")
    /\ UNCHANGED now

Tick ==
    /\ up
    /\ now < MaxTime
    /\ now' = now + 1
    /\ UNCHANGED <<fs, up>>

\* fs_new and fs_format: only the root exists.
Formatted ==
    [inode_tab |-> [n \in InodeNums |-> InodeInit(IF n = Root THEN "dir" ELSE "none")],
     inode_bmap |-> {0, Root},
     blk_bmap |-> {},
     page |-> [b \in Blocks |-> ZeroPage],
     inode_cache |-> [i \in ISlots |-> ZeroInodeEntry],
     dir_cache |-> [i \in DSlots |-> ZeroDirEntry]]

\* After the creations of Setup, one after the other, within a second.
Prepared ==
    LET create(f, r) == Create(f, r.dir, r.name, r.type, 1).fs
        made[i \in 0 .. Len(Setup)] == IF i = 0 THEN Formatted ELSE create(made[i - 1], Setup[i])
    IN made[Len(Setup)]

Init == fs = Prepared /\ now = 1 /\ up = TRUE

\* Only the look-up of "/" leaves junk in fileid.
JunkFor(path) == IF path = << >> THEN Junk ELSE {0}

Request ==
    \/ \E path \in Paths : \E junk \in JunkFor(path) : Reply(SnfsLookup(path, junk))
    \/ \E dir \in Handles, name \in Names \cup {NoName}, type \in {"file", "dir"} :
          Reply(SnfsCreate(dir, name, type))
    \/ \E dir \in Handles : Reply(SnfsReaddir(dir, ItabSize))
    \/ \E n \in Handles, off \in Offsets, cnt \in Counts : Reply(SnfsRead(n, off, cnt))
    \/ \E n \in Handles, off \in Offsets, cnt \in Counts : Reply(SnfsWrite(n, off, cnt))
    \/ \E src, tgtdir \in Paths, name \in Names :
          \E junk \in JunkFor(src) : Reply(SnfsCopy(src, junk, tgtdir, name))

Next == Tick \/ Request

Spec == Init /\ [][Next]_vars

-----------------------------------------------------------------------------
(* Properties *)

FsStruct == [inode_tab : [InodeNums -> Inode], inode_bmap : SUBSET InodeNums,
             blk_bmap : SUBSET Blocks, page : [Blocks -> Page],
             inode_cache : [ISlots -> InodeEntry], dir_cache : [DSlots -> DirEntry]]

\* Every field of the structure keeps its shape.
TypeOK == fs \in FsStruct /\ now \in Nat /\ up \in BOOLEAN

\* Every copy the server has of inode n, in the table or in a cache slot.
Copies(n) == {fs.inode_tab[n]} \cup {fs.inode_cache[i].inode : i \in CachedAt(fs, n)}

BlocksOf(inode) == {inode.blocks[i] : i \in Indices} \ {0}

\* No block is in two inodes, whichever of their copies is looked at, nor
\* twice in one, and every block an inode names is marked as used: blocks of
\* different files are disjoint although copies of an inode go stale and old
\* ones come back when they are evicted (fs.c:531-534, 795-811, 1219-1225).
BlocksNotShared ==
    /\ \A n, m \in InodeNums : n # m =>
          \A x \in Copies(n), y \in Copies(m) : BlocksOf(x) \cap BlocksOf(y) = {}
    /\ \A n \in InodeNums : \A x \in Copies(n) :
          /\ \A i, j \in Indices : i # j /\ x.blocks[i] # 0 => x.blocks[i] # x.blocks[j]
          /\ BlocksOf(x) \subseteq fs.blk_bmap

\* The size of every copy of an inode is covered by blocks it really has, so
\* that no access below the size reaches block 0, the bitmap (fs.c:689-694,
\* 826-829, 1213-1215).
SizeCovered ==
    \A n \in InodeNums : \A x \in Copies(n) :
        /\ OffsetToBlocks(x.size) <= InodeNumBlks
        /\ \A i \in Indices : i < OffsetToBlocks(x.size) => x.blocks[i] # 0

\* A cached copy may be stale in its size and blocks, but never in its kind:
\* an inode is cached only while it is in use, and it stays in use (fs.c:562-571).
CachedKindIsCurrent ==
    \A i \in ISlots : LET e == fs.inode_cache[i] IN
        e.num # 0 => e.num \in fs.inode_bmap /\ e.inode.type = fs.inode_tab[e.num].type

\* The entries of directory n, on the disk, by position.
EntryAt(n, i) ==
    LET idir == fs.inode_tab[n] IN
    fs.page[idir.blocks[i \div DirPageEntries]][i % DirPageEntries]
EntriesOf(n) == {EntryAt(n, i) : i \in 0 .. (fs.inode_tab[n].size \div DentrySize) - 1}

Dirs == {n \in InodeNums : fs.inode_tab[n].type = "dir"}

Mentions(n) == {at \in Dirs \X (0 .. ItabSize) :
                    /\ at[2] < fs.inode_tab[at[1]].size \div DentrySize
                    /\ EntryAt(at[1], at[2]).inode = n}

\* The directories form a tree on the disk: every inode in use but the root is
\* in exactly one place of exactly one directory, and no entry names an inode
\* that is not in use (fs.c:937-948, 1004-1015).
TreeIntact ==
    \A n \in InodeNums \ {0} :
        Cardinality(Mentions(n)) = IF n = Root \/ n \notin fs.inode_bmap THEN 0 ELSE 1

\* The directory cache never makes a name up: what a cached page says of a
\* name is in that directory on the disk, also after an entry was copied into
\* a slot the search did not find it in (fs.c:329-333, 386-391, 406-414).
DirCacheNeverLies ==
    \A i \in DSlots : LET e == fs.dir_cache[i] IN
        \A p \in Positions : e.entries[p].name # NoName => e.entries[p] \in EntriesOf(e.dir)

\* No directory ever loses entries: the write-back of an old inode never hits
\* one, since directories are changed in the table behind the cache's back and
\* no cached copy of a directory becomes dirty (fs.c:531-533, 944, 1011).
DirectoriesOnlyGrow ==
    [][\A n \in Dirs : /\ fs'.inode_tab[n].type = "dir"
                       /\ fs'.inode_tab[n].size >= fs.inode_tab[n].size]_vars

\* A read takes bytes only from blocks of the file, and a write replaces none
\* of another file or of the metadata (fs.c:691-735, 828-866).
TransfersStayInFile ==
    \A n \in InodeNums, off \in Offsets, cnt \in Counts :
        \A answer \in {SnfsRead(n, off, cnt), SnfsWrite(n, off, cnt)} :
            answer.st = "ok" =>
                \A m \in InodeNums \ {n} : \A x \in Copies(m) :
                    answer.blocks \cap ({0} \cup BlocksOf(x)) = {}

\* A cached page of dir that differs from the page on the disk.
HasStalePage(dir) ==
    \E i \in SlotsOfDir(fs, dir) : fs.dir_cache[i].entries # fs.page[fs.dir_cache[i].block]

\* Requests that come one by one take the server down in one way only: a
\* directory is listed whose cached page is older than its size, and shows an
\* entry of no type.  No name that is looked up leads to an inode without a
\* type (fs.c:582-590, 1112-1124, snfs.c:209-213).
ExitOnlyFromStaleListing ==
    /\ \A dir \in Handles : SnfsReaddir(dir, ItabSize).st = "exit" => HasStalePage(dir)
    /\ \A name \in Names : SnfsLookup(<<name>>, 0).st # "exit"

-----------------------------------------------------------------------------
(* What the documentation and the tests say and the code does not do.      *)

\* "Todos localizam o mesmo ficheiro": a name in the root is found by a
\* look-up (Tests/test_snfs_concurrent.c:43-46, fs.h:71).
LookupFindsEntry ==
    \A e \in EntriesOf(Root) : SnfsLookup(<<e.name>>, 0).st = "ok"

\* After a write from offset 0 the file has at least the bytes written: the
\* test reads them back (Tests/test_snfs_create_write_read.c:28-33).
WriteIsVisible ==
    \A n \in Handles, cnt \in Counts : LET answer == SnfsWrite(n, 0, cnt) IN
        answer.st = "ok" => answer.size >= cnt
=============================================================================
