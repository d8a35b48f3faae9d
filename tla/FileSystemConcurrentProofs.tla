--------------------- MODULE FileSystemConcurrentProofs ---------------------
(***************************************************************************)
(* What the threads of the file service keep, for any number of threads,   *)
(* requests, inodes and blocks: the shape of the structure and of their    *)
(* local variables, blocks that are not shared, and what inodes and        *)
(* entries must be for the server to stay up.                              *)
(***************************************************************************)
EXTENDS FileSystemConcurrent, FileSystemProofs

-----------------------------------------------------------------------------
(* The shape of the structure and of the jobs.                             *)

MaxSize == InodeNumBlks * BlockSize

\* No inode is larger than its array of blocks, but for one entry.
SizesOK(f) ==
    /\ \A n \in InodeNums : f.inode_tab[n].size < MaxSize + DentrySize
    /\ \A i \in ISlots : f.inode_cache[i].inode.size < MaxSize + DentrySize

\* Where the thread that serves a request may be.
StageOK(j) ==
    /\ j.op = "none" => j.pc = "idle"
    /\ j.op = "lookup" => j.pc \in SearchStages \cup {"token", "attrs"}
    /\ j.op = "create" => j.pc \in SearchStages \cup AddStages \cup {"inode"}
    /\ j.op = "read" => j.pc \in {"check", "read"}
    /\ j.op = "write" => j.pc \in {"write", "grow", "size", "attrs"}

JobFits(j) ==
    /\ j \in Job
    /\ StageOK(j)
    /\ j.op \in {"lookup", "create"} => j.name \in Names
    /\ j.op = "create" => j.type \in {"file", "dir"}
    /\ j.num <= InodeNumBlks * DirPageEntries
    /\ j.pc \in {"token", "count"} => j.k = 0
    /\ j.pc \in {"page", "load", "fill"} => j.k * DirPageEntries < j.num
    /\ j.pc = "reserve" => j.block # 0
    /\ j.op \in {"read", "write"} => j.cnt > 0
    /\ j.pc \in {"write", "grow", "size"} => j.off + j.cnt <= MaxSize

Shape ==
    /\ fs \in FsStruct /\ SizesOK(fs)
    /\ now \in Nat /\ up \in BOOLEAN
    /\ DOMAIN job = Workers /\ job = [p \in Workers |-> job[p]]
    /\ \A p \in Workers : JobFits(job[p])
    /\ rest \in Paths /\ left \in 0 .. MaxRequests

ShapeInv == Without({"full"}) => Shape /\ ~Overflow

\* The fields of a job have their types.
LEMMA JobFields ==
    ASSUME NEW j \in Job
    PROVE  /\ j.pc \in Stages /\ j.op \in {"none", "create", "lookup", "read", "write"}
           /\ j.path \in Paths /\ j.name \in Names \cup {NoName} /\ j.type \in {"none", "file", "dir"}
           /\ j.n \in InodeNums /\ j.hit \in 0 .. DirCacheSize /\ j.num \in Nat /\ j.k \in Nat
           /\ j.block \in Blocks \cup {0} /\ j.page \in Page /\ j.new \in InodeNums
           /\ j.at \in 0 .. TableRef /\ j.off \in Nat /\ j.cnt \in Nat
BY DEF Job

\* The sets of stages.
LEMMA StageFacts ==
    /\ Stages = {"idle", "token", "inode", "attrs", "count", "page", "load", "fill",
                 "block", "reserve", "entry", "name", "link", "extend", "mark", "init",
                 "check", "read", "write", "grow", "size"}
    /\ SearchStages = {"count", "page", "load", "fill"}
    /\ AddStages = {"block", "reserve", "entry", "name", "link", "extend", "mark", "init"}
    /\ PointerStages = {"check", "read", "write", "grow", "size"}
BY DEF Stages, SearchStages, AddStages, PointerStages

\* A thread without a request is in shape.
LEMMA IdleFits ==
    JobFits(Idle) /\ Idle.pc = "idle" /\ Idle.hit = DirCacheSize
<1>1. ZeroPage \in Page
  BY Sizes DEF ZeroPage, Page, Dentry, NoDentry
<1>2. << >> \in Paths
  <2>1. << >> \in [1 .. 0 -> Names] /\ 0 \in 0 .. MaxPath
    BY FileSystemAssumption
  <2> QED
    BY <2>1 DEF Paths
<1>3. 0 \in InodeNums /\ DirCacheSize \in 0 .. DirCacheSize /\ TableRef \in 0 .. TableRef /\ 0 \in Nat
  BY Sizes, DirectoriesAssumption, InodesAssumption DEF TableRef
<1>4. 0 <= InodeNumBlks * DirPageEntries
  BY DirectoriesAssumption, InodesAssumption
<1>5. Idle \in Job
  BY <1>1, <1>2, <1>3 DEF Idle, Job, Stages
<1> QED
  BY <1>4, <1>5 DEF JobFits, StageOK, Idle

\* A path goes on with what follows its first name.
LEMMA TailIsPath ==
    ASSUME NEW path \in Paths, path # << >>
    PROVE  Tail(path) \in Paths /\ Head(path) \in Names
<1>1. PICK len \in 0 .. MaxPath : path \in [1 .. len -> Names]
  BY DEF Paths
<1>2. path \in Seq(Names) /\ len \in Nat /\ MaxPath \in Nat
  BY <1>1, PathsAreSeqs, FileSystemAssumption
<1>3. Len(path) = len
  BY <1>1, <1>2
<1>4. len # 0
  BY <1>2, <1>3
<1>5. Tail(path) \in Seq(Names) /\ Len(Tail(path)) = len - 1 /\ Head(path) \in Names
  BY <1>2, <1>3, <1>4
<1>6. Tail(path) \in [1 .. len - 1 -> Names]
  <2> DEFINE t == Tail(path)
             l == len - 1
  <2>1. t \in Seq(Names) /\ Len(t) = l
    BY <1>5
  <2> HIDE DEF t, l
  <2>2. t \in [1 .. l -> Names]
    BY <2>1
  <2> QED
    BY <2>2 DEF t, l
<1>7. len - 1 \in 0 .. MaxPath
  BY <1>2, <1>4
<1> QED
  BY <1>5, <1>6, <1>7 DEF Paths

\* A directory of a size that fits has no more entries than its blocks have room for.
LEMMA NumFits ==
    ASSUME NEW s \in Nat, s < MaxSize + DentrySize
    PROVE  s \div DentrySize \in Nat /\ s \div DentrySize <= InodeNumBlks * DirPageEntries
<1> DEFINE Z == DentrySize
           D == DirPageEntries
           q == s \div Z
           M == InodeNumBlks * D
<1>1. Z \in Nat \ {0} /\ D \in Nat \ {0} /\ BlockSize = Z * D /\ InodeNumBlks \in Nat
  BY BlockIsPage, InodesAssumption
<1> HIDE DEF Z, D
<1>2. q \in Nat /\ q * Z <= s
  <2>1. q \in Nat /\ s % Z \in 0 .. Z - 1 /\ s = q * Z + (s % Z)
    BY <1>1, DivRange, DivMod
  <2> HIDE DEF q
  <2>2. q * Z \in Nat
    BY <1>1, <2>1
  <2> QED
    BY <1>1, <2>1, <2>2 DEF q
<1> HIDE DEF q
<1>3. M \in Nat /\ MaxSize = M * Z /\ M * Z \in Nat
  BY <1>1 DEF MaxSize
<1> HIDE DEF M
<1>4. ~(M < q)
  <2>1. M < q => M * Z + Z <= q * Z
    BY <1>1, <1>2, <1>3, MulLess
  <2>2. q * Z \in Nat /\ s < M * Z + Z
    BY <1>1, <1>2, <1>3 DEF Z
  <2> QED
    BY <1>1, <1>2, <1>3, <2>1, <2>2
<1> QED
  BY <1>2, <1>3, <1>4 DEF Z, D, q, M

\* A page of the search is one of the directory's blocks.
LEMMA PageIndex ==
    ASSUME NEW k \in Nat, NEW num \in Nat, num <= InodeNumBlks * DirPageEntries,
           k * DirPageEntries < num
    PROVE  k \in Indices
<1>1. DirPageEntries \in Nat \ {0} /\ InodeNumBlks \in Nat
  BY DirectoriesAssumption, InodesAssumption
<1>2. ~(InodeNumBlks <= k)
  <2>1. InodeNumBlks <= k => InodeNumBlks * DirPageEntries <= k * DirPageEntries
    BY <1>1, MulMono
  <2>2. InodeNumBlks * DirPageEntries \in Nat /\ k * DirPageEntries \in Nat
    BY <1>1
  <2> QED
    BY <1>1, <2>1, <2>2
<1> QED
  BY <1>1, <1>2 DEF Indices

\* The block of the next entry is one of the directory's blocks, unless it has none left.
LEMMA EntryIndex ==
    ASSUME NEW s \in Nat, s < MaxSize
    PROVE  s \div BlockSize \in Indices /\ (s % BlockSize) \div DentrySize \in Nat
<1> DEFINE q == s \div BlockSize
           r == s % BlockSize
<1>1. BlockSize \in Nat \ {0} /\ InodeNumBlks \in Nat /\ DentrySize \in Nat \ {0}
  BY BlockIsPage, InodesAssumption
<1>2. q \in Nat /\ r \in 0 .. BlockSize - 1 /\ s = q * BlockSize + r
  BY <1>1, DivRange, DivMod
<1> HIDE DEF q, r
<1>3. r \in Nat
  BY <1>1, <1>2
<1>4. r \div DentrySize \in Nat
  BY <1>1, <1>3, DivRange
<1>5. ~(InodeNumBlks <= q)
  <2>1. InodeNumBlks <= q => InodeNumBlks * BlockSize <= q * BlockSize
    BY <1>1, <1>2, MulMono
  <2>2. InodeNumBlks * BlockSize \in Nat /\ q * BlockSize \in Nat
    BY <1>1, <1>2
  <2> QED
    BY <1>1, <1>2, <2>1, <2>2 DEF MaxSize
<1> QED
  BY <1>1, <1>2, <1>4, <1>5 DEF Indices, q, r
\* A page of entries, wherever it came from, goes into a slot of the directory cache.
LEMMA FillPageEffect ==
    ASSUME NEW f \in FsStruct, NEW d \in InodeNums, NEW b \in Blocks \cup {0},
           NEW page \in Page, NEW t \in Nat
    PROVE  LET g == FillPage(f, d, b, page, t) IN
           /\ SameInodes(f, g)
           /\ \E v \in DSlots : /\ g.dir_cache[v].dir = d
                                /\ g.dir_cache[v].entries = page
                                /\ \A i \in DSlots \ {v} : g.dir_cache[i] = f.dir_cache[i]
<1> DEFINE v == LruSlot(f.dir_cache, DSlots)
           e == [dir |-> d, block |-> b, entries |-> page, last |-> t]
<1>1. v \in DSlots
  <2>1. \A i \in DSlots : f.dir_cache[i].last \in Nat
    BY Fields, DirEntryFields
  <2> QED
    BY <2>1, Sizes, LruSlotIn
<1>2. FillPage(f, d, b, page, t) = [f EXCEPT !.dir_cache[v] = e]
  BY DEF FillPage
<1> HIDE DEF v
<1>3. e \in DirEntry /\ e.dir = d /\ e.entries = page
  BY DEF DirEntry
<1> HIDE DEF e
<1> QED
  BY <1>1, <1>2, <1>3, SetDirSlot

\* Slot i says entry e at a position.
Says(f, d, e) ==
    \E i \in DSlots, q \in Positions : f.dir_cache[i].dir = d /\ f.dir_cache[i].entries[q] = e

\* What cached pages say was said before of the same directory, or is on the page that was
\* searched, of one of the directories.
SaidFrom(f, g, page, dirs) ==
    \A i \in DSlots, q \in Positions : LET e == g.dir_cache[i] IN
        \/ Says(f, e.dir, e.entries[q])
        \/ e.dir \in dirs /\ \E r \in Positions : page[r] = e.entries[q]

\* Where a search may leave the job j: nothing, the next page, the inode that was found.
Told(j, n) == [Searched(j) EXCEPT !.pc = "token", !.n = n]
Missed(j) == [Searched(j) EXCEPT !.pc = "inode"]
NextPage(j) == [j EXCEPT !.pc = "page", !.k = @ + 1, !.block = 0, !.page = ZeroPage]
Begun(j, h) == [j EXCEPT !.pc = "count", !.hit = h]

\* The empty page.
LEMMA ZeroPageTyped == ZeroPage \in Page
BY Sizes DEF ZeroPage, Page, Dentry, NoDentry

\* Such jobs have their shape.
LEMMA SearchJobs ==
    ASSUME NEW j \in Job
    PROVE  /\ \A n \in InodeNums : /\ Told(j, n) \in Job
                                   /\ Told(j, n).pc = "token" /\ Told(j, n).n = n
                                   /\ Told(j, n).hit = DirCacheSize
                                   /\ Told(j, n).op = j.op /\ Told(j, n).path = j.path
                                   /\ Told(j, n).name = j.name /\ Told(j, n).type = j.type
                                   /\ Told(j, n).num = 0 /\ Told(j, n).k = 0 /\ Told(j, n).cnt = j.cnt
                                   /\ Told(j, n).off = j.off
           /\ Missed(j) \in Job /\ Missed(j).pc = "inode" /\ Missed(j).n = j.n
           /\ Missed(j).hit = DirCacheSize /\ Missed(j).op = j.op /\ Missed(j).path = j.path
           /\ Missed(j).name = j.name /\ Missed(j).type = j.type /\ Missed(j).num = 0
           /\ Missed(j).cnt = j.cnt /\ Missed(j).off = j.off
           /\ NextPage(j) \in Job /\ NextPage(j).pc = "page" /\ NextPage(j).n = j.n
           /\ NextPage(j).hit = j.hit /\ NextPage(j).op = j.op /\ NextPage(j).path = j.path
           /\ NextPage(j).name = j.name /\ NextPage(j).type = j.type /\ NextPage(j).num = j.num
           /\ NextPage(j).cnt = j.cnt /\ NextPage(j).off = j.off /\ NextPage(j).k = j.k + 1
           /\ \A h \in 0 .. DirCacheSize :
                 /\ Begun(j, h) \in Job /\ Begun(j, h).pc = "count" /\ Begun(j, h).n = j.n
                 /\ Begun(j, h).hit = h /\ Begun(j, h).op = j.op /\ Begun(j, h).path = j.path
                 /\ Begun(j, h).name = j.name /\ Begun(j, h).type = j.type
                 /\ Begun(j, h).num = j.num /\ Begun(j, h).k = j.k /\ Begun(j, h).cnt = j.cnt /\ Begun(j, h).off = j.off
<1>1. 0 \in InodeNums /\ DirCacheSize \in 0 .. DirCacheSize
  BY Sizes, DirectoriesAssumption
<1>0. "token" \in Stages /\ "inode" \in Stages /\ "page" \in Stages /\ "count" \in Stages
  BY StageFacts
<1> DEFINE s == Searched(j)
<1>2. /\ s \in Job /\ s.hit = DirCacheSize /\ s.num = 0 /\ s.k = 0
      /\ s.op = j.op /\ s.path = j.path /\ s.name = j.name /\ s.type = j.type
      /\ s.n = j.n /\ s.off = j.off /\ s.cnt = j.cnt
  BY <1>1, ZeroPageTyped DEF Job, Searched
<1> HIDE DEF s
<1>3. ASSUME NEW n \in InodeNums
      PROVE  LET k == [s EXCEPT !.pc = "token", !.n = n] IN
             /\ k \in Job /\ k.pc = "token" /\ k.n = n
             /\ k.hit = s.hit /\ k.op = s.op /\ k.path = s.path /\ k.name = s.name /\ k.type = s.type
             /\ k.num = s.num /\ k.k = s.k /\ k.off = s.off /\ k.cnt = s.cnt
  BY <1>0, <1>2 DEF Job
<1>4. LET k == [s EXCEPT !.pc = "inode"] IN
             /\ k \in Job /\ k.pc = "inode" /\ k.n = s.n
             /\ k.hit = s.hit /\ k.op = s.op /\ k.path = s.path /\ k.name = s.name /\ k.type = s.type
             /\ k.num = s.num /\ k.off = s.off /\ k.cnt = s.cnt
  BY <1>0, <1>2 DEF Job
<1>5. LET k == [j EXCEPT !.pc = "page", !.k = @ + 1, !.block = 0, !.page = ZeroPage] IN
             /\ k \in Job /\ k.pc = "page" /\ k.n = j.n
             /\ k.hit = j.hit /\ k.op = j.op /\ k.path = j.path /\ k.name = j.name /\ k.type = j.type
             /\ k.num = j.num /\ k.off = j.off /\ k.cnt = j.cnt /\ k.k = j.k + 1
  <2>1. j.k + 1 \in Nat /\ 0 \in Blocks \cup {0}
    BY JobFields
  <2> QED
    BY <1>0, <2>1, ZeroPageTyped DEF Job
<1>6. ASSUME NEW h \in 0 .. DirCacheSize
      PROVE  LET k == [j EXCEPT !.pc = "count", !.hit = h] IN
             /\ k \in Job /\ k.pc = "count" /\ k.n = j.n /\ k.hit = h
             /\ k.op = j.op /\ k.path = j.path /\ k.name = j.name /\ k.type = j.type
             /\ k.num = j.num /\ k.k = j.k /\ k.off = j.off /\ k.cnt = j.cnt
  BY <1>0 DEF Job
<1>7. ASSUME NEW n \in InodeNums
      PROVE  /\ Told(j, n) \in Job
             /\ Told(j, n).pc = "token" /\ Told(j, n).n = n
             /\ Told(j, n).hit = DirCacheSize
             /\ Told(j, n).op = j.op /\ Told(j, n).path = j.path
             /\ Told(j, n).name = j.name /\ Told(j, n).type = j.type
             /\ Told(j, n).num = 0 /\ Told(j, n).k = 0 /\ Told(j, n).cnt = j.cnt
             /\ Told(j, n).off = j.off
  BY <1>2, <1>3 DEF Told, s
<1>8. /\ Missed(j) \in Job /\ Missed(j).pc = "inode" /\ Missed(j).n = j.n
      /\ Missed(j).hit = DirCacheSize /\ Missed(j).op = j.op /\ Missed(j).path = j.path
      /\ Missed(j).name = j.name /\ Missed(j).type = j.type /\ Missed(j).num = 0
      /\ Missed(j).cnt = j.cnt /\ Missed(j).off = j.off
  BY <1>2, <1>4 DEF Missed, s
<1>9. ASSUME NEW h \in 0 .. DirCacheSize
      PROVE  /\ Begun(j, h) \in Job /\ Begun(j, h).pc = "count" /\ Begun(j, h).n = j.n
             /\ Begun(j, h).hit = h /\ Begun(j, h).op = j.op /\ Begun(j, h).path = j.path
             /\ Begun(j, h).name = j.name /\ Begun(j, h).type = j.type
             /\ Begun(j, h).num = j.num /\ Begun(j, h).k = j.k /\ Begun(j, h).cnt = j.cnt /\ Begun(j, h).off = j.off
  BY <1>6 DEF Begun
<1>10. /\ NextPage(j) \in Job /\ NextPage(j).pc = "page" /\ NextPage(j).n = j.n
       /\ NextPage(j).hit = j.hit /\ NextPage(j).op = j.op /\ NextPage(j).path = j.path
       /\ NextPage(j).name = j.name /\ NextPage(j).type = j.type /\ NextPage(j).num = j.num
       /\ NextPage(j).cnt = j.cnt /\ NextPage(j).off = j.off /\ NextPage(j).k = j.k + 1
  BY <1>5 DEF NextPage
<1> QED
  BY <1>7, <1>8, <1>9, <1>10

\* What is said is said again if the slots keep their entries.
LEMMA SaidKept ==
    ASSUME NEW f, NEW g,
           \A i \in DSlots : /\ g.dir_cache[i].dir = f.dir_cache[i].dir
                             /\ g.dir_cache[i].entries = f.dir_cache[i].entries
    PROVE  \A page, dirs : SaidFrom(f, g, page, dirs)
BY DEF SaidFrom, Says

\* Slots are taken from where pages said it.
LEMMA SaidOn ==
    ASSUME NEW f, NEW g, NEW h, NEW page, NEW dirs, NEW more,
           SaidFrom(f, g, page, dirs), SaidFrom(g, h, page, more)
    PROVE  SaidFrom(f, h, page, dirs \cup more)
<1>1. ASSUME NEW i \in DSlots, NEW q \in Positions
      PROVE  LET e == h.dir_cache[i] IN
             \/ Says(f, e.dir, e.entries[q])
             \/ e.dir \in dirs \cup more /\ \E r \in Positions : page[r] = e.entries[q]
  <2> DEFINE d == h.dir_cache[i].dir
             x == h.dir_cache[i].entries[q]
  <2>1. Says(g, d, x) \/ (d \in more /\ \E r \in Positions : page[r] = x)
    BY DEF SaidFrom
  <2>2. CASE Says(g, d, x)
    <3>1. PICK i1 \in DSlots, q1 \in Positions : g.dir_cache[i1].dir = d /\ g.dir_cache[i1].entries[q1] = x
      BY <2>2 DEF Says
    <3>2. Says(f, d, x) \/ (d \in dirs /\ \E r \in Positions : page[r] = x)
      BY <3>1 DEF SaidFrom
    <3> QED
      BY <3>2
  <2> QED
    BY <2>1, <2>2
<1> QED
  BY <1>1 DEF SaidFrom

\* A page of the directory is remembered.
LEMMA RememberSays ==
    ASSUME NEW f \in FsStruct, NEW v \in DSlots, NEW page \in Page, NEW q \in Positions
    PROVE  LET g == Remember(f, v, page[q]) IN
           SameInodes(f, g) /\ SaidFrom(f, g, page, {f.dir_cache[v].dir})
<1> DEFINE e == page[q]
           g == Remember(f, v, e)
<1>1. e \in Dentry
  BY DEF Page
<1> HIDE DEF e
<1>2. CASE g = f
  BY <1>2, SameInodesItself, SaidKept DEF e
<1>3. CASE g # f
  <2>1. /\ SameInodes(f, g)
        /\ g.dir_cache[v].dir = f.dir_cache[v].dir
        /\ \A r \in Positions : \/ g.dir_cache[v].entries[r] = f.dir_cache[v].entries[r]
                                \/ g.dir_cache[v].entries[r] = e
        /\ \A i \in DSlots \ {v} : g.dir_cache[i] = f.dir_cache[i]
    BY <1>1, <1>3, RememberFields
  <2> HIDE DEF g
  <2>2. SaidFrom(f, g, page, {f.dir_cache[v].dir})
    BY <2>1 DEF SaidFrom, Says, e
  <2> QED
    BY <2>1, <2>2 DEF g, e
<1> QED
  BY <1>2, <1>3
\* Entries that match are found in place.
LEMMA MatchIn ==
    ASSUME NEW page, NEW n \in Int, n <= DirPageEntries, NEW name, Matches(page, n, name) # {}
    PROVE  LET q == Lowest(Matches(page, n, name)) IN q \in Positions /\ page[q].name = name
<1> DEFINE m == Matches(page, n, name)
<1>1. m \subseteq Positions /\ \A q \in m : page[q].name = name
  BY DirectoriesAssumption DEF Matches, Positions
<1> HIDE DEF m
<1>2. Lowest(m) \in m
  BY <1>1, Sizes, LowestIn DEF m
<1> QED
  BY <1>1, <1>2 DEF m

\* No slot of the directory cache is for another page.
SlotsSay(f, g) ==
    \A i \in DSlots : /\ g.dir_cache[i].dir = f.dir_cache[i].dir
                      /\ g.dir_cache[i].entries = f.dir_cache[i].entries

\* Where the section that begins the search of job j leads.
BegunTo(f, j, k) ==
    \/ k = Idle /\ (j.op = "lookup" => ~IsDir(f, j.n))
    \/ /\ IsDir(f, j.n) /\ j.op = "lookup"
       /\ \E i \in DSlots, q \in Positions :
             /\ f.dir_cache[i].dir = j.n
             /\ f.dir_cache[i].entries[q].name = j.name
             /\ k = Told(j, f.dir_cache[i].entries[q].inode)
    \/ /\ IsDir(f, j.n)
       /\ \E h \in 0 .. DirCacheSize : /\ h # DirCacheSize => h \in DSlots /\ f.dir_cache[h].dir = j.n
                                       /\ k = Begun(j, h)

\* A search starts: it touches nothing but the time stamp of the slot it hits.
LEMMA BeginEffect ==
    ASSUME fs \in FsStruct, now \in Nat, NEW p, NEW j, BeginSearch(p, j)
    PROVE  /\ SameInodes(fs, fs') /\ SlotsSay(fs, fs') /\ up' = up
           /\ \E k : BegunTo(fs, j, k) /\ job' = [job EXCEPT ![p] = k]
<1> DEFINE s == SearchFirst(fs, j.n, j.name, now)
           hit == IF SlotsOfDir(fs, j.n) = {} THEN DirCacheSize ELSE Lowest(SlotsOfDir(fs, j.n))
           m == IF hit = DirCacheSize THEN {} ELSE Matches(fs.dir_cache[hit].entries, DirPageEntries, j.name)
           g == IF hit = DirCacheSize THEN fs ELSE [fs EXCEPT !.dir_cache[hit].last = now]
           e == fs.dir_cache[hit].entries[Lowest(m)]
<1>1. hit = DirCacheSize \/ (hit \in DSlots /\ fs.dir_cache[hit].dir = j.n)
  <2>1. SlotsOfDir(fs, j.n) \subseteq Nat
    BY Sizes DEF SlotsOfDir
  <2>2. SlotsOfDir(fs, j.n) # {} => Lowest(SlotsOfDir(fs, j.n)) \in SlotsOfDir(fs, j.n)
    BY <2>1, LowestIn
  <2> QED
    BY <2>2 DEF SlotsOfDir
<1>2. s = [fs |-> g, found |-> m # {}, hit |-> hit, inode |-> IF m = {} THEN 0 ELSE e.inode]
  BY DEF SearchFirst
<1> HIDE DEF hit, s
<1>3. SameInodes(fs, g) /\ SlotsSay(fs, g)
  <2>1. CASE hit = DirCacheSize
    BY <2>1, SameInodesItself DEF SlotsSay
  <2>2. CASE hit # DirCacheSize
    <3> DEFINE h == [fs EXCEPT !.dir_cache[hit].last = now]
    <3>1. /\ SameInodes(fs, h)
          /\ \A i \in DSlots : /\ h.dir_cache[i].dir = fs.dir_cache[i].dir
                               /\ h.dir_cache[i].block = fs.dir_cache[i].block
                               /\ h.dir_cache[i].entries = fs.dir_cache[i].entries
      BY <1>1, <2>2, SetLast
    <3> HIDE DEF h
    <3>2. SameInodes(fs, h) /\ SlotsSay(fs, h)
      BY <3>1 DEF SlotsSay
    <3> QED
      BY <2>2, <3>2 DEF h
  <2> QED
    BY <2>1, <2>2
<1>4. ASSUME m # {}
      PROVE  /\ hit \in DSlots /\ Lowest(m) \in Positions /\ fs.dir_cache[hit].dir = j.n
             /\ e.name = j.name
  <2>1. hit # DirCacheSize /\ m = Matches(fs.dir_cache[hit].entries, DirPageEntries, j.name)
    BY <1>4
  <2>2. DirPageEntries \in Int /\ DirPageEntries <= DirPageEntries
    BY DirectoriesAssumption
  <2> QED
    BY <1>1, <1>4, <2>1, <2>2, MatchIn
<1> HIDE DEF g, m, e
<1>5. s.fs = g /\ s.hit = hit /\ (s.found <=> m # {}) /\ (m # {} => s.inode = e.inode)
  BY <1>2
<1>6. CASE ~IsDir(fs, j.n)
  <2>1. Finish(p, fs)
    BY <1>6 DEF BeginSearch
  <2>2. fs' = fs /\ up' = up /\ job' = [job EXCEPT ![p] = Idle]
    BY <2>1 DEF Finish, Continue
  <2>3. SameInodes(fs, fs) /\ SlotsSay(fs, fs) /\ BegunTo(fs, j, Idle)
    BY <1>6, SameInodesItself DEF SlotsSay, BegunTo
  <2> QED
    BY <2>2, <2>3
<1>7. CASE IsDir(fs, j.n) /\ m # {}
  <2>1. Found(p, j, g, e.inode)
    BY <1>5, <1>7 DEF BeginSearch, s
  <2> DEFINE k == IF j.op = "lookup" THEN Told(j, e.inode) ELSE Idle
  <2>2. fs' = g /\ up' = up /\ job' = [job EXCEPT ![p] = k]
    BY <2>1 DEF Found, Finish, Continue, Told
  <2>3. BegunTo(fs, j, k)
    BY <1>4, <1>7 DEF BegunTo, e
  <2> QED
    BY <1>3, <2>2, <2>3
<1>8. CASE IsDir(fs, j.n) /\ m = {}
  <2>1. Continue(p, g, Begun(j, hit))
    BY <1>5, <1>8 DEF BeginSearch, s, Begun
  <2>2. fs' = g /\ up' = up /\ job' = [job EXCEPT ![p] = Begun(j, hit)]
    BY <2>1 DEF Continue
  <2>3. hit \in 0 .. DirCacheSize
    BY <1>1, DirectoriesAssumption DEF DSlots
  <2>4. BegunTo(fs, j, Begun(j, hit))
    BY <1>1, <1>8, <2>3 DEF BegunTo
  <2> QED
    BY <1>3, <2>2, <2>4
<1> QED
  BY <1>6, <1>7, <1>8

\* Where the search of a page leads.
SearchedTo(page, j, k) ==
    \/ k = Idle
    \/ /\ j.op = "lookup"
       /\ \E q \in Positions : page[q].name = j.name /\ k = Told(j, page[q].inode)
    \/ j.op # "lookup" /\ k = Missed(j)
    \/ LeftAt(j.num, j.k + 1) > 0 /\ k = NextPage(j)

\* The search of a page: the cache changes in the slot it began with, if at all.
LEMMA SearchOnEffect ==
    ASSUME NEW p, NEW f \in FsStruct, NEW page \in Page,
           job[p] \in Job, SearchOn(p, f, page)
    PROVE  LET j == job[p] IN
           /\ SameInodes(f, fs') /\ up' = up
           /\ fs' = f \/ (j.hit \in DSlots /\ SaidFrom(f, fs', page, {f.dir_cache[j.hit].dir}))
           /\ \E k : SearchedTo(page, j, k) /\ job' = [job EXCEPT ![p] = k]
<1> DEFINE j == job[p]
           n == MinOf(DirPageEntries, LeftAt(j.num, j.k))
           m == Matches(page, n, j.name)
           q == Lowest(m)
           s == SearchPage(f, page, n, j.name, j.hit)
           g == IF j.hit = DirCacheSize THEN f ELSE Remember(f, j.hit, page[q])
<1>1. j \in Job
  OBVIOUS
<1>2. IF s.found THEN Found(p, j, s.fs, s.inode)
      ELSE IF LeftAt(j.num, j.k + 1) <= 0 THEN NotFound(p, s.fs)
      ELSE Continue(p, s.fs, NextPage(j))
  BY DEF SearchOn, NextPage
<1> HIDE DEF j
<1>3. n \in Int /\ n <= DirPageEntries
  <2>1. j.num \in Nat /\ j.k \in Nat /\ DirPageEntries \in Nat
    BY <1>1, JobFields, DirectoriesAssumption
  <2>2. j.k * DirPageEntries \in Nat
    BY <2>1
  <2> QED
    BY <2>1, <2>2 DEF MinOf, LeftAt
<1> HIDE DEF n
<1>4. m # {} => q \in Positions /\ page[q].name = j.name
  BY <1>3, MatchIn
<1>5. s = IF m = {} THEN [fs |-> f, found |-> FALSE, inode |-> 0]
          ELSE [fs |-> g, found |-> TRUE, inode |-> page[q].inode]
  BY DEF SearchPage
<1> HIDE DEF s, m
<1>6. CASE m # {}
  <2>1. s.found = TRUE /\ s.fs = g /\ s.inode = page[q].inode
    BY <1>5, <1>6
  <2> DEFINE k == IF j.op = "lookup" THEN Told(j, page[q].inode) ELSE Idle
  <2>2. fs' = g /\ up' = up /\ job' = [job EXCEPT ![p] = k]
    BY <1>2, <2>1 DEF Found, Finish, Continue, Told
  <2>3. SearchedTo(page, j, k)
    BY <1>4, <1>6 DEF SearchedTo
  <2>4. SameInodes(f, g) /\ (g = f \/ (j.hit \in DSlots /\ SaidFrom(f, g, page, {f.dir_cache[j.hit].dir})))
    <3>1. CASE j.hit = DirCacheSize
      BY <3>1, SameInodesItself
    <3>2. CASE j.hit # DirCacheSize
      <4>1. j.hit \in DSlots
        BY <1>1, <3>2, JobFields, DirectoriesAssumption DEF DSlots
      <4>2. LET h == Remember(f, j.hit, page[q]) IN
            SameInodes(f, h) /\ SaidFrom(f, h, page, {f.dir_cache[j.hit].dir})
        BY <1>4, <1>6, <4>1, RememberSays
      <4> QED
        BY <3>2, <4>1, <4>2
    <3> QED
      BY <3>1, <3>2
  <2> HIDE DEF g, k
  <2> QED
    BY <2>2, <2>3, <2>4 DEF j
<1>7. CASE m = {}
  <2>1. s.found = FALSE /\ s.fs = f
    BY <1>5, <1>7
  <2>2. \E k : SearchedTo(page, j, k) /\ job' = [job EXCEPT ![p] = k] /\ fs' = f /\ up' = up
    <3>1. CASE LeftAt(j.num, j.k + 1) <= 0
      <4>1. NotFound(p, f)
        BY <1>2, <2>1, <3>1
      <4> DEFINE k == IF j.op = "lookup" THEN Idle ELSE Missed(j)
      <4>2. job' = [job EXCEPT ![p] = k] /\ fs' = f /\ up' = up
        BY <4>1 DEF NotFound, Finish, Continue, Missed, j
      <4>3. SearchedTo(page, j, k)
        BY DEF SearchedTo
      <4> QED
        BY <4>2, <4>3
    <3>2. CASE ~(LeftAt(j.num, j.k + 1) <= 0)
      <4>1. Continue(p, f, NextPage(j))
        BY <1>2, <2>1, <3>2
      <4>2. job' = [job EXCEPT ![p] = NextPage(j)] /\ fs' = f /\ up' = up
        BY <4>1 DEF Continue
      <4>3. LeftAt(j.num, j.k + 1) \in Int
        <5>1. j.num \in Nat /\ j.k + 1 \in Nat /\ DirPageEntries \in Nat
          BY <1>1, JobFields, DirectoriesAssumption
        <5> DEFINE kk == j.k + 1
        <5> HIDE DEF kk
        <5>2. kk * DirPageEntries \in Nat
          BY <5>1 DEF kk
        <5>3. LeftAt(j.num, kk) \in Int
          BY <5>1, <5>2 DEF LeftAt
        <5> QED
          BY <5>3 DEF kk
      <4>4. SearchedTo(page, j, NextPage(j))
        BY <3>2, <4>3 DEF SearchedTo
      <4> QED
        BY <4>2, <4>4
    <3> QED
      BY <3>1, <3>2
  <2>3. SameInodes(f, f)
    BY SameInodesItself
  <2> QED
    BY <2>2, <2>3 DEF j
<1> QED
  BY <1>6, <1>7
-----------------------------------------------------------------------------
(* Steps that only change the thread's own variables.                      *)

\* Where the quiet sections lead job j.
Counted(j, k) ==
    /\ j.pc = "count"
    /\ \/ k = Idle
       \/ j.op # "lookup" /\ k = Missed(j)
       \/ /\ NumOf(fs.inode_tab[j.n]) # 0
          /\ k = [j EXCEPT !.pc = "page", !.num = NumOf(fs.inode_tab[j.n])]

Missing(j, k) ==
    /\ j.pc = "page"
    /\ k = [j EXCEPT !.pc = "load", !.block = fs.inode_tab[j.n].blocks[j.k]]

Loaded(j, k) == j.pc = "load" /\ k = [j EXCEPT !.pc = "fill", !.page = DiskPage(j.block)]

Arrived(j, k) == j.pc = "token" /\ rest = << >> /\ k = [j EXCEPT !.pc = "attrs"]

InodeChosen(j, k) ==
    /\ j.pc = "inode"
    /\ \/ k = Idle
       \/ FreeInodes(fs) # {} /\ k = [j EXCEPT !.pc = "block", !.new = Lowest(FreeInodes(fs))]

BlockChosen(j, k) ==
    /\ j.pc = "block"
    /\ \/ k = Idle
       \/ ~NeedsBlock(fs.inode_tab[j.n]) /\ k = [j EXCEPT !.pc = "entry"]
       \/ /\ NeedsBlock(fs.inode_tab[j.n]) /\ FreeBlocks(fs) # {}
          /\ k = [j EXCEPT !.pc = "reserve", !.block = Lowest(FreeBlocks(fs))]

EntryPageRead(j, k) ==
    LET x == fs.inode_tab[j.n]
        b == x.blocks[x.size \div BlockSize]
    IN /\ j.pc = "entry"
       /\ k = [j EXCEPT !.pc = "name", !.block = b, !.page = DiskPage(b),
                        !.k = (x.size % BlockSize) \div DentrySize]

ReadChecked(j, k) ==
    LET x == Deref(fs, j.at, j.n) IN
    /\ j.pc = "check"
    /\ \/ k = Idle
       \/ /\ x.type = "file" /\ j.off < x.size
          /\ k = [j EXCEPT !.pc = "read", !.k = j.off \div BlockSize,
                           !.cnt = MinOf(j.cnt, x.size - j.off)]

Transferred(j, k) ==
    \/ j.pc = "read" /\ k = Idle
    \/ j.pc \in {"read", "write"} /\ ~LastBlock(j) /\ k = [j EXCEPT !.k = @ + 1]
    \/ j.pc = "write" /\ k = [j EXCEPT !.pc = "grow"]

GrowthTested(j, k) ==
    /\ j.pc = "grow"
    /\ \/ j.off + j.cnt > Deref(fs, j.at, j.n).size /\ k = [j EXCEPT !.pc = "size"]
       \/ k = [j EXCEPT !.pc = "attrs"]

QuietMove(j, k) ==
    \/ Counted(j, k) \/ Missing(j, k) \/ Loaded(j, k) \/ Arrived(j, k)
    \/ InodeChosen(j, k) \/ BlockChosen(j, k) \/ EntryPageRead(j, k)
    \/ ReadChecked(j, k) \/ Transferred(j, k) \/ GrowthTested(j, k)

QuietStep(p) ==
    \/ Count(p) \/ PageMiss(p) \/ PageLoad(p) \/ LastToken(p) \/ FindInode(p) \/ FindBlock(p)
    \/ ReadEntryPage(p) \/ CheckRead(p) \/ ReadBlock(p) \/ WriteBlock(p) \/ GrowTest(p)

\* The job that follows when a thread takes a step.
Becomes(p, k) == job' = [job EXCEPT ![p] = k]

\* The number of entries of a directory in the table.
LEMMA NumInode ==
    ASSUME NEW x \in Inode
    PROVE  NumOf(x) \in Nat /\ x.size \div DentrySize = NumOf(x)
BY InodeFields, BlockIsPage, DivRange DEF NumOf

\* The steps that only read: each leaves the file system alone and moves its job.
LEMMA QuietEffect ==
    ASSUME Shape, ~Overflow, NEW p \in Workers, QuietStep(p)
    PROVE  fs' = fs /\ up' = up /\ \E k : QuietMove(job[p], k) /\ Becomes(p, k)
<1> DEFINE j == job[p]
<1>1. JobFits(j) /\ j \in Job /\ fs \in FsStruct
  BY DEF Shape, JobFits
<1>2. j.n \in InodeNums /\ fs.inode_tab[j.n] \in Inode
  BY <1>1, JobFields, Fields
<1>3. CASE Count(p)
  <2> DEFINE num == fs.inode_tab[j.n].size \div DentrySize
             k == IF num # 0 THEN [j EXCEPT !.pc = "page", !.num = num]
                  ELSE IF j.op = "lookup" THEN Idle ELSE Missed(j)
  <2>1. j.pc = "count" /\ fs' = fs /\ up' = up /\ Becomes(p, k)
    BY <1>3 DEF Count, NotFound, Finish, Continue, Becomes, Missed
  <2>2. num = NumOf(fs.inode_tab[j.n])
    BY DEF NumOf
  <2>3. Counted(j, k)
    BY <2>1, <2>2 DEF Counted
  <2> QED
    BY <2>1, <2>3 DEF QuietMove
<1>4. CASE PageMiss(p)
  <2> DEFINE k == [j EXCEPT !.pc = "load", !.block = fs.inode_tab[j.n].blocks[j.k]]
  <2>1. fs' = fs /\ up' = up /\ Becomes(p, k) /\ Missing(j, k)
    BY <1>4 DEF PageMiss, Continue, Becomes, Missing, PageOf
  <2> QED
    BY <2>1 DEF QuietMove
<1>5. CASE PageLoad(p)
  <2> DEFINE k == [j EXCEPT !.pc = "fill", !.page = DiskPage(j.block)]
  <2>1. fs' = fs /\ up' = up /\ Becomes(p, k) /\ Loaded(j, k)
    BY <1>5 DEF PageLoad, Continue, Becomes, Loaded
  <2> QED
    BY <2>1 DEF QuietMove
<1>6. CASE LastToken(p)
  <2> DEFINE k == [j EXCEPT !.pc = "attrs"]
  <2>1. fs' = fs /\ up' = up /\ Becomes(p, k) /\ Arrived(j, k)
    BY <1>6 DEF LastToken, Goto, Continue, Becomes, Arrived
  <2> QED
    BY <2>1 DEF QuietMove
<1>7. CASE FindInode(p)
  <2> DEFINE k == IF FreeInodes(fs) = {} THEN Idle
                  ELSE [j EXCEPT !.pc = "block", !.new = Lowest(FreeInodes(fs))]
  <2>1. fs' = fs /\ up' = up /\ Becomes(p, k) /\ InodeChosen(j, k)
    BY <1>7 DEF FindInode, Finish, Continue, Becomes, InodeChosen
  <2> QED
    BY <2>1 DEF QuietMove
<1>8. CASE FindBlock(p)
  <2> DEFINE k == IF ~NeedsBlock(fs.inode_tab[j.n]) THEN [j EXCEPT !.pc = "entry"]
                  ELSE IF FreeBlocks(fs) = {} THEN Idle
                  ELSE [j EXCEPT !.pc = "reserve", !.block = Lowest(FreeBlocks(fs))]
  <2>1. fs' = fs /\ up' = up /\ Becomes(p, k) /\ BlockChosen(j, k)
    BY <1>8 DEF FindBlock, Goto, Finish, Continue, Becomes, BlockChosen, DirOf
  <2> QED
    BY <2>1 DEF QuietMove
<1>9. CASE ReadEntryPage(p)
  <2> DEFINE x == fs.inode_tab[j.n]
             b == x.blocks[x.size \div BlockSize]
             k == [j EXCEPT !.pc = "name", !.block = b, !.page = DiskPage(b),
                            !.k = (x.size % BlockSize) \div DentrySize]
  <2>1. fs' = fs /\ up' = up /\ Becomes(p, k) /\ EntryPageRead(j, k)
    BY <1>9 DEF ReadEntryPage, Continue, Becomes, EntryPageRead, DirOf
  <2> QED
    BY <2>1 DEF QuietMove
<1>10. CASE CheckRead(p)
  <2> DEFINE x == Deref(fs, j.at, j.n)
             k == IF x.type # "file" \/ j.off >= x.size THEN Idle
                  ELSE [j EXCEPT !.pc = "read", !.k = j.off \div BlockSize,
                                 !.cnt = MinOf(j.cnt, x.size - j.off)]
  <2>1. fs' = fs /\ up' = up /\ Becomes(p, k) /\ j.pc = "check"
    BY <1>10 DEF CheckRead, Finish, Continue, Becomes, FileOf
  <2>2. x.size \in Nat /\ j.off \in Nat
    <3>1. j.at \in ISlots \cup {TableRef}
      BY <1>1, JobFields, InodesAssumption DEF ISlots, TableRef
    <3> QED
      BY <1>1, <1>2, <3>1, DerefTyped, InodeFields, JobFields
  <2> HIDE DEF x
  <2>3. ReadChecked(j, k)
    BY <2>1, <2>2 DEF ReadChecked, x
  <2> QED
    BY <2>1, <2>3 DEF QuietMove
<1>11. CASE ReadBlock(p)
  <2> DEFINE k == IF LastBlock(j) THEN Idle ELSE [j EXCEPT !.k = @ + 1]
  <2>1. fs' = fs /\ up' = up /\ Becomes(p, k) /\ Transferred(j, k)
    BY <1>11 DEF ReadBlock, Finish, Continue, Becomes, Transferred
  <2> QED
    BY <2>1 DEF QuietMove
<1>12. CASE WriteBlock(p)
  <2> DEFINE k == IF LastBlock(j) THEN [j EXCEPT !.pc = "grow"] ELSE [j EXCEPT !.k = @ + 1]
  <2>1. fs' = fs /\ up' = up /\ Becomes(p, k) /\ Transferred(j, k)
    BY <1>12 DEF WriteBlock, Continue, Becomes, Transferred
  <2> QED
    BY <2>1 DEF QuietMove
<1>13. CASE GrowTest(p)
  <2> DEFINE k == [j EXCEPT !.pc = IF j.off + j.cnt > FileOf(p).size THEN "size" ELSE "attrs"]
  <2>1. fs' = fs /\ up' = up /\ Becomes(p, k) /\ GrowthTested(j, k)
    BY <1>13 DEF GrowTest, Goto, Continue, Becomes, GrowthTested, FileOf
  <2> QED
    BY <2>1 DEF QuietMove
<1> QED
  BY <1>3, <1>4, <1>5, <1>6, <1>7, <1>8, <1>9, <1>10, <1>11, <1>12, <1>13 DEF QuietStep
-----------------------------------------------------------------------------
(* The steps by what they do to the structure: k is the job afterwards.    *)

\* Nothing but the job changes.
Quieted(p, k) == QuietMove(job[p], k) /\ fs' = fs /\ up' = up /\ rest' = rest

\* A search begins with job j.
Opening(p, j) ==
    \/ /\ job[p].pc = "idle"
       /\ \E r \in Requests :
             \/ /\ r.op = "lookup" /\ rest' = Tail(r.path)
                /\ j = [Idle EXCEPT !.op = "lookup", !.path = r.path, !.n = Root, !.name = Head(r.path)]
             \/ /\ r.op = "create" /\ rest' = rest
                /\ j = [Idle EXCEPT !.op = "create", !.n = r.dir, !.name = r.name, !.type = r.type]
    \/ /\ job[p].pc = "token" /\ rest # << >> /\ rest' = Tail(rest)
       /\ j = [job[p] EXCEPT !.name = Head(rest)]

SearchBegun(p, k) ==
    /\ SameInodes(fs, fs') /\ SlotsSay(fs, fs') /\ up' = up
    /\ \E j : Opening(p, j) /\ BegunTo(fs, j, k)

\* The directories whose cached pages the search of a page may change.
Turned(j) == {j.n} \cup {fs.dir_cache[i].dir : i \in DSlots \cap {j.hit}}

\* The page that is searched is cached, or was read.
PageAtHand(p, page) ==
    \/ /\ job[p].pc = "page"
       /\ \E i \in DSlots : fs.dir_cache[i].dir = job[p].n /\ page = fs.dir_cache[i].entries
    \/ job[p].pc = "fill" /\ page = job[p].page

PageSearched(p, k) ==
    /\ SameInodes(fs, fs') /\ up' = up /\ rest' = rest
    /\ \E page \in Page : /\ PageAtHand(p, page)
                          /\ SearchedTo(page, job[p], k)
                          /\ SaidFrom(fs, fs', page, Turned(job[p]))

ReadStarted(p, k) ==
    /\ job[p].pc = "idle" /\ up' = up /\ rest' = rest
    /\ \E r \in Requests : LET acc == Access(fs, r.n, now) IN
          /\ r.op = "read" /\ fs' = acc.fs
          /\ k = Idle \/ (acc.ok /\ k = [OpenedFor("read", r, acc.at) EXCEPT !.pc = "check"])

WriteStarted(p, k) ==
    /\ job[p].pc = "idle" /\ up' = up /\ rest' = rest
    /\ \E r \in Requests :
          LET acc == Access(fs, r.n, now)
              j == OpenedForWrite(r, acc)
              res == Reserve(acc, r.n, j.off, j.cnt)
          IN /\ r.op = "write"
             /\ \/ k = Idle /\ fs' = acc.fs
                \/ /\ acc.ok /\ Deref(acc.fs, acc.at, r.n).type = "file" /\ fs' = res.fs
                   /\ k = Idle \/ (res.ok /\ k = j)

SizeSet(p, k) ==
    LET j == job[p] IN
    /\ j.pc = "size" /\ up' = up /\ rest' = rest
    /\ fs' = SetSize(fs, j.at, j.n, j.off + j.cnt)
    /\ k = [j EXCEPT !.pc = "attrs"]

AttrsGiven(p, k) ==
    LET acc == Access(fs, job[p].n, now) IN
    /\ job[p].pc = "attrs" /\ rest' = rest
    /\ fs' = acc.fs
    /\ up' = ~(acc.ok /\ Deref(acc.fs, acc.at, job[p].n).type = "none")
    /\ k = Idle

\* The sections of a creation that change the structure.
Reserved1(p, k) ==
    LET j == job[p] IN
    /\ j.pc = "reserve" /\ k = [j EXCEPT !.pc = "entry"]
    /\ fs' = [fs EXCEPT !.blk_bmap = @ \cup {j.block},
                        !.inode_tab[j.n].blocks[fs.inode_tab[j.n].size \div BlockSize] = j.block]
NameWritten(p, k) ==
    LET j == job[p] IN
    /\ j.pc = "name" /\ k = [j EXCEPT !.pc = "link"]
    /\ fs' = WithPage(j.block, [j.page EXCEPT ![j.k].name = j.name])
LinkWritten(p, k) ==
    LET j == job[p] IN
    /\ j.pc = "link" /\ k = [j EXCEPT !.pc = "extend"]
    /\ fs' = WithPage(j.block, [DiskPage(j.block) EXCEPT ![j.k].inode = j.new])
DirExtended(p, k) ==
    LET j == job[p] IN
    /\ j.pc = "extend" /\ k = [j EXCEPT !.pc = "mark"]
    /\ fs' = [fs EXCEPT !.inode_tab[j.n].size = @ + DentrySize]
InodeMarked(p, k) ==
    LET j == job[p] IN
    /\ j.pc = "mark" /\ k = [j EXCEPT !.pc = "init"]
    /\ fs' = [fs EXCEPT !.inode_bmap = @ \cup {j.new}]
InodeMade(p, k) ==
    LET j == job[p] IN
    /\ j.pc = "init" /\ k = Idle
    /\ fs' = [fs EXCEPT !.inode_tab[j.new] = InodeInit(j.type)]

Created(p, k) ==
    /\ up' = up /\ rest' = rest
    /\ \/ Reserved1(p, k) \/ NameWritten(p, k) \/ LinkWritten(p, k)
       \/ DirExtended(p, k) \/ InodeMarked(p, k) \/ InodeMade(p, k)

LeadsTo(p, k) ==
    \/ Quieted(p, k) \/ SearchBegun(p, k) \/ PageSearched(p, k)
    \/ ReadStarted(p, k) \/ WriteStarted(p, k) \/ SizeSet(p, k) \/ AttrsGiven(p, k)
    \/ Created(p, k)

\* The section that searches a page.
LEMMA PageEffect ==
    ASSUME Shape, NEW p \in Workers, PageHit(p) \/ PageFill(p), rest' = rest
    PROVE  \E k : PageSearched(p, k) /\ Becomes(p, k)
<1> DEFINE j == job[p]
<1>1. j \in Job /\ fs \in FsStruct /\ now \in Nat
  BY DEF Shape, JobFits
<1>2. j.n \in InodeNums /\ j.page \in Page /\ j.block \in Blocks \cup {0}
      /\ j.hit \in 0 .. DirCacheSize
  BY <1>1, JobFields
<1>3. CASE PageHit(p)
  <2> DEFINE b == PageOf(p)
             v == PageSlot(fs, j.n, b)
             f == TouchPage(fs, j.n, b, now)
             page == EntriesAt(fs, j.n, b)
  <2>1. j.pc = "page" /\ SlotsOfPage(fs, j.n, b) # {} /\ SearchOn(p, f, page)
    BY <1>3 DEF PageHit
  <2>2. v \in DSlots /\ fs.dir_cache[v].dir = j.n
    BY <1>1, <2>1, PageSlotIn
  <2>3. f = [fs EXCEPT !.dir_cache[v].last = now] /\ page = fs.dir_cache[v].entries
    BY DEF TouchPage, EntriesAt
  <2> HIDE DEF f, v, b, page
  <2>4. /\ SameInodes(fs, f)
        /\ \A i \in DSlots : /\ f.dir_cache[i].dir = fs.dir_cache[i].dir
                             /\ f.dir_cache[i].entries = fs.dir_cache[i].entries
    BY <1>1, <2>2, <2>3, SetLast
  <2>5. page \in Page
    BY <1>1, <2>2, <2>3, Fields, DirEntryFields DEF Page
  <2>6. f \in FsStruct
    BY <2>4 DEF SameInodes
  <2>7. /\ SameInodes(f, fs') /\ up' = up
        /\ fs' = f \/ (j.hit \in DSlots /\ SaidFrom(f, fs', page, {f.dir_cache[j.hit].dir}))
        /\ \E k : SearchedTo(page, j, k) /\ job' = [job EXCEPT ![p] = k]
    BY <1>1, <2>1, <2>5, <2>6, SearchOnEffect
  <2>8. SaidFrom(fs, f, page, {j.n})
    BY <2>4, SaidKept
  <2>9. SaidFrom(fs, fs', page, Turned(j))
    <3>1. CASE fs' = f
      BY <2>8, <3>1 DEF SaidFrom, Turned
    <3>2. CASE j.hit \in DSlots /\ SaidFrom(f, fs', page, {f.dir_cache[j.hit].dir})
      <4>1. SaidFrom(fs, fs', page, {j.n} \cup {f.dir_cache[j.hit].dir})
        BY <2>8, <3>2, SaidOn
      <4>2. f.dir_cache[j.hit].dir \in Turned(j)
        BY <2>4, <3>2 DEF Turned
      <4> QED
        BY <4>1, <4>2 DEF SaidFrom, Turned
    <3> QED
      BY <2>7, <3>1, <3>2
  <2>10. SameInodes(fs, fs')
    BY <2>4, <2>7, SameInodesOn
  <2>11. PageAtHand(p, page)
    BY <2>1, <2>2, <2>3 DEF PageAtHand
  <2>12. PICK k : SearchedTo(page, j, k) /\ job' = [job EXCEPT ![p] = k]
    BY <2>7
  <2>13. PageSearched(p, k) /\ Becomes(p, k)
    BY <2>5, <2>7, <2>9, <2>10, <2>11, <2>12 DEF PageSearched, Becomes
  <2> QED
    BY <2>13
<1>4. CASE PageFill(p)
  <2> DEFINE f == FillPage(fs, j.n, j.block, j.page, now)
             page == j.page
  <2>1. j.pc = "fill" /\ SearchOn(p, f, page)
    BY <1>4 DEF PageFill
  <2>2. /\ SameInodes(fs, f)
        /\ \E v \in DSlots : /\ f.dir_cache[v].dir = j.n
                             /\ f.dir_cache[v].entries = page
                             /\ \A i \in DSlots \ {v} : f.dir_cache[i] = fs.dir_cache[i]
    <3> DEFINE d == j.n
               b == j.block
               g == FillPage(fs, d, b, page, now)
    <3>1. d \in InodeNums /\ b \in Blocks \cup {0} /\ page \in Page
      BY <1>2
    <3> HIDE DEF d, b, page
    <3>2. /\ SameInodes(fs, g)
          /\ \E v \in DSlots : /\ g.dir_cache[v].dir = d
                               /\ g.dir_cache[v].entries = page
                               /\ \A i \in DSlots \ {v} : g.dir_cache[i] = fs.dir_cache[i]
      BY <1>1, <3>1, FillPageEffect
    <3> QED
      BY <3>2 DEF d, b, page
  <2> HIDE DEF f
  <2>3. PICK v \in DSlots : /\ f.dir_cache[v].dir = j.n
                            /\ f.dir_cache[v].entries = page
                            /\ \A i \in DSlots \ {v} : f.dir_cache[i] = fs.dir_cache[i]
    BY <2>2
  <2>4. SaidFrom(fs, f, page, {j.n})
    BY <2>3 DEF SaidFrom, Says
  <2>6. f \in FsStruct
    BY <2>2 DEF SameInodes
  <2>7. /\ SameInodes(f, fs') /\ up' = up
        /\ fs' = f \/ (j.hit \in DSlots /\ SaidFrom(f, fs', page, {f.dir_cache[j.hit].dir}))
        /\ \E k : SearchedTo(page, j, k) /\ job' = [job EXCEPT ![p] = k]
    BY <1>1, <1>2, <2>1, <2>6, SearchOnEffect
  <2>9. SaidFrom(fs, fs', page, Turned(j))
    <3>1. CASE fs' = f
      BY <2>4, <3>1 DEF SaidFrom, Turned
    <3>2. CASE j.hit \in DSlots /\ SaidFrom(f, fs', page, {f.dir_cache[j.hit].dir})
      <4>1. SaidFrom(fs, fs', page, {j.n} \cup {f.dir_cache[j.hit].dir})
        BY <2>4, <3>2, SaidOn
      <4>2. f.dir_cache[j.hit].dir \in Turned(j)
        BY <2>3, <3>2 DEF Turned
      <4> QED
        BY <4>1, <4>2 DEF SaidFrom, Turned
    <3> QED
      BY <2>7, <3>1, <3>2
  <2>10. SameInodes(fs, fs')
    BY <2>2, <2>7, SameInodesOn
  <2>11. PageAtHand(p, page)
    BY <2>1 DEF PageAtHand
  <2>12. PICK k : SearchedTo(page, j, k) /\ job' = [job EXCEPT ![p] = k]
    BY <2>7
  <2>13. PageSearched(p, k) /\ Becomes(p, k)
    BY <1>2, <2>7, <2>9, <2>10, <2>11, <2>12 DEF PageSearched, Becomes
  <2> QED
    BY <2>13
<1> QED
  BY <1>3, <1>4

\* Every step of a thread is one of these.
LEMMA StepLeads ==
    ASSUME Shape, ~Overflow, NEW p \in Workers, Step(p)
    PROVE  \E k : LeadsTo(p, k) /\ Becomes(p, k)
<1> DEFINE j == job[p]
<1>0. fs \in FsStruct /\ now \in Nat /\ j \in Job
  BY DEF Shape, JobFits
<1>1. CASE QuietStep(p)
  <2>1. rest' = rest
    BY <1>1 DEF Step, Start, Tokenize, Work, QuietStep, LastToken, NextToken, Count, PageMiss,
                PageLoad, FindInode, FindBlock, ReadEntryPage, CheckRead, ReadBlock, WriteBlock, GrowTest
  <2>2. PICK k : QuietMove(j, k) /\ Becomes(p, k) /\ fs' = fs /\ up' = up
    BY <1>1, QuietEffect
  <2> QED
    BY <2>1, <2>2 DEF LeadsTo, Quieted
<1>2. ASSUME NEW i, Opening(p, i), BeginSearch(p, i)
      PROVE  \E k : LeadsTo(p, k) /\ Becomes(p, k)
  <2>1. /\ SameInodes(fs, fs') /\ SlotsSay(fs, fs') /\ up' = up
        /\ \E k : BegunTo(fs, i, k) /\ job' = [job EXCEPT ![p] = k]
    BY <1>0, <1>2, BeginEffect
  <2>2. PICK k : BegunTo(fs, i, k) /\ job' = [job EXCEPT ![p] = k]
    BY <2>1
  <2>3. SearchBegun(p, k) /\ Becomes(p, k)
    BY <1>2, <2>1, <2>2 DEF SearchBegun, Becomes
  <2> QED
    BY <2>3 DEF LeadsTo
<1>3. CASE j.pc = "idle" /\ \E r \in Requests : StartLookup(p, r)
  <2>1. PICK r \in Requests : StartLookup(p, r)
    BY <1>3
  <2> QED
    BY <1>2, <1>3, <2>1 DEF StartLookup, Opening
<1>4. CASE j.pc = "idle" /\ UNCHANGED rest /\ \E r \in Requests : StartCreate(p, r)
  <2>1. PICK r \in Requests : StartCreate(p, r)
    BY <1>4
  <2> QED
    BY <1>2, <1>4, <2>1 DEF StartCreate, Opening
<1>5. CASE j.pc = "idle" /\ UNCHANGED rest /\ \E r \in Requests : StartRead(p, r)
  <2>1. PICK r \in Requests : StartRead(p, r)
    BY <1>5
  <2> DEFINE acc == Access(fs, r.n, now)
             k == IF acc.ok THEN [OpenedFor("read", r, acc.at) EXCEPT !.pc = "check"] ELSE Idle
  <2>2. fs' = acc.fs /\ up' = up /\ Becomes(p, k) /\ r.op = "read"
    BY <2>1 DEF StartRead, Finish, Continue, Becomes
  <2>3. ReadStarted(p, k)
    BY <1>5, <2>2 DEF ReadStarted
  <2> QED
    BY <2>2, <2>3 DEF LeadsTo
<1>6. CASE j.pc = "idle" /\ UNCHANGED rest /\ \E r \in Requests : StartWrite(p, r)
  <2>1. PICK r \in Requests : StartWrite(p, r)
    BY <1>6
  <2> DEFINE acc == Access(fs, r.n, now)
             i == OpenedForWrite(r, acc)
             res == Reserve(acc, r.n, i.off, i.cnt)
             some == acc.ok /\ Deref(acc.fs, acc.at, r.n).type = "file"
             k == IF some /\ res.ok THEN i ELSE Idle
  <2>2. up' = up /\ Becomes(p, k) /\ r.op = "write"
        /\ fs' = (IF some THEN res.fs ELSE acc.fs)
    BY <2>1 DEF StartWrite, Finish, Continue, Becomes
  <2>3. WriteStarted(p, k)
    BY <1>6, <2>2 DEF WriteStarted
  <2> QED
    BY <2>2, <2>3 DEF LeadsTo
<1>7. CASE NextToken(p)
  BY <1>2, <1>7 DEF NextToken, Opening
<1>8. CASE UNCHANGED rest /\ (PageHit(p) \/ PageFill(p))
  BY <1>8, PageEffect DEF LeadsTo
<1>9. CASE UNCHANGED rest /\ GrowSet(p)
  <2> DEFINE k == [j EXCEPT !.pc = "attrs"]
  <2>1. SizeSet(p, k) /\ Becomes(p, k)
    BY <1>9 DEF GrowSet, Goto, Continue, SizeSet, Becomes
  <2> QED
    BY <2>1 DEF LeadsTo
<1>10. CASE UNCHANGED rest /\ AttrsOf(p)
  <2> DEFINE acc == Access(fs, j.n, now)
             att == Attrs(acc, j.n)
  <2>1. j.n \in InodeNums
    BY <1>0, JobFields
  <2>2. GetAttrs(fs, j.n, now) = att
    BY <2>1 DEF GetAttrs
  <2>3. j.pc = "attrs" /\ fs' = att.fs /\ up' = (att.st # "exit") /\ Becomes(p, Idle)
    BY <1>10, <2>2 DEF AttrsOf, Becomes
  <2>4. att.fs = acc.fs /\ (att.st # "exit") = ~(acc.ok /\ Deref(acc.fs, acc.at, j.n).type = "none")
    BY DEF Attrs
  <2>5. AttrsGiven(p, Idle)
    BY <1>10, <2>3, <2>4 DEF AttrsGiven
  <2> QED
    BY <2>3, <2>5 DEF LeadsTo
<1>11. CASE UNCHANGED rest /\ ReserveBlock(p)
  <2>1. Reserved1(p, [j EXCEPT !.pc = "entry"]) /\ Becomes(p, [j EXCEPT !.pc = "entry"]) /\ up' = up
    BY <1>11 DEF ReserveBlock, Goto, Continue, Reserved1, Becomes, DirOf
  <2> QED
    BY <1>11, <2>1 DEF LeadsTo, Created
<1>12. CASE UNCHANGED rest /\ WriteName(p)
  <2>1. NameWritten(p, [j EXCEPT !.pc = "link"]) /\ Becomes(p, [j EXCEPT !.pc = "link"]) /\ up' = up
    BY <1>12 DEF WriteName, Goto, Continue, NameWritten, Becomes
  <2> QED
    BY <1>12, <2>1 DEF LeadsTo, Created
<1>13. CASE UNCHANGED rest /\ WriteLink(p)
  <2>1. LinkWritten(p, [j EXCEPT !.pc = "extend"]) /\ Becomes(p, [j EXCEPT !.pc = "extend"]) /\ up' = up
    BY <1>13 DEF WriteLink, Goto, Continue, LinkWritten, Becomes
  <2> QED
    BY <1>13, <2>1 DEF LeadsTo, Created
<1>14. CASE UNCHANGED rest /\ ExtendDir(p)
  <2>1. DirExtended(p, [j EXCEPT !.pc = "mark"]) /\ Becomes(p, [j EXCEPT !.pc = "mark"]) /\ up' = up
    BY <1>14 DEF ExtendDir, Goto, Continue, DirExtended, Becomes
  <2> QED
    BY <1>14, <2>1 DEF LeadsTo, Created
<1>15. CASE UNCHANGED rest /\ MarkInode(p)
  <2>1. InodeMarked(p, [j EXCEPT !.pc = "init"]) /\ Becomes(p, [j EXCEPT !.pc = "init"]) /\ up' = up
    BY <1>15 DEF MarkInode, Goto, Continue, InodeMarked, Becomes
  <2> QED
    BY <1>15, <2>1 DEF LeadsTo, Created
<1>16. CASE UNCHANGED rest /\ InitInode(p)
  <2>1. InodeMade(p, Idle) /\ Becomes(p, Idle) /\ up' = up
    BY <1>16 DEF InitInode, Finish, Continue, InodeMade, Becomes
  <2> QED
    BY <1>16, <2>1 DEF LeadsTo, Created
<1>17. CASE Start(p)
  BY <1>3, <1>4, <1>5, <1>6, <1>17 DEF Start
<1>18. CASE Tokenize(p)
  BY <1>1, <1>7, <1>18 DEF Tokenize, QuietStep
<1>19. CASE Work(p)
  BY <1>1, <1>8, <1>9, <1>10, <1>11, <1>12, <1>13, <1>14, <1>15, <1>16, <1>19
     DEF Work, Search, Add, Transfer, QuietStep
<1> QED
  BY <1>17, <1>18, <1>19 DEF Step
-----------------------------------------------------------------------------
(* The shape of what a step leaves.                                        *)

\* A job at another stage.
LEMMA Moved ==
    ASSUME NEW j \in Job, NEW s \in Stages
    PROVE  LET k == [j EXCEPT !.pc = s] IN
           /\ k \in Job /\ k.pc = s
           /\ k.op = j.op /\ k.path = j.path /\ k.name = j.name /\ k.type = j.type /\ k.n = j.n
           /\ k.hit = j.hit /\ k.num = j.num /\ k.k = j.k /\ k.block = j.block /\ k.page = j.page
           /\ k.new = j.new /\ k.at = j.at /\ k.off = j.off /\ k.cnt = j.cnt
BY DEF Job

\* A job goes on with what belongs to its operation.
LEMMA MovedFits ==
    ASSUME NEW j, JobFits(j), NEW s \in (AddStages \ {"reserve"}) \cup {"grow", "size", "attrs"},
           \/ j.op = "lookup" /\ s = "attrs"
           \/ j.op = "create" /\ s \in AddStages
           \/ j.op = "write" /\ s \notin AddStages /\ j.pc \in {"write", "grow", "size"}
    PROVE  JobFits([j EXCEPT !.pc = s])
<1> DEFINE k == [j EXCEPT !.pc = s]
<1>1. j \in Job /\ s \in Stages
  BY StageFacts DEF JobFits
<1>2. /\ k \in Job /\ k.pc = s
      /\ k.op = j.op /\ k.path = j.path /\ k.name = j.name /\ k.type = j.type /\ k.n = j.n
      /\ k.num = j.num /\ k.k = j.k /\ k.off = j.off /\ k.cnt = j.cnt
  BY <1>1, Moved
<1> HIDE DEF k
<1>3. StageOK(k)
  BY <1>2, StageFacts DEF StageOK
<1>4. JobFits(k)
  BY <1>2, <1>3, StageFacts DEF JobFits
<1> QED
  BY <1>4 DEF k

\* What the stage says of the operation.
LEMMA StageOps ==
    ASSUME NEW j, JobFits(j)
    PROVE  /\ j.pc = "token" => j.op = "lookup"
           /\ j.pc \in SearchStages => j.op \in {"lookup", "create"}
           /\ j.pc \in AddStages \cup {"inode"} => j.op = "create"
           /\ j.pc \in PointerStages => j.op \in {"read", "write"}
           /\ j.pc \in {"check", "read"} => j.op = "read"
           /\ j.pc \in {"write", "grow", "size"} => j.op = "write"
           /\ j.pc = "attrs" => j.op \in {"lookup", "write"}
BY JobFields, StageFacts DEF JobFits, StageOK

\* Pages on the disk are pages.
LEMMA DiskPageTyped ==
    ASSUME fs \in FsStruct, NEW b \in Blocks \cup {0}
    PROVE  DiskPage(b) \in Page
BY Fields, ZeroPageTyped DEF DiskPage

\* One turn of a transfer.
LEMMA TurnFits ==
    ASSUME NEW j, JobFits(j), j.pc \in {"read", "write"}
    PROVE  JobFits([j EXCEPT !.k = @ + 1])
<1> DEFINE k == [j EXCEPT !.k = @ + 1]
<1>1. j \in Job /\ j.k + 1 \in Nat
  BY JobFields DEF JobFits
<1>2. /\ k \in Job /\ k.pc = j.pc /\ k.op = j.op /\ k.name = j.name /\ k.type = j.type
      /\ k.num = j.num /\ k.off = j.off /\ k.cnt = j.cnt
  BY <1>1 DEF Job
<1> HIDE DEF k
<1> QED
  BY <1>2 DEF JobFits, StageOK, k

\* The steps that change nothing but the job keep its shape.
LEMMA QuietFits ==
    ASSUME Shape, ~Overflow, NEW p \in Workers, NEW k, QuietMove(job[p], k)
    PROVE  JobFits(k)
<1> DEFINE j == job[p]
<1>1. JobFits(j) /\ j \in Job /\ fs \in FsStruct
  BY DEF Shape, JobFits
<1>2. j.n \in InodeNums /\ fs.inode_tab[j.n] \in Inode
  BY <1>1, JobFields, Fields
<1>3. CASE k = Idle
  BY <1>3, IdleFits
<1>4. CASE Counted(j, k) /\ k # Idle
  <2>1. CASE j.op # "lookup" /\ k = Missed(j)
    <3>1. j.op = "create"
      BY <1>1, <1>4, <2>1, StageOps, StageFacts DEF Counted
    <3>2. 0 <= InodeNumBlks * DirPageEntries
      BY IdleFits DEF JobFits, Idle
    <3> QED
      BY <1>1, <2>1, <3>1, <3>2, SearchJobs, StageFacts DEF JobFits, StageOK
  <2>2. CASE k = [j EXCEPT !.pc = "page", !.num = NumOf(fs.inode_tab[j.n])] /\ NumOf(fs.inode_tab[j.n]) # 0
    <3> DEFINE num == NumOf(fs.inode_tab[j.n])
    <3>1. num \in Nat /\ num <= InodeNumBlks * DirPageEntries
      BY <1>2, NumInode, NumFits, InodeFields DEF Shape, SizesOK
    <3>2. j.op \in {"lookup", "create"} /\ j.k = 0
      BY <1>1, <1>4, StageOps, StageFacts DEF Counted, JobFits
    <3> HIDE DEF num
    <3>3. "page" \in Stages /\ 0 * DirPageEntries = 0
      BY StageFacts, DirectoriesAssumption
    <3>4. /\ k \in Job /\ k.pc = "page" /\ k.op = j.op /\ k.name = j.name /\ k.type = j.type
          /\ k.num = num /\ k.k = j.k /\ k.off = j.off /\ k.cnt = j.cnt
      BY <1>1, <2>2, <3>1, <3>3 DEF Job, num
    <3>5. k.k * DirPageEntries < k.num
      BY <2>2, <3>1, <3>2, <3>3, <3>4 DEF num
    <3> QED
      BY <1>1, <3>1, <3>2, <3>4, <3>5, StageFacts DEF JobFits, StageOK
  <2> QED
    BY <1>4, <2>1, <2>2 DEF Counted
<1>5. CASE Missing(j, k)
  <2> DEFINE b == fs.inode_tab[j.n].blocks[j.k]
  <2>1. j.k \in Indices
    BY <1>1, <1>5, JobFields, PageIndex DEF Missing, JobFits
  <2>2. b \in Blocks \cup {0}
    BY <1>2, <2>1, InodeFields
  <2>3. "load" \in Stages /\ j.op \in {"lookup", "create"}
    BY <1>1, <1>5, StageFacts, StageOps DEF Missing
  <2> HIDE DEF b
  <2>4. /\ k \in Job /\ k.pc = "load" /\ k.op = j.op /\ k.name = j.name /\ k.type = j.type
        /\ k.num = j.num /\ k.k = j.k /\ k.off = j.off /\ k.cnt = j.cnt
    BY <1>1, <1>5, <2>2, <2>3 DEF Job, Missing, b
  <2>5. /\ j.name \in Names
        /\ j.op = "create" => j.type \in {"file", "dir"}
        /\ j.num <= InodeNumBlks * DirPageEntries
    BY <1>1, <2>3 DEF JobFits
  <2>6. j.k * DirPageEntries < j.num
    BY <1>1, <1>5 DEF JobFits, Missing
  <2> QED
    BY <2>3, <2>4, <2>5, <2>6, StageFacts DEF JobFits, StageOK
<1>6. CASE Loaded(j, k)
  <2> DEFINE page == DiskPage(j.block)
  <2>1. page \in Page
    BY <1>1, JobFields, DiskPageTyped
  <2>2. "fill" \in Stages /\ j.op \in {"lookup", "create"}
    BY <1>1, <1>6, StageFacts, StageOps DEF Loaded
  <2> HIDE DEF page
  <2>3. /\ k \in Job /\ k.pc = "fill" /\ k.op = j.op /\ k.name = j.name /\ k.type = j.type
        /\ k.num = j.num /\ k.k = j.k /\ k.off = j.off /\ k.cnt = j.cnt
    BY <1>1, <1>6, <2>1, <2>2 DEF Job, Loaded, page
  <2> QED
    BY <1>1, <1>6, <2>2, <2>3, StageFacts DEF JobFits, StageOK, Loaded
<1>7. CASE Arrived(j, k)
  <2>1. "attrs" \in Stages /\ j.op = "lookup"
    BY <1>1, <1>7, StageFacts, StageOps DEF Arrived
  <2> QED
    BY <1>1, <1>7, <2>1, MovedFits, StageFacts DEF Arrived
<1>8. CASE InodeChosen(j, k) /\ k # Idle
  <2> DEFINE n == Lowest(FreeInodes(fs))
  <2>1. n \in InodeNums
    <3>1. FreeInodes(fs) \subseteq Nat /\ FreeInodes(fs) # {}
      BY <1>8, Sizes DEF InodeChosen, FreeInodes, InodeNums
    <3> QED
      BY <3>1, LowestIn DEF FreeInodes
  <2>2. "block" \in Stages /\ j.op = "create"
    BY <1>1, <1>8, StageFacts, StageOps DEF InodeChosen
  <2> HIDE DEF n
  <2>3. /\ k \in Job /\ k.pc = "block" /\ k.op = j.op /\ k.name = j.name /\ k.type = j.type
        /\ k.num = j.num /\ k.k = j.k /\ k.off = j.off /\ k.cnt = j.cnt
    BY ZenonT(60), <1>1, <1>8, <2>1, <2>2 DEF Job, InodeChosen, n
  <2> QED
    BY <1>1, <2>2, <2>3, StageFacts DEF JobFits, StageOK
<1>9. CASE BlockChosen(j, k) /\ k # Idle
  <2>1. "entry" \in Stages /\ "reserve" \in Stages /\ j.op = "create"
    BY <1>1, <1>9, StageFacts, StageOps DEF BlockChosen
  <2>2. CASE k = [j EXCEPT !.pc = "entry"]
    BY <1>1, <2>1, <2>2, MovedFits, StageFacts
  <2>3. CASE FreeBlocks(fs) # {} /\ k = [j EXCEPT !.pc = "reserve", !.block = Lowest(FreeBlocks(fs))]
    <3> DEFINE b == Lowest(FreeBlocks(fs))
    <3>1. b \in Blocks
      <4>1. FreeBlocks(fs) \subseteq Nat
        BY Sizes DEF FreeBlocks
      <4> QED
        BY <2>3, <4>1, LowestIn DEF FreeBlocks
    <3> HIDE DEF b
    <3>2. /\ k \in Job /\ k.pc = "reserve" /\ k.op = j.op /\ k.name = j.name /\ k.type = j.type
          /\ k.num = j.num /\ k.k = j.k /\ k.off = j.off /\ k.cnt = j.cnt /\ k.block = b
      BY <1>1, <2>1, <2>3, <3>1 DEF Job, b
    <3> QED
      BY <1>1, <2>1, <3>1, <3>2, Sizes, StageFacts DEF JobFits, StageOK
  <2> QED
    BY <1>9, <2>2, <2>3 DEF BlockChosen
<1>10. CASE EntryPageRead(j, k)
  <2> DEFINE x == fs.inode_tab[j.n]
             i == x.size \div BlockSize
             b == x.blocks[i]
             page == DiskPage(b)
             kk == (x.size % BlockSize) \div DentrySize
  <2>1. x.size < MaxSize
    <3>1. ~(x.size >= InodeNumBlks * BlockSize)
      BY <1>10 DEF EntryPageRead, Overflow
    <3>2. x.size \in Nat /\ InodeNumBlks * BlockSize \in Nat
      BY <1>2, InodeFields, InodesAssumption
    <3> QED
      BY <3>1, <3>2 DEF MaxSize
  <2>2. i \in Indices /\ kk \in Nat
    BY <1>2, <2>1, InodeFields, EntryIndex
  <2>3. b \in Blocks \cup {0}
    BY <1>2, <2>2, InodeFields
  <2>4. page \in Page
    BY <1>1, <2>3, DiskPageTyped
  <2>5. "name" \in Stages /\ j.op = "create"
    BY <1>1, <1>10, StageFacts, StageOps DEF EntryPageRead
  <2>6. k = [j EXCEPT !.pc = "name", !.block = b, !.page = page, !.k = kk]
    BY <1>10 DEF EntryPageRead
  <2> HIDE DEF b, page, kk, i, x
  <2>7. /\ k \in Job /\ k.pc = "name" /\ k.op = j.op /\ k.name = j.name /\ k.type = j.type
        /\ k.num = j.num /\ k.off = j.off /\ k.cnt = j.cnt
    BY <1>1, <2>2, <2>3, <2>4, <2>5, <2>6 DEF Job
  <2> QED
    BY <1>1, <2>5, <2>7, StageFacts DEF JobFits, StageOK
<1>11. CASE ReadChecked(j, k) /\ k # Idle
  <2> DEFINE x == Deref(fs, j.at, j.n)
             kk == j.off \div BlockSize
             c == MinOf(j.cnt, x.size - j.off)
  <2>1. j.at \in ISlots \cup {TableRef} /\ j.off \in Nat /\ j.cnt \in Nat
    BY <1>1, JobFields, InodesAssumption DEF ISlots, TableRef
  <2>2. x.size \in Nat
    BY <1>1, <1>2, <2>1, DerefTyped, InodeFields
  <2>3. kk \in Nat
    BY <2>1, InodesAssumption, DivRange
  <2>4. j.op = "read" /\ "read" \in Stages
    BY <1>1, <1>11, StageFacts, StageOps DEF ReadChecked
  <2>5. j.cnt > 0
    BY <1>1, <2>4 DEF JobFits
  <2>6. k = [j EXCEPT !.pc = "read", !.k = kk, !.cnt = c] /\ j.off < x.size
    BY <1>11 DEF ReadChecked
  <2> HIDE DEF x
  <2>7. c \in Nat /\ c > 0
    BY <2>1, <2>2, <2>5, <2>6 DEF MinOf
  <2> HIDE DEF c, kk
  <2>8. /\ k \in Job /\ k.pc = "read" /\ k.op = j.op /\ k.name = j.name /\ k.type = j.type
        /\ k.num = j.num /\ k.off = j.off /\ k.cnt = c
    BY <1>1, <2>3, <2>4, <2>6, <2>7 DEF Job
  <2> QED
    BY <1>1, <2>4, <2>7, <2>8, StageFacts DEF JobFits, StageOK
<1>12. CASE Transferred(j, k) /\ k # Idle
  <2>1. CASE j.pc \in {"read", "write"} /\ k = [j EXCEPT !.k = @ + 1]
    BY <1>1, <2>1, TurnFits
  <2>2. CASE j.pc = "write" /\ k = [j EXCEPT !.pc = "grow"]
    <3>1. "grow" \in Stages /\ j.op = "write"
      BY <1>1, <2>2, StageFacts, StageOps
    <3> QED
      BY <1>1, <2>2, <3>1, MovedFits, StageFacts
  <2> QED
    BY <1>12, <2>1, <2>2 DEF Transferred
<1>13. CASE GrowthTested(j, k)
  <2>1. "size" \in Stages /\ "attrs" \in Stages /\ j.op = "write" /\ j.pc = "grow"
    BY <1>1, <1>13, StageFacts, StageOps DEF GrowthTested
  <2>2. CASE k = [j EXCEPT !.pc = "size"]
    BY <1>1, <2>1, <2>2, MovedFits, StageFacts
  <2>3. CASE k = [j EXCEPT !.pc = "attrs"]
    BY <1>1, <2>1, <2>3, MovedFits, StageFacts
  <2> QED
    BY <1>13, <2>2, <2>3 DEF GrowthTested
<1> QED
  BY <1>3, <1>4, <1>5, <1>6, <1>7, <1>8, <1>9, <1>10, <1>11, <1>12, <1>13 DEF QuietMove

\* A page has entries.
LEMMA EntryTyped ==
    ASSUME NEW page \in Page, NEW q \in Positions
    PROVE  page[q].inode \in InodeNums /\ page[q].name \in Names \cup {NoName}
BY DEF Page, Dentry

\* The search of a page keeps the shape of the job.
LEMMA SearchedFits ==
    ASSUME NEW j, JobFits(j), j.pc \in {"page", "fill"}, NEW page \in Page, NEW k,
           SearchedTo(page, j, k)
    PROVE  JobFits(k)
<1>1. j \in Job /\ j.op \in {"lookup", "create"}
  BY StageOps, StageFacts DEF JobFits
<1>2. CASE k = Idle
  BY <1>2, IdleFits
<1>3. CASE j.op = "lookup" /\ \E q \in Positions : k = Told(j, page[q].inode)
  <2>1. PICK q \in Positions : k = Told(j, page[q].inode)
    BY <1>3
  <2> DEFINE n == page[q].inode
  <2>2. n \in InodeNums
    BY EntryTyped
  <2> HIDE DEF n
  <2>3. k = Told(j, n)
    BY <2>1 DEF n
  <2>4. 0 <= InodeNumBlks * DirPageEntries
    BY IdleFits DEF JobFits, Idle
  <2> QED
    BY <1>1, <1>3, <2>2, <2>3, <2>4, SearchJobs, StageFacts DEF JobFits, StageOK
<1>4. CASE j.op # "lookup" /\ k = Missed(j)
  <2>4. 0 <= InodeNumBlks * DirPageEntries
    BY IdleFits DEF JobFits, Idle
  <2> QED
    BY <1>1, <1>4, <2>4, SearchJobs, StageFacts DEF JobFits, StageOK
<1>5. CASE LeftAt(j.num, j.k + 1) > 0 /\ k = NextPage(j)
  <2>1. (j.k + 1) * DirPageEntries < j.num
    <3> DEFINE z == (j.k + 1) * DirPageEntries
    <3>1. j.num \in Nat /\ j.k + 1 \in Nat /\ DirPageEntries \in Nat
      BY <1>1, JobFields, DirectoriesAssumption
    <3>2. z \in Nat
      BY <3>1
    <3>3. LeftAt(j.num, j.k + 1) = j.num - z
      BY DEF LeftAt
    <3> HIDE DEF z
    <3>4. z < j.num
      BY <1>5, <3>1, <3>2, <3>3
    <3> QED
      BY <3>4 DEF z
  <2> QED
    BY <1>1, <1>5, <2>1, SearchJobs, StageFacts DEF JobFits, StageOK
<1> QED
  BY <1>2, <1>3, <1>4, <1>5 DEF SearchedTo

\* A path that a client may ask for has a first name.
LEMMA RequestFields ==
    ASSUME NEW r \in Requests
    PROVE  /\ r.op = "lookup" => r.path \in Paths /\ r.path # << >>
           /\ r.op = "create" => r.dir \in InodeNums /\ r.name \in Names /\ r.type \in {"file", "dir"}
           /\ r.op \in {"read", "write"} => r.n \in InodeNums /\ r.off \in Nat /\ r.cnt \in Nat /\ r.cnt > 0
<1>1. r \in CreateRequest \cup LookupRequest \cup ReadRequest \cup WriteRequest
  BY FileSystemConcurrentAssumption
<1>2. Offsets \subseteq Nat /\ Counts \subseteq Nat
  BY FileSystemAssumption
<1>3. CASE r \in CreateRequest
  BY <1>3 DEF CreateRequest
<1>4. CASE r \in LookupRequest
  BY <1>4 DEF LookupRequest
<1>5. CASE r \in ReadRequest
  BY <1>2, <1>5 DEF ReadRequest
<1>6. CASE r \in WriteRequest
  BY <1>2, <1>6 DEF WriteRequest
<1> QED
  BY <1>1, <1>3, <1>4, <1>5, <1>6

\* The job that a search begins with.
LEMMA OpeningFits ==
    ASSUME Shape, NEW p \in Workers, NEW j, Opening(p, j)
    PROVE  /\ j \in Job /\ j.op \in {"lookup", "create"} /\ j.name \in Names
           /\ j.op = "create" => j.type \in {"file", "dir"}
           /\ j.k = 0 /\ j.num <= InodeNumBlks * DirPageEntries
           /\ rest' \in Paths
<1>1. Idle \in Job /\ Idle.k = 0 /\ Idle.num = 0 /\ 0 <= InodeNumBlks * DirPageEntries
  BY IdleFits DEF JobFits, Idle
<1>2. Root \in InodeNums /\ rest \in Paths
  BY Sizes DEF Root, Shape
<1>3. ASSUME NEW r \in Requests, r.op = "lookup", rest' = Tail(r.path),
             j = [Idle EXCEPT !.op = "lookup", !.path = r.path, !.n = Root, !.name = Head(r.path)]
      PROVE  /\ j \in Job /\ j.op = "lookup" /\ j.name \in Names
             /\ j.k = 0 /\ j.num <= InodeNumBlks * DirPageEntries
             /\ rest' \in Paths
  <2>1. r.path \in Paths /\ Tail(r.path) \in Paths /\ Head(r.path) \in Names
    BY <1>3, RequestFields, TailIsPath
  <2> HIDE DEF Idle
  <2>2. j \in Job /\ j.op = "lookup" /\ j.name = Head(r.path) /\ j.k = Idle.k /\ j.num = Idle.num
    BY <1>1, <1>2, <1>3, <2>1 DEF Job
  <2> QED
    BY <1>1, <1>3, <2>1, <2>2
<1>4. ASSUME NEW r \in Requests, r.op = "create", rest' = rest,
             j = [Idle EXCEPT !.op = "create", !.n = r.dir, !.name = r.name, !.type = r.type]
      PROVE  /\ j \in Job /\ j.op = "create" /\ j.name \in Names /\ j.type \in {"file", "dir"}
             /\ j.k = 0 /\ j.num <= InodeNumBlks * DirPageEntries
             /\ rest' \in Paths
  <2>1. r.dir \in InodeNums /\ r.name \in Names /\ r.type \in {"file", "dir"}
    BY <1>4, RequestFields
  <2> HIDE DEF Idle
  <2>2. j \in Job /\ j.op = "create" /\ j.name = r.name /\ j.type = r.type /\ j.k = Idle.k /\ j.num = Idle.num
    BY <1>1, <1>4, <2>1 DEF Job
  <2> QED
    BY <1>1, <1>2, <1>4, <2>1, <2>2
<1>5. CASE job[p].pc = "token" /\ rest # << >> /\ rest' = Tail(rest) /\ j = [job[p] EXCEPT !.name = Head(rest)]
  <2> DEFINE i == job[p]
  <2>1. JobFits(i) /\ i \in Job
    BY DEF Shape, JobFits
  <2>2. Head(rest) \in Names /\ Tail(rest) \in Paths
    BY <1>2, <1>5, TailIsPath
  <2>3. i.op = "lookup" /\ i.k = 0 /\ i.num <= InodeNumBlks * DirPageEntries
    BY <1>5, <2>1, StageOps DEF JobFits
  <2> HIDE DEF i
  <2>4. j \in Job /\ j.op = i.op /\ j.name = Head(rest) /\ j.k = i.k /\ j.num = i.num
    BY <1>5, <2>1, <2>2 DEF Job, i
  <2> QED
    BY <1>5, <2>2, <2>3, <2>4
<1> QED
  BY <1>3, <1>4, <1>5 DEF Opening

\* Beginning a search gives a job in shape.
LEMMA BegunFits ==
    ASSUME fs \in FsStruct, NEW j \in Job, j.op \in {"lookup", "create"}, j.name \in Names,
           j.op = "create" => j.type \in {"file", "dir"},
           j.k = 0, j.num <= InodeNumBlks * DirPageEntries,
           NEW k, BegunTo(fs, j, k)
    PROVE  JobFits(k)
<1>0. 0 <= InodeNumBlks * DirPageEntries
  BY IdleFits DEF JobFits, Idle
<1>1. CASE k = Idle
  BY <1>1, IdleFits
<1>2. CASE j.op = "lookup" /\ \E i \in DSlots, q \in Positions : k = Told(j, fs.dir_cache[i].entries[q].inode)
  <2>1. PICK i \in DSlots, q \in Positions : k = Told(j, fs.dir_cache[i].entries[q].inode)
    BY <1>2
  <2> DEFINE n == fs.dir_cache[i].entries[q].inode
  <2>2. n \in InodeNums
    <3>1. fs.dir_cache[i].entries \in Page
      BY Fields, DirEntryFields DEF Page
    <3> QED
      BY <3>1, EntryTyped
  <2> HIDE DEF n
  <2>3. k = Told(j, n)
    BY <2>1 DEF n
  <2> QED
    BY <1>0, <1>2, <2>2, <2>3, SearchJobs, StageFacts DEF JobFits, StageOK
<1>3. CASE \E h \in 0 .. DirCacheSize : k = Begun(j, h)
  <2>1. PICK h \in 0 .. DirCacheSize : k = Begun(j, h)
    BY <1>3
  <2> QED
    BY <2>1, SearchJobs, StageFacts DEF JobFits, StageOK
<1> QED
  BY <1>1, <1>2, <1>3 DEF BegunTo
\* A new inode is an inode, of size 0 and without blocks.
LEMMA NewInode ==
    ASSUME NEW type \in {"none", "dir", "file"}
    PROVE  LET x == InodeInit(type) IN
           /\ x \in Inode /\ x.type = type /\ x.size = 0 /\ BlocksOf(x) = {} /\ Distinct(x)
BY DEF InodeInit, Inode, BlocksOf, Distinct

\* What the block that a creation reserved changes.
LEMMA ReservedEffect ==
    ASSUME Shape, ~Overflow, NEW p \in Workers, NEW k, Reserved1(p, k)
    PROVE  LET j == job[p]
               x == fs.inode_tab[j.n]
               i == x.size \div BlockSize
           IN /\ i \in Indices /\ j.block \in Blocks /\ fs' \in FsStruct
              /\ fs'.inode_bmap = fs.inode_bmap /\ fs'.page = fs.page
              /\ fs'.inode_cache = fs.inode_cache /\ fs'.dir_cache = fs.dir_cache
              /\ fs'.blk_bmap = fs.blk_bmap \cup {j.block}
              /\ \E y \in Inode : /\ fs'.inode_tab = [fs.inode_tab EXCEPT ![j.n] = y]
                                  /\ y.type = x.type /\ y.size = x.size
                                  /\ \A m \in Indices : y.blocks[m] = IF m = i THEN j.block ELSE x.blocks[m]
                                  /\ Later(fs, x, y, {}, {j.block}, TRUE)
<1> DEFINE j == job[p]
           b == j.block
           x == fs.inode_tab[j.n]
           i == x.size \div BlockSize
           y == [x EXCEPT !.blocks[i] = b]
           B == fs.blk_bmap \cup {b}
<1>1. JobFits(j) /\ j \in Job /\ fs \in FsStruct
  BY DEF Shape, JobFits
<1>2. j.pc = "reserve" /\ fs' = [fs EXCEPT !.blk_bmap = B, !.inode_tab[j.n] = y]
  BY DEF Reserved1
<1>3. j.n \in InodeNums /\ b \in Blocks
  BY <1>1, <1>2, JobFields DEF JobFits
<1>4. x \in Inode /\ fs.inode_tab \in [InodeNums -> Inode] /\ fs.blk_bmap \subseteq Blocks
  BY <1>1, <1>3, Fields
<1>5. i \in Indices
  <2>1. ~(x.size >= InodeNumBlks * BlockSize)
    BY <1>2 DEF Overflow
  <2>2. x.size \in Nat /\ InodeNumBlks * BlockSize \in Nat
    BY <1>4, InodeFields, InodesAssumption
  <2>3. x.size < MaxSize
    BY <2>1, <2>2 DEF MaxSize
  <2> HIDE DEF x
  <2> QED
    BY <2>2, <2>3, EntryIndex
<1> HIDE DEF j, b, x, i
<1>6. /\ y \in Inode /\ y.type = x.type /\ y.size = x.size
      /\ \A m \in Indices : y.blocks[m] = IF m = i THEN b ELSE x.blocks[m]
  BY <1>3, <1>4, <1>5 DEF Inode
<1> HIDE DEF y
<1>7. B \subseteq Blocks
  BY <1>3, <1>4
<1> HIDE DEF B
<1>8. /\ fs' \in FsStruct /\ fs'.inode_bmap = fs.inode_bmap /\ fs'.page = fs.page
      /\ fs'.inode_cache = fs.inode_cache /\ fs'.dir_cache = fs.dir_cache
      /\ fs'.blk_bmap = B /\ fs'.inode_tab = [fs.inode_tab EXCEPT ![j.n] = y]
  BY <1>1, <1>2, <1>3, <1>6, <1>7 DEF FsStruct
<1>9. Later(fs, x, y, {}, {b}, TRUE)
  <2>1. ASSUME Distinct(x), BlocksOf(x) \subseteq fs.blk_bmap, {b} \cap fs.blk_bmap = {}
        PROVE  Distinct(y)
    <3>1. \A m \in Indices : x.blocks[m] # b
      BY <1>3, <2>1, Sizes DEF BlocksOf
    <3> QED
      BY <1>5, <1>6, <2>1, <3>1 DEF Distinct
  <2> QED
    BY <1>6, <2>1 DEF Later
<1>10. /\ i \in Indices /\ b \in Blocks /\ fs' \in FsStruct
       /\ fs'.inode_bmap = fs.inode_bmap /\ fs'.page = fs.page
       /\ fs'.inode_cache = fs.inode_cache /\ fs'.dir_cache = fs.dir_cache
       /\ fs'.blk_bmap = fs.blk_bmap \cup {b}
       /\ \E z \in Inode : /\ fs'.inode_tab = [fs.inode_tab EXCEPT ![j.n] = z]
                           /\ z.type = x.type /\ z.size = x.size
                           /\ \A m \in Indices : z.blocks[m] = IF m = i THEN b ELSE x.blocks[m]
                           /\ Later(fs, x, z, {}, {b}, TRUE)
  <2>1. fs'.blk_bmap = fs.blk_bmap \cup {b}
    BY <1>8 DEF B
  <2> QED
    BY <1>3, <1>5, <1>6, <1>8, <1>9, <2>1
<1> QED
  BY <1>10 DEF j, b, x, i

\* A page that is written.
LEMMA WithPageEffect ==
    ASSUME fs \in FsStruct, NEW b \in Blocks \cup {0}, NEW page \in Page
    PROVE  LET g == WithPage(b, page) IN
           /\ g \in FsStruct /\ g.inode_tab = fs.inode_tab /\ g.inode_bmap = fs.inode_bmap
           /\ g.blk_bmap = fs.blk_bmap /\ g.inode_cache = fs.inode_cache /\ g.dir_cache = fs.dir_cache
           /\ \A c \in Blocks : g.page[c] = IF c = b THEN page ELSE fs.page[c]
<1>1. CASE b = 0
  BY <1>1, Sizes DEF WithPage
<1>2. CASE b # 0
  <2> DEFINE pages == [fs.page EXCEPT ![b] = page]
  <2>1. fs.page \in [Blocks -> Page] /\ b \in Blocks
    BY <1>2, Fields
  <2>2. pages \in [Blocks -> Page] /\ \A c \in Blocks : pages[c] = IF c = b THEN page ELSE fs.page[c]
    BY <2>1
  <2>3. WithPage(b, page) = [fs EXCEPT !.page = pages]
    BY <1>2 DEF WithPage
  <2> HIDE DEF pages
  <2> QED
    BY <2>2, <2>3 DEF FsStruct
<1> QED
  BY <1>1, <1>2

\* What the two writes of a page change: one entry gets a name, then a number.
LEMMA WrittenEffect ==
    ASSUME Shape, NEW p \in Workers, NEW k, NameWritten(p, k) \/ LinkWritten(p, k)
    PROVE  LET j == job[p]
               old == IF j.pc = "name" THEN j.page ELSE DiskPage(j.block)
               new == IF j.pc = "name" THEN [j.page EXCEPT ![j.k].name = j.name]
                                       ELSE [DiskPage(j.block) EXCEPT ![j.k].inode = j.new]
           IN /\ fs' \in FsStruct /\ fs'.inode_tab = fs.inode_tab /\ fs'.inode_bmap = fs.inode_bmap
              /\ fs'.blk_bmap = fs.blk_bmap /\ fs'.inode_cache = fs.inode_cache
              /\ fs'.dir_cache = fs.dir_cache
              /\ \A c \in Blocks : fs'.page[c] = IF c = j.block THEN new ELSE fs.page[c]
              /\ \A q \in Positions :
                    IF q # j.k THEN new[q] = old[q]
                    ELSE IF j.pc = "name" THEN new[q] = [name |-> j.name, inode |-> old[q].inode]
                                          ELSE new[q] = [name |-> old[q].name, inode |-> j.new]
<1> DEFINE j == job[p]
           old == IF j.pc = "name" THEN j.page ELSE DiskPage(j.block)
           new == IF j.pc = "name" THEN [j.page EXCEPT ![j.k].name = j.name]
                                   ELSE [DiskPage(j.block) EXCEPT ![j.k].inode = j.new]
<1>1. j \in Job /\ fs \in FsStruct /\ JobFits(j)
  BY DEF Shape, JobFits
<1>2. j.block \in Blocks \cup {0} /\ j.page \in Page /\ j.new \in InodeNums /\ j.name \in Names \cup {NoName}
  BY <1>1, JobFields
<1>3. DiskPage(j.block) \in Page
  BY <1>1, <1>2, DiskPageTyped
<1>4. fs' = WithPage(j.block, new)
  BY DEF NameWritten, LinkWritten
<1>5. /\ new \in Page
      /\ \A q \in Positions :
                    IF q # j.k THEN new[q] = old[q]
                    ELSE IF j.pc = "name" THEN new[q] = [name |-> j.name, inode |-> old[q].inode]
                                          ELSE new[q] = [name |-> old[q].name, inode |-> j.new]
  <2>1. CASE j.pc = "name"
    <3> DEFINE e == [j.page[j.k] EXCEPT !.name = j.name]
    <3>1. new = [j.page EXCEPT ![j.k] = e] /\ old = j.page
      BY <2>1
    <3>2. j.k \in Positions => e = [name |-> j.name, inode |-> j.page[j.k].inode] /\ e \in Dentry
      BY <1>2 DEF Page, Dentry
    <3> HIDE DEF e, new, old
    <3> QED
      BY <1>2, <2>1, <3>1, <3>2 DEF Page
  <2>2. CASE j.pc # "name"
    <3> DEFINE page == DiskPage(j.block)
               e == [page[j.k] EXCEPT !.inode = j.new]
    <3>1. new = [page EXCEPT ![j.k] = e] /\ old = page
      BY <2>2
    <3>0. page \in Page
      BY <1>3
    <3> HIDE DEF page
    <3>2. j.k \in Positions => e = [name |-> page[j.k].name, inode |-> j.new] /\ e \in Dentry
      BY <1>2, <3>0 DEF Page, Dentry
    <3> HIDE DEF e, new, old
    <3> QED
      BY <2>2, <3>0, <3>1, <3>2 DEF Page
  <2> QED
    BY <2>1, <2>2
<1> HIDE DEF new, old, j
<1>6. /\ fs' \in FsStruct /\ fs'.inode_tab = fs.inode_tab /\ fs'.inode_bmap = fs.inode_bmap
      /\ fs'.blk_bmap = fs.blk_bmap /\ fs'.inode_cache = fs.inode_cache
      /\ fs'.dir_cache = fs.dir_cache
      /\ \A c \in Blocks : fs'.page[c] = IF c = j.block THEN new ELSE fs.page[c]
  BY <1>1, <1>2, <1>4, <1>5, WithPageEffect
<1> QED
  BY <1>5, <1>6 DEF new, old, j

\* A directory gets larger by an entry.
LEMMA ExtendedEffect ==
    ASSUME Shape, ~Overflow, NEW p \in Workers, NEW k, DirExtended(p, k)
    PROVE  LET j == job[p]
               x == fs.inode_tab[j.n]
           IN /\ fs' \in FsStruct /\ fs'.inode_bmap = fs.inode_bmap /\ fs'.page = fs.page
              /\ fs'.inode_cache = fs.inode_cache /\ fs'.dir_cache = fs.dir_cache
              /\ fs'.blk_bmap = fs.blk_bmap
              /\ x.size + DentrySize \in Nat /\ x.size + DentrySize < MaxSize + DentrySize
              /\ \E y \in Inode : /\ fs'.inode_tab = [fs.inode_tab EXCEPT ![j.n] = y]
                                  /\ y.type = x.type /\ y.size = x.size + DentrySize
                                  /\ y.blocks = x.blocks
                                  /\ Later(fs, x, y, {x.size + DentrySize}, {}, TRUE)
<1> DEFINE j == job[p]
           x == fs.inode_tab[j.n]
           s == x.size + DentrySize
           y == [x EXCEPT !.size = s]
<1>1. j \in Job /\ fs \in FsStruct
  BY DEF Shape, JobFits
<1>2. j.pc = "extend" /\ fs' = [fs EXCEPT !.inode_tab[j.n] = y]
  BY DEF DirExtended
<1>3. x \in Inode /\ fs.inode_tab \in [InodeNums -> Inode] /\ j.n \in InodeNums
  BY <1>1, JobFields, Fields
<1>4. s \in Nat /\ s < MaxSize + DentrySize
  <2>1. ~(x.size >= InodeNumBlks * BlockSize)
    BY <1>2 DEF Overflow
  <2>2. x.size \in Nat /\ InodeNumBlks * BlockSize \in Nat /\ DentrySize \in Nat
    BY <1>3, InodeFields, InodesAssumption, BlockIsPage
  <2> QED
    BY <2>1, <2>2 DEF MaxSize
<1> HIDE DEF j, x, s
<1>5. y \in Inode /\ y.type = x.type /\ y.size = s /\ y.blocks = x.blocks
  BY <1>3, <1>4, ResizedInode
<1> HIDE DEF y
<1>6. /\ fs' \in FsStruct /\ fs'.inode_bmap = fs.inode_bmap /\ fs'.page = fs.page
      /\ fs'.inode_cache = fs.inode_cache /\ fs'.dir_cache = fs.dir_cache
      /\ fs'.blk_bmap = fs.blk_bmap /\ fs'.inode_tab = [fs.inode_tab EXCEPT ![j.n] = y]
  BY <1>1, <1>2, <1>3, <1>5 DEF FsStruct
<1>7. Later(fs, x, y, {s}, {}, TRUE)
  BY <1>5 DEF Later, Distinct
<1> QED
  BY <1>4, <1>5, <1>6, <1>7 DEF j, x, s

\* An inode is marked.
LEMMA MarkedEffect ==
    ASSUME Shape, NEW p \in Workers, NEW k, InodeMarked(p, k)
    PROVE  /\ fs' \in FsStruct /\ fs'.inode_tab = fs.inode_tab /\ fs'.page = fs.page
           /\ fs'.inode_cache = fs.inode_cache /\ fs'.dir_cache = fs.dir_cache
           /\ fs'.blk_bmap = fs.blk_bmap /\ fs'.inode_bmap = fs.inode_bmap \cup {job[p].new}
<1> DEFINE B == fs.inode_bmap \cup {job[p].new}
<1>1. job[p].new \in InodeNums /\ fs \in FsStruct
  BY JobFields DEF Shape, JobFits
<1>2. B \subseteq InodeNums
  BY <1>1, Fields
<1>3. fs' = [fs EXCEPT !.inode_bmap = B]
  BY DEF InodeMarked
<1> HIDE DEF B
<1>4. /\ fs' \in FsStruct /\ fs'.inode_tab = fs.inode_tab /\ fs'.page = fs.page
      /\ fs'.inode_cache = fs.inode_cache /\ fs'.dir_cache = fs.dir_cache
      /\ fs'.blk_bmap = fs.blk_bmap /\ fs'.inode_bmap = B
  BY <1>1, <1>2, <1>3 DEF FsStruct
<1> QED
  BY <1>4 DEF B

\* An inode is initialised.
LEMMA MadeEffect ==
    ASSUME Shape, NEW p \in Workers, NEW k, InodeMade(p, k)
    PROVE  LET x == InodeInit(job[p].type) IN
           /\ job[p].type \in {"file", "dir"}
           /\ fs' \in FsStruct /\ fs'.inode_tab = [fs.inode_tab EXCEPT ![job[p].new] = x]
           /\ fs'.page = fs.page /\ fs'.inode_cache = fs.inode_cache /\ fs'.dir_cache = fs.dir_cache
           /\ fs'.blk_bmap = fs.blk_bmap /\ fs'.inode_bmap = fs.inode_bmap
<1> DEFINE j == job[p]
           x == InodeInit(j.type)
<1>1. JobFits(j) /\ j \in Job /\ fs \in FsStruct /\ j.pc = "init"
  BY DEF Shape, JobFits, InodeMade
<1>2. j.op = "create"
  BY <1>1, StageOps, StageFacts
<1>3. j.type \in {"file", "dir"}
  BY <1>1, <1>2 DEF JobFits
<1>4. x \in Inode
  BY <1>3, NewInode
<1>5. j.new \in InodeNums /\ fs.inode_tab \in [InodeNums -> Inode]
  BY <1>1, JobFields, Fields
<1>6. fs' = [fs EXCEPT !.inode_tab[j.new] = x]
  BY DEF InodeMade
<1> HIDE DEF x, j
<1>7. /\ fs' \in FsStruct /\ fs'.inode_tab = [fs.inode_tab EXCEPT ![j.new] = x]
      /\ fs'.page = fs.page /\ fs'.inode_cache = fs.inode_cache /\ fs'.dir_cache = fs.dir_cache
      /\ fs'.blk_bmap = fs.blk_bmap /\ fs'.inode_bmap = fs.inode_bmap
  BY <1>1, <1>4, <1>5, <1>6 DEF FsStruct
<1> QED
  BY <1>3, <1>7 DEF x, j
\* Bytes that fit into the blocks of an inode.
LEMMA SizeByBlocks ==
    ASSUME NEW s \in Nat, OffsetToBlocks(s) <= InodeNumBlks
    PROVE  s <= MaxSize
<1> DEFINE i == InodeNumBlks
           m == i * BlockSize
<1>1. i \in Nat /\ m \in Nat
  BY InodesAssumption
<1>2. OffsetToBlocks(s) \in Nat /\ (i < OffsetToBlocks(s) <=> m < s)
  BY <1>1, CeilLess
<1> HIDE DEF m
<1>3. ~(m < s)
  BY <1>1, <1>2
<1>4. s <= m
  BY <1>1, <1>3
<1> QED
  BY <1>4 DEF MaxSize, m

\* The job of a transfer that begins.
LEMMA OpenedFields ==
    ASSUME NEW op \in {"read", "write"}, NEW r, r.n \in InodeNums, r.off \in Nat, r.cnt \in Nat,
           NEW at \in ISlots \cup {TableRef}
    PROVE  LET j == OpenedFor(op, r, at) IN
           /\ j \in Job /\ j.op = op /\ j.n = r.n /\ j.at = at /\ j.off = r.off /\ j.cnt = r.cnt
           /\ j.name = NoName /\ j.num = 0 /\ j.k = 0 /\ j.hit = DirCacheSize /\ j.block = 0
<1>1. Idle \in Job /\ Idle.num = 0 /\ Idle.k = 0 /\ Idle.hit = DirCacheSize /\ Idle.name = NoName
      /\ Idle.block = 0
  BY IdleFits DEF JobFits, Idle
<1>2. at \in 0 .. TableRef
  BY InodesAssumption DEF ISlots, TableRef
<1> HIDE DEF Idle
<1>3. OpenedFor(op, r, at) = [Idle EXCEPT !.op = op, !.n = r.n, !.at = at, !.off = r.off, !.cnt = r.cnt]
  BY DEF OpenedFor
<1> QED
  BY ZenonT(60), <1>1, <1>2, <1>3 DEF Job

\* A read that begins.
LEMMA ReadStartedEffect ==
    ASSUME Shape, NEW p \in Workers, NEW k, ReadStarted(p, k)
    PROVE  \E n \in InodeNums : LET acc == Access(fs, n, now) IN
              /\ fs' = acc.fs /\ fs' \in FsStruct /\ OnlyInodes(fs, fs') /\ fs'.blk_bmap = fs.blk_bmap
              /\ JobFits(k)
              /\ k = Idle \/ (/\ acc.ok /\ k.pc = "check" /\ k.op = "read" /\ k.n = n /\ k.at = acc.at
                              /\ k.hit = DirCacheSize)
<1>0. fs \in FsStruct /\ now \in Nat
  BY DEF Shape
<1>1. PICK r \in Requests : LET acc == Access(fs, r.n, now) IN
          /\ r.op = "read" /\ fs' = acc.fs
          /\ k = Idle \/ (acc.ok /\ k = [OpenedFor("read", r, acc.at) EXCEPT !.pc = "check"])
  BY DEF ReadStarted
<1> DEFINE acc == Access(fs, r.n, now)
<1>2. r.n \in InodeNums /\ r.off \in Nat /\ r.cnt \in Nat /\ r.cnt > 0
  BY <1>1, RequestFields
<1>3. OnlyInodes(fs, acc.fs) /\ acc.fs.blk_bmap = fs.blk_bmap /\ acc.at \in ISlots \cup {TableRef}
  BY ZenonT(60), <1>0, <1>2, AccessEffect
<1>4. fs' = acc.fs /\ fs' \in FsStruct /\ OnlyInodes(fs, fs') /\ fs'.blk_bmap = fs.blk_bmap
  BY <1>1, <1>3 DEF OnlyInodes
<1> HIDE DEF acc
<1>5. k = Idle \/ (acc.ok /\ k = [OpenedFor("read", r, acc.at) EXCEPT !.pc = "check"])
  BY <1>1 DEF acc
<1>6. CASE k = Idle
  <2>1. JobFits(k)
    BY <1>6, IdleFits
  <2> QED
    BY <1>2, <1>4, <1>6, <2>1 DEF acc
<1>7. CASE acc.ok /\ k = [OpenedFor("read", r, acc.at) EXCEPT !.pc = "check"]
  <2> DEFINE j == OpenedFor("read", r, acc.at)
             at == acc.at
  <2>0. at \in ISlots \cup {TableRef}
    BY <1>3
  <2>1. /\ j \in Job /\ j.op = "read" /\ j.n = r.n /\ j.at = acc.at /\ j.off = r.off /\ j.cnt = r.cnt
        /\ j.name = NoName /\ j.num = 0 /\ j.k = 0 /\ j.hit = DirCacheSize
    <3> HIDE DEF at
    <3>1. LET i == OpenedFor("read", r, at) IN
          /\ i \in Job /\ i.op = "read" /\ i.n = r.n /\ i.at = at /\ i.off = r.off /\ i.cnt = r.cnt
          /\ i.name = NoName /\ i.num = 0 /\ i.k = 0 /\ i.hit = DirCacheSize
      BY <1>2, <2>0, OpenedFields
    <3> QED
      BY <3>1 DEF at
  <2> HIDE DEF j
  <2>2. "check" \in Stages
    BY StageFacts
  <2>3. /\ k \in Job /\ k.pc = "check" /\ k.op = "read" /\ k.n = r.n /\ k.at = acc.at
        /\ k.hit = DirCacheSize /\ k.num = 0 /\ k.cnt = r.cnt
    BY <1>7, <2>1, <2>2, Moved DEF j
  <2>4. 0 <= InodeNumBlks * DirPageEntries
    BY IdleFits DEF JobFits, Idle
  <2>5. JobFits(k)
    BY <1>2, <2>3, <2>4 DEF JobFits, StageOK
  <2> QED
    BY <1>2, <1>4, <1>7, <2>3, <2>5 DEF acc
<1> QED
  BY <1>5, <1>6, <1>7

\* A write that begins: the inode has the blocks that it needs, or the request is answered.
LEMMA WriteStartedEffect ==
    ASSUME Shape, NEW p \in Workers, NEW k, WriteStarted(p, k)
    PROVE  \E n \in InodeNums : LET acc == Access(fs, n, now) IN
              /\ fs' \in FsStruct /\ OnlyInodes(fs, fs')
              /\ \/ fs' = acc.fs /\ k = Idle
                 \/ LET old == Deref(acc.fs, acc.at, n)
                        used == OffsetToBlocks(old.size)
                    IN /\ acc.ok /\ old.type = "file"
                       /\ Allotted(acc.fs, fs', acc.at, n, used, InodeNumBlks)
                       /\ acc.at # TableRef =>
                             fs'.inode_cache[acc.at].dirty = acc.fs.inode_cache[acc.at].dirty \/ fs'.inode_cache[acc.at].dirty
                       /\ \/ k = Idle
                          \/ LET need == OffsetToBlocks(k.off + k.cnt) IN
                             /\ k.pc = "write" /\ k.op = "write" /\ k.n = n /\ k.at = acc.at
                             /\ k.hit = DirCacheSize
                             /\ k.off <= old.size /\ k.k = k.off \div BlockSize
                             /\ need <= InodeNumBlks
                             /\ \A j \in Indices : used <= j /\ j < need => Deref(fs', acc.at, n).blocks[j] # 0
                             /\ acc.at # TableRef /\ ~fs'.inode_cache[acc.at].dirty => need <= used
              /\ JobFits(k)
<1>0. fs \in FsStruct /\ now \in Nat
  BY DEF Shape
<1>1. PICK r \in Requests :
          LET acc == Access(fs, r.n, now)
              j == OpenedForWrite(r, acc)
              res == Reserve(acc, r.n, j.off, j.cnt)
          IN /\ r.op = "write"
             /\ \/ k = Idle /\ fs' = acc.fs
                \/ /\ acc.ok /\ Deref(acc.fs, acc.at, r.n).type = "file" /\ fs' = res.fs
                   /\ k = Idle \/ (res.ok /\ k = j)
  BY DEF WriteStarted
<1> DEFINE n == r.n
           acc == Access(fs, n, now)
           at == acc.at
           f == acc.fs
           j == OpenedForWrite(r, acc)
           res == Reserve(acc, n, j.off, j.cnt)
           old == Deref(f, at, n)
           used == OffsetToBlocks(old.size)
<1>2. n \in InodeNums /\ r.off \in Nat /\ r.cnt \in Nat /\ r.cnt > 0
  BY <1>1, RequestFields
<1>3. OnlyInodes(fs, f) /\ f.blk_bmap = fs.blk_bmap /\ at \in ISlots \cup {TableRef}
  BY ZenonT(60), <1>0, <1>2, AccessEffect
<1>4. f \in FsStruct
  BY <1>3 DEF OnlyInodes
<1>5. CASE k = Idle /\ fs' = f
  <2>1. fs' \in FsStruct /\ OnlyInodes(fs, fs') /\ JobFits(k)
    BY <1>3, <1>4, <1>5, IdleFits
  <2> HIDE DEF n
  <2> QED
    BY <1>2, <1>5, <2>1
<1>6. CASE acc.ok /\ old.type = "file" /\ fs' = res.fs /\ (k = Idle \/ (res.ok /\ k = j))
  <2>1. old \in Inode
    BY <1>2, <1>3, <1>4, DerefTyped
  <2> DEFINE off == MinOf(r.off, old.size)
             kk == off \div BlockSize
             i == OpenedFor("write", r, at)
  <2>2. off \in Nat /\ off <= old.size
    BY <1>2, <2>1, InodeFields DEF MinOf
  <2>3. kk \in Nat
    BY <2>2, InodesAssumption, DivRange
  <2>4. j = [i EXCEPT !.pc = "write", !.off = off, !.k = kk]
    BY DEF OpenedForWrite
  <2>5. /\ i \in Job /\ i.op = "write" /\ i.n = r.n /\ i.at = at /\ i.off = r.off /\ i.cnt = r.cnt
        /\ i.name = NoName /\ i.num = 0 /\ i.hit = DirCacheSize
    <3> HIDE DEF at
    <3>1. LET h == OpenedFor("write", r, at) IN
          /\ h \in Job /\ h.op = "write" /\ h.n = r.n /\ h.at = at /\ h.off = r.off /\ h.cnt = r.cnt
          /\ h.name = NoName /\ h.num = 0 /\ h.hit = DirCacheSize
      BY <1>2, <1>3, OpenedFields
    <3> QED
      BY <3>1 DEF at
  <2>6. "write" \in Stages
    BY StageFacts
  <2> HIDE DEF i, off, kk
  <2>7. /\ j \in Job /\ j.pc = "write" /\ j.op = "write" /\ j.n = n /\ j.at = at /\ j.off = off
        /\ j.cnt = r.cnt /\ j.k = kk /\ j.num = 0 /\ j.hit = DirCacheSize
    BY ZenonT(60), <2>2, <2>3, <2>4, <2>5, <2>6 DEF Job
  <2> DEFINE need == OffsetToBlocks(j.off + j.cnt)
             jo == j.off
             jc == j.cnt
  <2> HIDE DEF j
  <2>8. jo \in Nat /\ jc \in Nat
    BY <1>2, <2>2, <2>7
  <2> HIDE DEF acc, n
  <2>9. /\ Allotted(f, res.fs, at, n, used, InodeNumBlks)
        /\ res.ok => /\ need <= InodeNumBlks
                     /\ \A m \in Indices : used <= m /\ m < need => Deref(res.fs, at, n).blocks[m] # 0
        /\ at # TableRef => /\ res.fs.inode_cache[at].dirty = f.inode_cache[at].dirty \/ (res.ok /\ res.fs.inode_cache[at].dirty)
                            /\ res.ok /\ ~res.fs.inode_cache[at].dirty => need <= used
    <3> HIDE DEF jo, jc
    <3>1. LET rr == Reserve(acc, n, jo, jc)
              nn == OffsetToBlocks(jo + jc)
          IN /\ Allotted(f, rr.fs, at, n, used, InodeNumBlks)
             /\ rr.ok => /\ nn <= InodeNumBlks
                         /\ \A m \in Indices : used <= m /\ m < nn => Deref(rr.fs, at, n).blocks[m] # 0
             /\ at # TableRef => /\ rr.fs.inode_cache[at].dirty = f.inode_cache[at].dirty \/ (rr.ok /\ rr.fs.inode_cache[at].dirty)
                                 /\ rr.ok /\ ~rr.fs.inode_cache[at].dirty => nn <= used
      BY <1>2, <1>3, <1>4, <2>8, ReserveEffect
    <3> QED
      BY <3>1 DEF jo, jc
  <2> HIDE DEF res, need, used
  <2>10. OnlyInodes(f, fs') /\ fs' \in FsStruct
    BY <1>6, <2>9 DEF Allotted, OnlyInodes
  <2>11. OnlyInodes(fs, fs')
    BY <1>3, <2>10, OnlyInodesOn
  <2>12. CASE k = Idle
    <3>1. JobFits(k)
      BY <2>12, IdleFits
    <3>2. at # TableRef => fs'.inode_cache[at].dirty = f.inode_cache[at].dirty \/ fs'.inode_cache[at].dirty
      BY <1>6, <2>9
    <3>3. Allotted(f, fs', at, n, used, InodeNumBlks)
      BY <1>6, <2>9
    <3> QED
      BY <1>2, <1>6, <2>10, <2>11, <2>12, <3>1, <3>2, <3>3 DEF acc, used
  <2>13. CASE res.ok /\ k = j
    <3>1. need = OffsetToBlocks(k.off + k.cnt) /\ need <= InodeNumBlks
      BY <2>9, <2>13 DEF need
    <3>2. k.off + k.cnt <= MaxSize
      <4> DEFINE s == k.off + k.cnt
      <4>1. s \in Nat
        BY <2>8, <2>13
      <4>2. OffsetToBlocks(s) <= InodeNumBlks
        BY <3>1
      <4> HIDE DEF s
      <4>3. s <= MaxSize
        BY <4>1, <4>2, SizeByBlocks
      <4> QED
        BY <4>3 DEF s
    <3>3. 0 <= InodeNumBlks * DirPageEntries
      BY IdleFits DEF JobFits, Idle
    <3>4. JobFits(k)
      BY <1>2, <2>7, <2>13, <3>2, <3>3 DEF JobFits, StageOK
    <3>5. /\ k.pc = "write" /\ k.op = "write" /\ k.n = n /\ k.at = at
          /\ k.hit = DirCacheSize /\ k.off <= old.size /\ k.k = k.off \div BlockSize
      BY <2>2, <2>7, <2>13 DEF kk
    <3>6. at # TableRef => fs'.inode_cache[at].dirty = f.inode_cache[at].dirty \/ fs'.inode_cache[at].dirty
      BY <1>6, <2>9
    <3>7. Allotted(f, fs', at, n, used, InodeNumBlks)
      BY <1>6, <2>9
    <3>8. /\ \A m \in Indices : used <= m /\ m < need => Deref(fs', at, n).blocks[m] # 0
          /\ at # TableRef /\ ~fs'.inode_cache[at].dirty => need <= used
      BY <1>6, <2>9, <2>13
    <3> HIDE DEF need, used
    <3>9. acc.ok /\ old.type = "file"
      BY <1>6
    <3> QED
      BY <1>2, <2>10, <2>11, <3>1, <3>4, <3>5, <3>6, <3>7, <3>8, <3>9 DEF acc, used
  <2> QED
    BY <1>6, <2>12, <2>13
<1> QED
  BY <1>1, <1>5, <1>6
\* Sizes an inode may have.
SizeFits == {s \in Nat : s < MaxSize + DentrySize}

\* The inode that may get blocks in a step, or be a new one, and from whom.
Sources(p, n, S, B, Y) ==
    /\ Derived(fs, fs', n, S, B, Y)
    /\ n \in InodeNums /\ S \subseteq SizeFits
    /\ \/ B = {}
       \/ job[p].pc = "idle" /\ B \cap fs.blk_bmap = {}
       \/ job[p].pc = "reserve" /\ n = job[p].n /\ B = {job[p].block}
    /\ \/ Y = {}
       \/ /\ job[p].pc = "init" /\ n = job[p].new /\ job[p].type \in {"file", "dir"}
          /\ Y = {InodeInit(job[p].type)}

\* What every step does to the structure and to the job.
Advances(p, k) ==
    /\ fs' \in FsStruct
    /\ JobFits(k) /\ rest' \in Paths
    /\ fs.inode_bmap \subseteq fs'.inode_bmap
    /\ fs'.inode_bmap = fs.inode_bmap \/ (job[p].pc = "mark" /\ fs'.inode_bmap = fs.inode_bmap \cup {job[p].new})
    /\ up' \in BOOLEAN /\ (up' = up \/ job[p].pc = "attrs")
    /\ \E n, S, B, Y : Sources(p, n, S, B, Y)

\* A step that only moves copies.
LEMMA FewerSources ==
    ASSUME fs'.blk_bmap = fs.blk_bmap,
           \A m \in InodeNums : CopiesIn(fs', m) \subseteq CopiesIn(fs, m),
           NEW p
    PROVE  \E n, S, B, Y : Sources(p, n, S, B, Y)
<1>1. Derived(fs, fs', 0, {}, {}, {})
  BY DerivedFewer
<1>2. 0 \in InodeNums
  BY Sizes
<1>3. Sources(p, 0, {}, {}, {})
  BY <1>1, <1>2 DEF Sources
<1> QED
  BY <1>3

\* The pointer of a job leads somewhere.
LEMMA PointerTyped ==
    ASSUME NEW j \in Job
    PROVE  j.at \in ISlots \cup {TableRef}
BY JobFields, InodesAssumption DEF ISlots, TableRef

\* Every step of a thread advances.
LEMMA StepAdvances ==
    ASSUME Shape, ~Overflow, NEW p \in Workers, NEW k, LeadsTo(p, k)
    PROVE  Advances(p, k)
<1> DEFINE j == job[p]
<1>1. fs \in FsStruct /\ now \in Nat /\ rest \in Paths /\ up \in BOOLEAN /\ JobFits(j) /\ j \in Job
  BY DEF Shape, JobFits
<1>2. j.n \in InodeNums /\ j.new \in InodeNums /\ j.at \in ISlots \cup {TableRef}
      /\ j.off \in Nat /\ j.cnt \in Nat
  BY <1>1, JobFields, PointerTyped
<1>3. CASE Quieted(p, k)
  <2>1. JobFits(k)
    BY <1>3, QuietFits DEF Quieted
  <2>2. fs' = fs /\ up' = up /\ rest' = rest
    BY <1>3 DEF Quieted
  <2>3. \E n, S, B, Y : Sources(p, n, S, B, Y)
    BY <2>2, FewerSources
  <2> QED
    BY <1>1, <2>1, <2>2, <2>3 DEF Advances
<1>4. CASE SearchBegun(p, k)
  <2>1. PICK i : Opening(p, i) /\ BegunTo(fs, i, k)
    BY <1>4 DEF SearchBegun
  <2>2. JobFits(k) /\ rest' \in Paths
    BY <1>1, <2>1, OpeningFits, BegunFits
  <2>3. SameInodes(fs, fs') /\ up' = up
    BY <1>4 DEF SearchBegun
  <2>4. fs'.blk_bmap = fs.blk_bmap /\ fs'.inode_bmap = fs.inode_bmap /\ fs' \in FsStruct
    BY <2>3 DEF SameInodes
  <2>5. \E n, S, B, Y : Sources(p, n, S, B, Y)
    BY <2>3, <2>4, SameInodesFewer, FewerSources
  <2> QED
    BY <1>1, <2>2, <2>3, <2>4, <2>5 DEF Advances
<1>5. CASE PageSearched(p, k)
  <2>1. PICK page \in Page : PageAtHand(p, page) /\ SearchedTo(page, j, k)
    BY <1>5 DEF PageSearched
  <2>2. JobFits(k)
    BY <1>1, <2>1, SearchedFits DEF PageAtHand
  <2>3. SameInodes(fs, fs') /\ up' = up /\ rest' = rest
    BY <1>5 DEF PageSearched
  <2>4. fs'.blk_bmap = fs.blk_bmap /\ fs'.inode_bmap = fs.inode_bmap /\ fs' \in FsStruct
    BY <2>3 DEF SameInodes
  <2>5. \E n, S, B, Y : Sources(p, n, S, B, Y)
    BY <2>3, <2>4, SameInodesFewer, FewerSources
  <2> QED
    BY <1>1, <2>2, <2>3, <2>4, <2>5 DEF Advances
<1>6. CASE ReadStarted(p, k)
  <2>1. up' = up /\ rest' = rest
    BY <1>6 DEF ReadStarted
  <2>2. PICK n \in InodeNums : LET acc == Access(fs, n, now) IN
           fs' = acc.fs /\ fs' \in FsStruct /\ OnlyInodes(fs, fs') /\ fs'.blk_bmap = fs.blk_bmap /\ JobFits(k)
    BY <1>6, ReadStartedEffect
  <2>3. \A m \in InodeNums : CopiesIn(fs', m) \subseteq CopiesIn(fs, m)
    BY <1>1, <2>2, AccessFewer
  <2>4. \E n1, S, B, Y : Sources(p, n1, S, B, Y)
    BY <2>2, <2>3, FewerSources
  <2> QED
    BY <1>1, <2>1, <2>2, <2>4 DEF Advances, OnlyInodes
<1>7. CASE WriteStarted(p, k)
  <2>1. up' = up /\ rest' = rest /\ j.pc = "idle"
    BY <1>7 DEF WriteStarted
  <2>2. PICK n \in InodeNums : LET acc == Access(fs, n, now) IN
              /\ fs' \in FsStruct /\ OnlyInodes(fs, fs')
              /\ \/ fs' = acc.fs /\ k = Idle
                 \/ Allotted(acc.fs, fs', acc.at, n, OffsetToBlocks(Deref(acc.fs, acc.at, n).size), InodeNumBlks)
              /\ JobFits(k)
    BY <1>7, WriteStartedEffect
  <2> DEFINE acc == Access(fs, n, now)
             f == acc.fs
             at == acc.at
             used == OffsetToBlocks(Deref(f, at, n).size)
  <2>3. OnlyInodes(fs, f) /\ f.blk_bmap = fs.blk_bmap /\ at \in ISlots \cup {TableRef}
        /\ (at # TableRef => f.inode_cache[at].num = n)
    BY ZenonT(60), <1>1, AccessEffect
  <2>4. \A m \in InodeNums : CopiesIn(f, m) \subseteq CopiesIn(fs, m)
    BY <1>1, AccessFewer
  <2>5. (fs' = f /\ k = Idle) \/ Allotted(f, fs', at, n, used, InodeNumBlks)
    BY <2>2
  <2>6. f \in FsStruct
    BY <2>3 DEF OnlyInodes
  <2> HIDE DEF acc, used
  <2>7. CASE fs' = f
    <3>1. \E n1, S, B, Y : Sources(p, n1, S, B, Y)
      BY <2>3, <2>4, <2>7, FewerSources
    <3> QED
      BY <1>1, <2>1, <2>2, <3>1 DEF Advances, OnlyInodes
  <2>8. CASE Allotted(f, fs', at, n, used, InodeNumBlks)
    <3> HIDE DEF f, at
    <3>1. Derived(f, fs', n, {}, fs'.blk_bmap \ f.blk_bmap, {})
      BY <2>3, <2>6, <2>8, AllottedDerived
    <3>2. Derived(fs, fs', n, {}, fs'.blk_bmap \ f.blk_bmap, {})
      BY <2>3, <2>4, <3>1, DerivedAfter
    <3>3. Sources(p, n, {}, fs'.blk_bmap \ f.blk_bmap, {})
      BY <2>1, <2>3, <3>2 DEF Sources
    <3> QED
      BY <1>1, <2>1, <2>2, <3>3 DEF Advances, OnlyInodes
  <2> QED
    BY <2>5, <2>7, <2>8
<1>8. CASE SizeSet(p, k)
  <2> DEFINE s == j.off + j.cnt
  <2>1. j.pc = "size" /\ up' = up /\ rest' = rest /\ fs' = SetSize(fs, j.at, j.n, s)
        /\ k = [j EXCEPT !.pc = "attrs"]
    BY <1>8 DEF SizeSet
  <2>2. j.op = "write"
    BY <1>1, <2>1, StageOps, StageFacts
  <2>3. JobFits(k)
    BY <1>1, <2>1, <2>2, MovedFits, StageFacts
  <2>4. s \in Nat /\ s <= MaxSize
    BY <1>1, <1>2, <2>1 DEF JobFits
  <2>5. s \in SizeFits
    <3>1. MaxSize \in Nat /\ DentrySize \in Nat \ {0}
      BY InodesAssumption, BlockIsPage DEF MaxSize
    <3> HIDE DEF s
    <3> QED
      BY <2>4, <3>1 DEF SizeFits
  <2> HIDE DEF s
  <2>6. Resized(fs, fs', j.at, j.n, s)
    <3> DEFINE at == j.at
               n == j.n
    <3>1. at \in ISlots \cup {TableRef} /\ n \in InodeNums
      BY <1>2
    <3> HIDE DEF at, n
    <3>2. Resized(fs, SetSize(fs, at, n, s), at, n, s)
      BY <1>1, <2>4, <3>1, SetSizeEffect
    <3> QED
      BY <2>1, <3>2 DEF at, n
  <2>7. Derived(fs, fs', j.n, {s}, {}, {})
    BY <1>1, <1>2, <2>4, <2>6, ResizedDerived
  <2>8. Sources(p, j.n, {s}, {}, {})
    BY <1>2, <2>5, <2>7 DEF Sources
  <2> QED
    BY <1>1, <2>1, <2>3, <2>6, <2>8 DEF Advances, Resized, OnlyInodes
<1>9. CASE AttrsGiven(p, k)
  <2> DEFINE acc == Access(fs, j.n, now)
  <2>1. fs' = acc.fs /\ rest' = rest /\ up' \in BOOLEAN /\ k = Idle /\ j.pc = "attrs"
    BY <1>9 DEF AttrsGiven
  <2>2. OnlyInodes(fs, acc.fs) /\ acc.fs.blk_bmap = fs.blk_bmap
    BY ZenonT(60), <1>1, <1>2, AccessEffect
  <2>3. \A m \in InodeNums : CopiesIn(acc.fs, m) \subseteq CopiesIn(fs, m)
    BY <1>1, <1>2, AccessFewer
  <2>4. \E n1, S, B, Y : Sources(p, n1, S, B, Y)
    BY <2>1, <2>2, <2>3, FewerSources
  <2>5. JobFits(k)
    BY <2>1, IdleFits
  <2> HIDE DEF acc
  <2> QED
    BY <1>1, <2>1, <2>2, <2>4, <2>5 DEF Advances, OnlyInodes
<1>10. CASE Created(p, k)
  <2>1. up' = up /\ rest' = rest
    BY <1>10 DEF Created
  <2>2. fs.inode_tab \in [InodeNums -> Inode] /\ {} \subseteq Blocks
    BY <1>1, Fields
  <2>3. CASE Reserved1(p, k)
    <3>1. j.pc = "reserve" /\ k = [j EXCEPT !.pc = "entry"]
      BY <2>3 DEF Reserved1
    <3>2. JobFits(k)
      BY <1>1, <3>1, MovedFits, StageOps, StageFacts
    <3>3. /\ j.block \in Blocks /\ fs' \in FsStruct /\ fs'.inode_bmap = fs.inode_bmap
          /\ fs'.inode_cache = fs.inode_cache
          /\ fs'.blk_bmap = fs.blk_bmap \cup {j.block}
          /\ \E y \in Inode : /\ fs'.inode_tab = [fs.inode_tab EXCEPT ![j.n] = y]
                              /\ Later(fs, fs.inode_tab[j.n], y, {}, {j.block}, TRUE)
      BY <2>3, ReservedEffect
    <3>4. {j.block} \in SUBSET Blocks
      BY <3>3
    <3>5. Derived(fs, fs', j.n, {}, {j.block}, {})
      BY <1>2, <2>2, <3>3, <3>4, TableDerived
    <3>6. Sources(p, j.n, {}, {j.block}, {})
      BY <1>2, <3>1, <3>5 DEF Sources
    <3> QED
      BY <1>1, <2>1, <3>2, <3>3, <3>6 DEF Advances
  <2>4. CASE NameWritten(p, k) \/ LinkWritten(p, k)
    <3>1. (j.pc = "name" /\ k = [j EXCEPT !.pc = "link"]) \/ (j.pc = "link" /\ k = [j EXCEPT !.pc = "extend"])
      BY <2>4 DEF NameWritten, LinkWritten
    <3>2. JobFits(k)
      BY <1>1, <3>1, MovedFits, StageOps, StageFacts
    <3>3. /\ fs' \in FsStruct /\ fs'.inode_tab = fs.inode_tab /\ fs'.inode_bmap = fs.inode_bmap
          /\ fs'.blk_bmap = fs.blk_bmap /\ fs'.inode_cache = fs.inode_cache
      BY <2>4, WrittenEffect
    <3>4. \A m \in InodeNums : CopiesIn(fs', m) \subseteq CopiesIn(fs, m)
      BY <3>3 DEF CopiesIn, CachedAt
    <3>5. \E n1, S, B, Y : Sources(p, n1, S, B, Y)
      BY <3>3, <3>4, FewerSources
    <3> QED
      BY <1>1, <2>1, <3>2, <3>3, <3>5 DEF Advances
  <2>5. CASE DirExtended(p, k)
    <3> DEFINE s == fs.inode_tab[j.n].size + DentrySize
    <3>1. j.pc = "extend" /\ k = [j EXCEPT !.pc = "mark"]
      BY <2>5 DEF DirExtended
    <3>2. JobFits(k)
      BY <1>1, <3>1, MovedFits, StageOps, StageFacts
    <3>3. /\ fs' \in FsStruct /\ fs'.inode_bmap = fs.inode_bmap
          /\ fs'.inode_cache = fs.inode_cache /\ fs'.blk_bmap = fs.blk_bmap
          /\ s \in SizeFits
          /\ \E y \in Inode : /\ fs'.inode_tab = [fs.inode_tab EXCEPT ![j.n] = y]
                              /\ Later(fs, fs.inode_tab[j.n], y, {s}, {}, TRUE)
      BY <2>5, ExtendedEffect DEF SizeFits
    <3> HIDE DEF s
    <3>5. Derived(fs, fs', j.n, {s}, {}, {})
      <4>1. fs'.blk_bmap = fs.blk_bmap \cup {}
        BY <3>3
      <4> QED
        BY <1>2, <2>2, <3>3, <4>1, TableDerived
    <3>6. Sources(p, j.n, {s}, {}, {})
      BY <1>2, <3>3, <3>5 DEF Sources
    <3> QED
      BY <1>1, <2>1, <3>2, <3>3, <3>6 DEF Advances
  <2>6. CASE InodeMarked(p, k)
    <3>1. j.pc = "mark" /\ k = [j EXCEPT !.pc = "init"]
      BY <2>6 DEF InodeMarked
    <3>2. JobFits(k)
      BY <1>1, <3>1, MovedFits, StageOps, StageFacts
    <3>3. /\ fs' \in FsStruct /\ fs'.inode_tab = fs.inode_tab
          /\ fs'.blk_bmap = fs.blk_bmap /\ fs'.inode_cache = fs.inode_cache
          /\ fs'.inode_bmap = fs.inode_bmap \cup {j.new}
      BY <2>6, MarkedEffect
    <3>4. \A m \in InodeNums : CopiesIn(fs', m) \subseteq CopiesIn(fs, m)
      BY <3>3 DEF CopiesIn, CachedAt
    <3>5. \E n1, S, B, Y : Sources(p, n1, S, B, Y)
      BY <3>3, <3>4, FewerSources
    <3> QED
      BY <1>1, <2>1, <3>1, <3>2, <3>3, <3>5 DEF Advances
  <2>7. CASE InodeMade(p, k)
    <3> DEFINE x == InodeInit(j.type)
    <3>1. j.pc = "init" /\ k = Idle
      BY <2>7 DEF InodeMade
    <3>2. JobFits(k)
      BY <3>1, IdleFits
    <3>3. /\ fs' \in FsStruct /\ fs'.inode_bmap = fs.inode_bmap
          /\ fs'.inode_cache = fs.inode_cache /\ fs'.blk_bmap = fs.blk_bmap
          /\ fs'.inode_tab = [fs.inode_tab EXCEPT ![j.new] = x] /\ j.type \in {"file", "dir"}
      BY <2>7, MadeEffect
    <3> HIDE DEF x
    <3>5. Derived(fs, fs', j.new, {}, {}, {x})
      <4>1. fs'.blk_bmap = fs.blk_bmap \cup {} /\ x \in {x}
        BY <3>3
      <4> QED
        BY <1>2, <2>2, <3>3, <4>1, TableDerived
    <3>6. Sources(p, j.new, {}, {}, {x})
      BY <1>2, <3>1, <3>3, <3>5 DEF Sources, x
    <3> QED
      BY <1>1, <2>1, <3>2, <3>3, <3>6 DEF Advances
  <2> QED
    BY <1>10, <2>3, <2>4, <2>5, <2>6, <2>7 DEF Created
<1> QED
  BY <1>3, <1>4, <1>5, <1>6, <1>7, <1>8, <1>9, <1>10 DEF LeadsTo
-----------------------------------------------------------------------------
(* The jobs keep their shape.                                              *)

\* Sizes come from copies, or are new ones.
LEMMA SizesFromSources ==
    ASSUME fs \in FsStruct, SizesOK(fs), fs' \in FsStruct, NEW p, NEW n, NEW S, NEW B, NEW Y,
           Sources(p, n, S, B, Y)
    PROVE  SizesOK(fs')
<1>1. MaxSize + DentrySize \in Nat /\ 0 < MaxSize + DentrySize
  BY InodesAssumption, BlockIsPage DEF MaxSize
<1>2. \A m \in InodeNums : \A x \in CopiesIn(fs, m) : x.size < MaxSize + DentrySize
  BY DEF SizesOK, CopiesIn, CachedAt
<1>3. \A y \in Y : y.size = 0
  BY NewInode DEF Sources
<1>4. \A m \in InodeNums : \A y \in CopiesIn(fs', m) : y.size < MaxSize + DentrySize
  BY <1>1, <1>2, <1>3 DEF Sources, Derived, Later, SizeFits
<1>5. \A i \in ISlots : fs'.inode_cache[i].num \in InodeNums
  BY Fields, InodeEntryFields
<1> QED
  BY <1>4, <1>5 DEF SizesOK, CopiesIn, CachedAt

\* A step keeps the shape.
LEMMA ShapeAfter ==
    ASSUME Shape, NEW p \in Workers, NEW k, Advances(p, k), Becomes(p, k), now' \in Nat,
           left' \in 0 .. MaxRequests
    PROVE  Shape'
<1>1. fs' \in FsStruct /\ SizesOK(fs')
  BY SizesFromSources DEF Advances, Shape
<1>2. up' \in BOOLEAN /\ rest' \in Paths /\ JobFits(k)
  BY DEF Advances
<1>3. /\ DOMAIN job' = Workers /\ job' = [q \in Workers |-> job'[q]]
      /\ \A q \in Workers : job'[q] = IF q = p THEN k ELSE job[q]
  BY DEF Becomes, Shape
<1>4. \A q \in Workers : JobFits(job'[q])
  BY <1>2, <1>3 DEF Shape
<1> QED
  BY <1>1, <1>2, <1>3, <1>4 DEF Shape

\* A step of a thread leaves no race that is not recorded.
LEMMA RacesAfter ==
    ASSUME NEW p, Step(p), NEW kinds, Without(kinds)'
    PROVE  /\ Without(kinds)
           /\ "creation" \in kinds => ~CreationRace'
           /\ "block" \in kinds => ~BlockRace(p)
           /\ "pointer" \in kinds => ~PointerRace(p)
           /\ "inode" \in kinds => ~InodeRace'
           /\ "entry" \in kinds => ~EntryRace(p)
           /\ "slot" \in kinds => ~SlotRace'
           /\ "token" \in kinds => ~TokenRace'
           /\ "full" \in kinds => ~Overflow'
<1>1. races' = races \cup Interference(p) /\ races' \cap kinds = {}
  BY DEF Step, Without
<1> QED
  BY <1>1 DEF Without, Interference

\* The requests that are left.
LEMMA LeftAfter ==
    ASSUME left \in 0 .. MaxRequests, NEW p, Step(p)
    PROVE  left' \in 0 .. MaxRequests /\ now' = now
BY FileSystemConcurrentAssumption DEF Step, Start, Tokenize, Work

\* The invariant holds initially.
LEMMA ShapeInit == CInit => ShapeInv
<1> SUFFICES ASSUME CInit PROVE Shape /\ ~Overflow
  BY DEF ShapeInv
<1>1. FsInv(fs) /\ now \in Nat /\ up \in BOOLEAN
  BY InitOK DEF CInit, FileSystemInv
<1>2. fs \in FsStruct /\ BlocksInv(fs)
  BY <1>1 DEF FsInv
<1>3. ASSUME NEW m \in InodeNums, NEW x \in CopiesIn(fs, m), x \in Inode
      PROVE  x.size < MaxSize + DentrySize
  <2>1. OffsetToBlocks(x.size) <= InodeNumBlks
    BY <1>2, <1>3 DEF BlocksInv, Covered
  <2>2. x.size \in Nat
    BY <1>3, InodeFields
  <2>3. x.size <= MaxSize
    BY <2>1, <2>2, SizeByBlocks
  <2>4. MaxSize \in Nat /\ DentrySize \in Nat \ {0}
    BY InodesAssumption, BlockIsPage DEF MaxSize
  <2> QED
    BY <2>2, <2>3, <2>4
<1>4. SizesOK(fs)
  <2>1. \A n \in InodeNums : fs.inode_tab[n].size < MaxSize + DentrySize
    BY <1>2, <1>3, Fields DEF CopiesIn
  <2>2. ASSUME NEW i \in ISlots
        PROVE  fs.inode_cache[i].inode.size < MaxSize + DentrySize
    <3>1. fs.inode_cache[i].num \in InodeNums /\ fs.inode_cache[i].inode \in Inode
      BY <1>2, Fields, InodeEntryFields
    <3>2. fs.inode_cache[i].inode \in CopiesIn(fs, fs.inode_cache[i].num)
      BY DEF CopiesIn, CachedAt
    <3> QED
      BY <1>3, <3>1, <3>2
  <2> QED
    BY <2>1, <2>2 DEF SizesOK
<1>5. job = [q \in Workers |-> Idle] /\ rest = << >> /\ left = MaxRequests
  BY DEF CInit
<1>6. << >> \in Paths /\ MaxRequests \in Nat
  BY IdleFits, JobFields, FileSystemConcurrentAssumption DEF JobFits, Idle
<1>7. Shape
  BY <1>1, <1>2, <1>4, <1>5, <1>6, IdleFits DEF Shape
<1>8. \A q \in Workers : job[q].pc = "idle"
  BY <1>5, IdleFits
<1>9. ~Overflow
  BY <1>8 DEF Overflow
<1> QED
  BY <1>7, <1>9

\* A tick changes nothing but the time.
LEMMA TickShape ==
    ASSUME Shape, ~Overflow, CTick
    PROVE  Shape' /\ ~Overflow'
<1>1. fs' = fs /\ job' = job /\ rest' = rest /\ left' = left /\ races' = races /\ up' = up /\ now' \in Nat
  BY DEF CTick, Tick, Shape
<1> QED
  BY <1>1 DEF Shape, Overflow

\* Every step keeps the invariant.
LEMMA ShapeNext ==
    ASSUME ShapeInv, [CNext]_cvars
    PROVE  ShapeInv'
<1> SUFFICES ASSUME Without({"full"})'
             PROVE  Shape' /\ ~Overflow'
  BY DEF ShapeInv
<1>1. CASE UNCHANGED cvars
  BY <1>1 DEF cvars, ShapeInv, Shape, Overflow, Without
<1>2. CASE CTick
  BY <1>2, TickShape DEF ShapeInv, CTick, Without
<1>3. ASSUME NEW p \in Workers, Step(p)
      PROVE  Shape' /\ ~Overflow'
  <2>1. Without({"full"}) /\ ~Overflow'
    BY <1>3, RacesAfter
  <2>2. Shape /\ ~Overflow
    BY <2>1 DEF ShapeInv
  <2>3. PICK k : LeadsTo(p, k) /\ Becomes(p, k)
    BY <1>3, <2>2, StepLeads
  <2>4. Advances(p, k)
    BY <2>2, <2>3, StepAdvances
  <2>5. left' \in 0 .. MaxRequests /\ now' \in Nat
    BY <1>3, <2>2, LeftAfter DEF Shape
  <2> QED
    BY <2>1, <2>2, <2>3, <2>4, <2>5, ShapeAfter
<1> QED
  BY <1>1, <1>2, <1>3 DEF CNext

\* Whatever the threads do to each other, the structure and the jobs keep their shape, until
\* an entry is added to a directory without a block for it (fs.c:921-948).
THEOREM ShapeIsKept == CSpec => []ShapeInv
<1>1. ShapeInv /\ [CNext]_cvars => ShapeInv'
  BY ShapeNext
<1> QED
  BY ShapeInit, <1>1, PTL DEF CSpec

\* Every job keeps its shape, whatever other threads do to the inode, the page or the slot it
\* works on (fs.c:342-347, 655-694).
THEOREM JobsKeepTheirShape == CSpec => []JobsOK
<1>1. ShapeInv => JobsOK
  BY DEF ShapeInv, Shape, JobFits, JobsOK
<1> QED
  BY <1>1, ShapeIsKept, PTL
-----------------------------------------------------------------------------
(* Sharing.                                                                *)

\* Where the classes of steps lead.
LEMMA StageAfterSearch ==
    ASSUME Shape, NEW p \in Workers, NEW k
    PROVE  /\ SearchBegun(p, k) => k.pc \in {"idle", "token", "count"}
           /\ PageSearched(p, k) => k.pc \in {"idle", "token", "inode", "page"}
<1> DEFINE j == job[p]
<1>1. j \in Job /\ Idle.pc = "idle"
  BY IdleFits DEF Shape, JobFits
<1>2. ASSUME SearchBegun(p, k) PROVE k.pc \in {"idle", "token", "count"}
  <2>1. PICK i : Opening(p, i) /\ BegunTo(fs, i, k)
    BY <1>2 DEF SearchBegun
  <2>2. i \in Job
    BY <2>1, OpeningFits
  <2>3. ASSUME NEW n, NEW h PROVE Told(i, n).pc = "token" /\ Begun(i, h).pc = "count"
    <3>1. i = [i EXCEPT !.pc = i.pc]
      BY <2>2 DEF Job
    <3> QED
      BY <2>2 DEF Told, Begun, Searched, Job
  <2> QED
    BY <1>1, <2>1, <2>3 DEF BegunTo
<1>3. ASSUME PageSearched(p, k) PROVE k.pc \in {"idle", "token", "inode", "page"}
  <2>1. PICK page : SearchedTo(page, j, k)
    BY <1>3 DEF PageSearched
  <2>2. ASSUME NEW n PROVE Told(j, n).pc = "token" /\ Missed(j).pc = "inode" /\ NextPage(j).pc = "page"
    BY <1>1 DEF Told, Missed, NextPage, Searched, Job
  <2> QED
    BY <1>1, <2>1, <2>2 DEF SearchedTo
<1> QED
  BY <1>2, <1>3

\* Where the steps that only read lead to.
LEMMA StageAfterQuiet ==
    ASSUME Shape, NEW p \in Workers, NEW k
    PROVE  /\ Counted(job[p], k) => k.pc \in {"idle", "inode", "page"}
           /\ Missing(job[p], k) => k.pc = "load"
           /\ Loaded(job[p], k) => k.pc = "fill"
           /\ Arrived(job[p], k) => k.pc = "attrs"
           /\ InodeChosen(job[p], k) => k.pc \in {"idle", "block"}
           /\ BlockChosen(job[p], k) => k.pc \in {"idle", "entry", "reserve"}
           /\ EntryPageRead(job[p], k) => k.pc = "name"
           /\ ReadChecked(job[p], k) => k.pc \in {"idle", "read"}
           /\ Transferred(job[p], k) => k.pc \in {"idle", "read", "write", "grow"}
           /\ GrowthTested(job[p], k) => k.pc \in {"size", "attrs"}
<1> DEFINE j == job[p]
<1>1. j \in Job /\ Idle.pc = "idle"
  BY IdleFits DEF Shape, JobFits
<1>2. Counted(j, k) => k.pc \in {"idle", "inode", "page"}
  <2>1. Missed(j).pc = "inode"
    BY <1>1 DEF Missed, Searched, Job
  <2> QED
    BY <1>1, <2>1 DEF Counted, Job
<1>3. /\ Missing(j, k) => k.pc = "load"
      /\ Loaded(j, k) => k.pc = "fill"
      /\ Arrived(j, k) => k.pc = "attrs"
      /\ InodeChosen(j, k) => k.pc \in {"idle", "block"}
      /\ BlockChosen(j, k) => k.pc \in {"idle", "entry", "reserve"}
  BY <1>1 DEF Missing, Loaded, Arrived, InodeChosen, BlockChosen, Job
<1>4. /\ EntryPageRead(j, k) => k.pc = "name"
      /\ ReadChecked(j, k) => k.pc \in {"idle", "read"}
      /\ Transferred(j, k) => k.pc \in {"idle", "read", "write", "grow"}
      /\ GrowthTested(j, k) => k.pc \in {"size", "attrs"}
  BY <1>1 DEF EntryPageRead, ReadChecked, Transferred, GrowthTested, Job
<1> QED
  BY <1>2, <1>3, <1>4

\* Where the steps that change the file system lead to.
LEMMA StageAfterChange ==
    ASSUME Shape, NEW p \in Workers, NEW k
    PROVE  /\ ReadStarted(p, k) => k.pc \in {"idle", "check"}
           /\ WriteStarted(p, k) => k.pc \in {"idle", "write"}
           /\ SizeSet(p, k) => k.pc = "attrs"
           /\ AttrsGiven(p, k) => k.pc = "idle"
           /\ Reserved1(p, k) => k.pc = "entry"
           /\ NameWritten(p, k) => k.pc = "link"
           /\ LinkWritten(p, k) => k.pc = "extend"
           /\ DirExtended(p, k) => k.pc = "mark"
           /\ InodeMarked(p, k) => k.pc = "init"
           /\ InodeMade(p, k) => k.pc = "idle"
<1> DEFINE j == job[p]
<1>1. j \in Job /\ Idle.pc = "idle" /\ Idle \in Job
  BY IdleFits DEF Shape, JobFits
<1>2. ReadStarted(p, k) => k.pc \in {"idle", "check"}
  BY <1>1 DEF ReadStarted, OpenedFor, Idle
<1>3. WriteStarted(p, k) => k.pc \in {"idle", "write"}
  BY ZenonT(60), <1>1 DEF WriteStarted, OpenedForWrite, OpenedFor, Idle
<1>4. /\ SizeSet(p, k) => k.pc = "attrs"
      /\ AttrsGiven(p, k) => k.pc = "idle"
      /\ Reserved1(p, k) => k.pc = "entry"
      /\ NameWritten(p, k) => k.pc = "link"
  BY <1>1 DEF SizeSet, AttrsGiven, Reserved1, NameWritten, Job
<1>5. /\ LinkWritten(p, k) => k.pc = "extend"
      /\ DirExtended(p, k) => k.pc = "mark"
      /\ InodeMarked(p, k) => k.pc = "init"
      /\ InodeMade(p, k) => k.pc = "idle"
  BY <1>1 DEF LinkWritten, DirExtended, InodeMarked, InodeMade, Job
<1> QED
  BY <1>2, <1>3, <1>4, <1>5

\* How a creation comes to each of its stages.
LEMMA AddedFrom ==
    ASSUME Shape, NEW p \in Workers, NEW k, LeadsTo(p, k), k.pc \in AddStages
    PROVE  \/ /\ fs' = fs /\ k # Idle
              /\ InodeChosen(job[p], k) \/ BlockChosen(job[p], k) \/ EntryPageRead(job[p], k)
           \/ Reserved1(p, k) \/ NameWritten(p, k) \/ LinkWritten(p, k)
           \/ DirExtended(p, k) \/ InodeMarked(p, k)
<1>1. k.pc \notin {"idle", "token", "count", "page", "load", "fill", "inode", "attrs", "check",
                   "read", "write", "grow", "size"}
  BY StageFacts
<1>2. k # Idle
  BY <1>1, IdleFits
<1>3. ~SearchBegun(p, k) /\ ~PageSearched(p, k)
  BY <1>1, StageAfterSearch
<1>4. /\ ~ReadStarted(p, k) /\ ~WriteStarted(p, k) /\ ~SizeSet(p, k) /\ ~AttrsGiven(p, k)
      /\ ~InodeMade(p, k)
  BY <1>1, StageAfterChange
<1>5. /\ ~Counted(job[p], k) /\ ~Missing(job[p], k) /\ ~Loaded(job[p], k) /\ ~Arrived(job[p], k)
      /\ ~ReadChecked(job[p], k) /\ ~Transferred(job[p], k) /\ ~GrowthTested(job[p], k)
  BY <1>1, StageAfterQuiet
<1> QED
  BY <1>2, <1>3, <1>4, <1>5 DEF LeadsTo, Quieted, QuietMove, Created

\* A block is reserved that was free when it was chosen.
LEMMA ReservedFrom ==
    ASSUME Shape, NEW p \in Workers, NEW k, LeadsTo(p, k), k.pc = "reserve"
    PROVE  fs' = fs /\ k.block \in FreeBlocks(fs)
<1> DEFINE j == job[p]
<1>1. BlockChosen(j, k) /\ fs' = fs
  BY AddedFrom, StageAfterQuiet, StageAfterChange, StageFacts
<1>2. j \in Job /\ fs \in FsStruct /\ k # Idle
  BY IdleFits DEF Shape, JobFits
<1>3. FreeBlocks(fs) # {} /\ k = [j EXCEPT !.pc = "reserve", !.block = Lowest(FreeBlocks(fs))]
  BY <1>1, <1>2 DEF BlockChosen, Job
<1>4. k.block = Lowest(FreeBlocks(fs))
  BY <1>2, <1>3 DEF Job
<1>5. FreeBlocks(fs) \subseteq Nat
  BY Sizes DEF FreeBlocks
<1> QED
  BY <1>1, <1>3, <1>4, <1>5, LowestIn

\* No block is in two inodes or twice in one, and none that an inode names is free.
Unshared ==
    /\ \A n, m \in InodeNums : n # m =>
          \A x \in CopiesIn(fs, n), y \in CopiesIn(fs, m) : BlocksOf(x) \cap BlocksOf(y) = {}
    /\ \A n \in InodeNums : \A x \in CopiesIn(fs, n) : Distinct(x) /\ BlocksOf(x) \subseteq fs.blk_bmap

\* The block that a creation is about to mark as used is free.
Reserving == \A p \in Workers : job[p].pc = "reserve" => job[p].block \notin fs.blk_bmap

SharingInv == Without({"creation", "block", "full"}) => Unshared /\ ~CreationRace /\ Reserving
\* After a step of a thread, the job is what the step leads to.
LEMMA JobAfter ==
    ASSUME Shape, NEW p \in Workers, NEW k, Becomes(p, k)
    PROVE  \A q \in Workers : job'[q] = IF q = p THEN k ELSE job[q]
BY DEF Becomes, Shape

\* The blocks of a copy that was x.
LEMMA LaterBlocks ==
    ASSUME NEW f, NEW x, NEW y, NEW S, NEW B, NEW mine, Later(f, x, y, S, B, mine)
    PROVE  /\ BlocksOf(y) \subseteq BlocksOf(x) \cup B
           /\ ~mine => BlocksOf(y) \subseteq BlocksOf(x)
BY DEF Later, BlocksOf

\* Blocks come to one inode only, and were free before.
LEMMA UnsharedAfter ==
    ASSUME Unshared, NEW p, NEW n, NEW S, NEW B, NEW Y, Sources(p, n, S, B, Y),
           B \cap fs.blk_bmap = {}
    PROVE  Unshared'
<1>1. Derived(fs, fs', n, S, B, Y) /\ fs'.blk_bmap = fs.blk_bmap \cup B
  BY DEF Sources, Derived
<1>2. \A y \in Y : BlocksOf(y) = {} /\ Distinct(y)
  BY Sizes DEF Sources, InodeInit, BlocksOf, Distinct
<1>3. ASSUME NEW m \in InodeNums, NEW y \in CopiesIn(fs', m)
      PROVE  /\ Distinct(y)
             /\ \/ BlocksOf(y) = {}
                \/ \E x \in CopiesIn(fs, m) : BlocksOf(y) \subseteq BlocksOf(x) \cup (IF m = n THEN B ELSE {})
  <2>1. CASE m = n /\ y \in Y
    BY <1>2, <2>1
  <2>2. CASE ~(m = n /\ y \in Y)
    <3>1. PICK x \in CopiesIn(fs, m) : Later(fs, x, y, S, B, m = n)
      BY <1>1, <2>2 DEF Derived
    <3>2. Distinct(x) /\ BlocksOf(x) \subseteq fs.blk_bmap
      BY DEF Unshared
    <3>3. Distinct(y)
      BY <3>1, <3>2 DEF Later
    <3>4. BlocksOf(y) \subseteq BlocksOf(x) \cup (IF m = n THEN B ELSE {})
      BY <3>1, LaterBlocks
    <3> QED
      BY <3>3, <3>4
  <2> QED
    BY <2>1, <2>2
<1>4. ASSUME NEW m \in InodeNums, NEW y \in CopiesIn(fs', m)
      PROVE  Distinct(y) /\ BlocksOf(y) \subseteq fs'.blk_bmap
  BY <1>1, <1>3 DEF Unshared
<1>5. ASSUME NEW m \in InodeNums, NEW l \in InodeNums, m # l,
             NEW y \in CopiesIn(fs', m), NEW z \in CopiesIn(fs', l)
      PROVE  BlocksOf(y) \cap BlocksOf(z) = {}
  <2>1. CASE BlocksOf(y) = {} \/ BlocksOf(z) = {}
    BY <2>1
  <2>2. CASE BlocksOf(y) # {} /\ BlocksOf(z) # {}
    <3>1. PICK x \in CopiesIn(fs, m) : BlocksOf(y) \subseteq BlocksOf(x) \cup (IF m = n THEN B ELSE {})
      BY <1>3, <2>2
    <3>2. PICK w \in CopiesIn(fs, l) : BlocksOf(z) \subseteq BlocksOf(w) \cup (IF l = n THEN B ELSE {})
      BY <1>3, <2>2
    <3>3. BlocksOf(x) \cap BlocksOf(w) = {} /\ BlocksOf(x) \subseteq fs.blk_bmap /\ BlocksOf(w) \subseteq fs.blk_bmap
      BY <1>5 DEF Unshared
    <3> QED
      BY <1>5, <3>1, <3>2, <3>3
  <2> QED
    BY <2>1, <2>2
<1> QED
  BY <1>4, <1>5 DEF Unshared

\* A step of a thread keeps the invariant.
LEMMA SharingStep ==
    ASSUME Shape, ~Overflow, Unshared, ~CreationRace, Reserving, NEW p \in Workers,
           NEW k, LeadsTo(p, k), Becomes(p, k), ~BlockRace(p)
    PROVE  Unshared' /\ Reserving'
<1> DEFINE j == job[p]
<1>1. Advances(p, k)
  BY StepAdvances
<1>2. PICK n, S, B, Y : Sources(p, n, S, B, Y)
  BY <1>1 DEF Advances
<1>3. \/ B = {}
      \/ j.pc = "idle" /\ B \cap fs.blk_bmap = {}
      \/ j.pc = "reserve" /\ B = {j.block}
  BY <1>2 DEF Sources
<1>4. B \cap fs.blk_bmap = {}
  BY <1>3 DEF Reserving
<1>5. Unshared'
  BY <1>2, <1>4, UnsharedAfter
<1>6. \A q \in Workers : job'[q] = IF q = p THEN k ELSE job[q]
  BY JobAfter
<1>7. fs'.blk_bmap = fs.blk_bmap \cup B
  BY <1>2 DEF Sources, Derived
<1>8. ASSUME NEW q \in Workers, job'[q].pc = "reserve"
      PROVE  job'[q].block \notin fs'.blk_bmap
  <2>1. CASE q = p
    <3>1. fs' = fs /\ k.block \in FreeBlocks(fs)
      BY <1>6, <1>8, <2>1, ReservedFrom
    <3> QED
      BY <1>6, <2>1, <3>1 DEF FreeBlocks
  <2>2. CASE q # p
    <3>1. job'[q] = job[q] /\ job[q].pc = "reserve" /\ job[q].block \notin fs.blk_bmap
      BY <1>6, <1>8, <2>2 DEF Reserving
    <3>2. j.pc # "reserve"
      BY <2>2, <3>1, StageFacts DEF CreationRace
    <3>3. B = {}
      BY <1>3, <1>7, <3>1, <3>2 DEF BlockRace
    <3> QED
      BY <1>7, <3>1, <3>3
  <2> QED
    BY <2>1, <2>2
<1> QED
  BY <1>5, <1>8 DEF Reserving

\* What a run begins with: no thread works, and the structure is in order.
LEMMA CInitFacts ==
    ASSUME CInit
    PROVE  /\ FsInv(fs) /\ PagesNamed(fs) /\ up = TRUE /\ races = {} /\ rest = << >>
           /\ \A q \in Workers : job[q] = Idle
<1>1. Init
  BY DEF CInit
<1>2. FsInv(fs) /\ PagesNamed(fs)
  BY <1>1, PreparedOK DEF Init
<1> QED
  BY <1>1, <1>2 DEF CInit, Init

\* The invariant holds initially.
LEMMA SharingInit == CInit => SharingInv
<1> SUFFICES ASSUME CInit PROVE Unshared /\ ~CreationRace /\ Reserving
  BY DEF SharingInv
<1>1. BlocksInv(fs) /\ \A q \in Workers : job[q].pc = "idle"
  BY CInitFacts, IdleFits DEF FsInv
<1> QED
  BY <1>1, StageFacts DEF BlocksInv, Unshared, CreationRace, Reserving

\* Every step keeps the invariant.
LEMMA SharingNext ==
    ASSUME ShapeInv, SharingInv, [CNext]_cvars
    PROVE  SharingInv'
<1> DEFINE K == {"creation", "block", "full"}
<1> SUFFICES ASSUME Without(K)'
             PROVE  Unshared' /\ ~CreationRace' /\ Reserving'
  BY DEF SharingInv
<1>1. CASE UNCHANGED <<fs, job, races>>
  BY <1>1 DEF SharingInv, Without, Unshared, CreationRace, Reserving, CopiesIn, CachedAt
<1>2. CASE UNCHANGED cvars \/ CTick
  BY <1>1, <1>2 DEF cvars, CTick, Tick
<1>3. ASSUME NEW p \in Workers, Step(p)
      PROVE  Unshared' /\ ~CreationRace' /\ Reserving'
  <2>1. Without(K) /\ ~CreationRace' /\ ~BlockRace(p)
    BY <1>3, RacesAfter
  <2>2. Shape /\ ~Overflow
    BY <2>1 DEF ShapeInv, Without
  <2>3. PICK k : LeadsTo(p, k) /\ Becomes(p, k)
    BY <1>3, <2>2, StepLeads
  <2> QED
    BY <2>1, <2>2, <2>3, SharingStep DEF SharingInv
<1> QED
  BY <1>2, <1>3 DEF CNext

\* No block comes to two inodes, and none that an inode names is free, unless two creations
\* overlap, a write allocates within the window of a creation, or an entry is added to a
\* directory without room (fs.c:798-806, 921-935).
THEOREM OnlyRacesShareBlocks == CSpec => []SharingNeedsRace
<1>1. SharingInv => SharingNeedsRace
  BY SameCopies DEF SharingInv, Unshared, Distinct, SharingNeedsRace, BlocksNotShared
<1>2. ShapeInv /\ SharingInv /\ [CNext]_cvars => SharingInv'
  BY SharingNext
<1> QED
  BY ShapeIsKept, SharingInit, <1>1, <1>2, PTL DEF CSpec
-----------------------------------------------------------------------------
(* The end of the server.                                                  *)

\* Where a thread is before each class of step.
LEMMA StageBefore ==
    ASSUME NEW p \in Workers, NEW k, LeadsTo(p, k)
    PROVE  /\ job[p].pc = "link" => LinkWritten(p, k)
           /\ job[p].pc = "init" => InodeMade(p, k)
           /\ job[p].pc = "mark" => InodeMarked(p, k)
           /\ job[p].pc = "size" => SizeSet(p, k)
           /\ job[p].pc = "attrs" => AttrsGiven(p, k)
           /\ job[p].pc = "extend" => DirExtended(p, k)
           /\ job[p].pc = "name" => NameWritten(p, k)
           /\ job[p].pc = "reserve" => Reserved1(p, k)
<1> DEFINE j == job[p]
           rare == {"link", "init", "mark", "size", "attrs", "extend", "name", "reserve"}
<1>1. QuietMove(j, k) => j.pc \notin rare
  BY DEF QuietMove, Counted, Missing, Loaded, Arrived, InodeChosen, BlockChosen, EntryPageRead,
         ReadChecked, Transferred, GrowthTested
<1>2. SearchBegun(p, k) \/ PageSearched(p, k) \/ ReadStarted(p, k) \/ WriteStarted(p, k) => j.pc \notin rare
  BY DEF SearchBegun, Opening, PageSearched, PageAtHand, ReadStarted, WriteStarted
<1>3. /\ SizeSet(p, k) => j.pc = "size"
      /\ AttrsGiven(p, k) => j.pc = "attrs"
      /\ Reserved1(p, k) => j.pc = "reserve"
      /\ NameWritten(p, k) => j.pc = "name"
      /\ LinkWritten(p, k) => j.pc = "link"
      /\ DirExtended(p, k) => j.pc = "extend"
      /\ InodeMarked(p, k) => j.pc = "mark"
      /\ InodeMade(p, k) => j.pc = "init"
  BY DEF SizeSet, AttrsGiven, Reserved1, NameWritten, LinkWritten, DirExtended, InodeMarked, InodeMade
<1> QED
  BY <1>1, <1>2, <1>3 DEF LeadsTo, Quieted, Created

\* The inode a slot has in the cache was there before, is in use, or got its size set.
LEMMA NumsAfter ==
    ASSUME Shape, ~Overflow, NEW p \in Workers, NEW k, LeadsTo(p, k), NEW i \in ISlots
    PROVE  \/ fs'.inode_cache[i].num = fs.inode_cache[i].num
           \/ fs'.inode_cache[i].num \in fs.inode_bmap
           \/ job[p].pc = "size" /\ fs'.inode_cache[i].num = job[p].n
<1> DEFINE j == job[p]
<1>1. fs \in FsStruct /\ now \in Nat /\ JobFits(j) /\ j \in Job
  BY DEF Shape, JobFits
<1>2. j.n \in InodeNums /\ j.at \in ISlots \cup {TableRef} /\ j.off \in Nat /\ j.cnt \in Nat
  BY <1>1, JobFields, PointerTyped DEF JobFits
<1>3. ASSUME NEW n \in InodeNums
      PROVE  LET f == Access(fs, n, now).fs IN
             \/ f.inode_cache[i].num = fs.inode_cache[i].num
             \/ f.inode_cache[i].num \in fs.inode_bmap
  <2> DEFINE acc == Access(fs, n, now)
  <2>1. \/ SlotsAlike(fs, acc.fs)
        \/ n \in fs.inode_bmap /\ \E v \in ISlots : AddedAt(fs, acc.fs, n, FALSE, v)
    BY <1>1, AccessEffect
  <2> DEFINE f == acc.fs
  <2> HIDE DEF acc
  <2>2. f.inode_cache[i].num = fs.inode_cache[i].num \/ f.inode_cache[i].num \in fs.inode_bmap
    <3>1. ASSUME NEW v \in ISlots, AddedAt(fs, f, n, FALSE, v)
          PROVE  f.inode_cache[i].num = fs.inode_cache[i].num \/ f.inode_cache[i].num = n
      <4>1. f.inode_cache[v].num = n /\ \A l \in ISlots \ {v} : f.inode_cache[l] = fs.inode_cache[l]
        BY <3>1 DEF AddedAt
      <4> QED
        BY <4>1
    <3> QED
      BY <2>1, <3>1 DEF SlotsAlike
  <2> QED
    BY <2>2 DEF acc
<1>4. CASE fs'.inode_cache = fs.inode_cache
  BY <1>4
<1>5. CASE ReadStarted(p, k)
  <2>1. PICK n \in InodeNums : fs' = Access(fs, n, now).fs
    BY <1>5, RequestFields DEF ReadStarted
  <2> QED
    BY <1>3, <2>1
<1>6. CASE AttrsGiven(p, k)
  BY <1>2, <1>3, <1>6 DEF AttrsGiven
<1>7. CASE WriteStarted(p, k)
  <2>1. PICK n \in InodeNums : LET acc == Access(fs, n, now) IN
          \/ fs' = acc.fs
          \/ Allotted(acc.fs, fs', acc.at, n, OffsetToBlocks(Deref(acc.fs, acc.at, n).size), InodeNumBlks)
    BY <1>7, WriteStartedEffect
  <2> DEFINE acc == Access(fs, n, now)
             f == acc.fs
             at == acc.at
  <2>2. fs' = f \/ OnlyBehind(f, fs', at, n)
    BY <2>1 DEF Allotted
  <2>3. f.inode_cache[i].num = fs.inode_cache[i].num \/ f.inode_cache[i].num \in fs.inode_bmap
    BY <1>3
  <2> HIDE DEF f, at
  <2> QED
    BY <2>2, <2>3 DEF OnlyBehind
<1>8. CASE SizeSet(p, k)
  <2> DEFINE n == j.n
             at == j.at
             s == j.off + j.cnt
  <2>1. j.pc = "size" /\ fs' = SetSize(fs, at, n, s)
    BY <1>8 DEF SizeSet
  <2>2. n \in InodeNums /\ at \in ISlots \cup {TableRef} /\ s \in Nat
    BY <1>2
  <2> HIDE DEF n, at, s
  <2>3. Resized(fs, fs', at, n, s)
    BY <1>1, <2>1, <2>2, SetSizeEffect
  <2>4. fs'.inode_cache[i].num = fs.inode_cache[i].num \/ fs'.inode_cache[i].num = n
    BY ZenonT(60), <2>2, <2>3 DEF Resized, OnlyBehind, AddedAt
  <2> QED
    BY <2>1, <2>4 DEF n
<1>9. CASE Quieted(p, k) \/ SearchBegun(p, k) \/ PageSearched(p, k)
  <2>1. fs'.inode_cache = fs.inode_cache
    BY <1>9 DEF Quieted, SearchBegun, PageSearched, SameInodes
  <2> QED
    BY <2>1
<1>10. CASE Created(p, k)
  <2>1. fs'.inode_cache = fs.inode_cache
    BY <1>10, ReservedEffect, WrittenEffect, ExtendedEffect, MarkedEffect, MadeEffect DEF Created
  <2> QED
    BY <2>1
<1> QED
  BY <1>5, <1>6, <1>7, <1>8, <1>9, <1>10 DEF LeadsTo

\* What a step does to the pages on the disk and in the directory cache.
LEMMA PagesAfter ==
    ASSUME Shape, ~Overflow, NEW p \in Workers, NEW k, LeadsTo(p, k)
    PROVE  /\ fs'.page = fs.page \/ NameWritten(p, k) \/ LinkWritten(p, k)
           /\ \/ fs'.dir_cache = fs.dir_cache \/ SlotsSay(fs, fs')
              \/ PageSearched(p, k)
<1> DEFINE j == job[p]
<1>1. fs \in FsStruct /\ now \in Nat /\ JobFits(j) /\ j \in Job
  BY DEF Shape, JobFits
<1>2. j.n \in InodeNums /\ j.at \in ISlots \cup {TableRef} /\ j.off \in Nat /\ j.cnt \in Nat
  BY <1>1, JobFields, PointerTyped DEF JobFits
<1>3. \A n \in InodeNums : OnlyInodes(fs, Access(fs, n, now).fs)
  BY <1>1, AccessEffect
<1>4. CASE Quieted(p, k) \/ SearchBegun(p, k) \/ PageSearched(p, k)
  BY <1>4 DEF Quieted, SearchBegun, PageSearched, SameInodes
<1>5. CASE ReadStarted(p, k) \/ AttrsGiven(p, k)
  <2>1. PICK n \in InodeNums : fs' = Access(fs, n, now).fs
    BY <1>2, <1>5, RequestFields DEF ReadStarted, AttrsGiven
  <2> QED
    BY <1>3, <2>1 DEF OnlyInodes
<1>6. CASE WriteStarted(p, k)
  <2>1. OnlyInodes(fs, fs')
    BY <1>6, WriteStartedEffect
  <2> QED
    BY <2>1 DEF OnlyInodes
<1>7. CASE SizeSet(p, k)
  <2> DEFINE n == j.n
             at == j.at
             s == j.off + j.cnt
  <2>1. fs' = SetSize(fs, at, n, s)
    BY <1>7 DEF SizeSet
  <2>2. n \in InodeNums /\ at \in ISlots \cup {TableRef} /\ s \in Nat
    BY <1>2
  <2> HIDE DEF n, at, s
  <2>3. Resized(fs, fs', at, n, s)
    BY <1>1, <2>1, <2>2, SetSizeEffect
  <2> QED
    BY <2>3 DEF Resized, OnlyInodes
<1>8. CASE Created(p, k)
  BY <1>8, ReservedEffect, WrittenEffect, ExtendedEffect, MarkedEffect, MadeEffect DEF Created
<1> QED
  BY <1>4, <1>5, <1>6, <1>7, <1>8 DEF LeadsTo
\* An inode is marked as used that is still to be initialised.
InitOf(n) == \E q \in Workers : job[q].pc = "init" /\ job[q].new = n

\* An entry has a name and no inode yet.
HalfMade(b, i) == \E q \in Workers : job[q].pc = "link" /\ job[q].block = b /\ job[q].k = i

\* Inodes in use have a type, but for those that are still to be initialised.
TypesMade ==
    /\ 0 \in fs.inode_bmap
    /\ \A x \in CopiesIn(fs, 0) : x.type = "none"
    /\ \A n \in fs.inode_bmap \ {0} : \A x \in CopiesIn(fs, n) : x.type = "none" => InitOf(n)
    /\ \A i \in ISlots : fs.inode_cache[i].num \in fs.inode_bmap

\* Names lead to inodes, but for those of half made entries.
NamesLead ==
    /\ \A b \in Blocks, i \in Positions :
          fs.page[b][i].name # NoName /\ fs.page[b][i].inode = 0 => HalfMade(b, i)
    /\ \A i \in DSlots : Named(fs.dir_cache[i].entries)

\* The inode that a job ends with is one in use.
JobLeads(j, used) ==
    /\ j.pc \in {"fill", "name"} => Named(j.page)
    /\ j.pc \in AddStages => j.new # 0
    /\ j.pc \in {"token", "attrs", "write", "grow", "size"} => j.n # 0
    /\ j.pc \in {"write", "grow", "size"} => j.n \in used

ExitInv ==
    Without({"inode", "entry", "full"}) =>
        /\ up
        /\ TypesMade /\ NamesLead /\ ~InodeRace
        /\ \A p \in Workers : JobLeads(job[p], fs.inode_bmap)

\* A page on the disk that no half made entry is on.
LEMMA DiskNamed ==
    ASSUME fs \in FsStruct, NamesLead, NEW b \in Blocks \cup {0},
           \A q \in Workers : ~(job[q].pc = "link" /\ job[q].block = b)
    PROVE  Named(DiskPage(b))
<1>1. CASE b = 0
  BY <1>1 DEF DiskPage, Named, ZeroPage, NoDentry
<1>2. CASE b # 0
  <2>1. b \in Blocks /\ DiskPage(b) = fs.page[b]
    BY <1>2 DEF DiskPage
  <2>2. \A i \in Positions : ~HalfMade(b, i)
    BY DEF HalfMade
  <2> QED
    BY <2>1, <2>2 DEF NamesLead, Named
<1> QED
  BY <1>1, <1>2

\* No entry that a search finds is half made.
LEMMA SearchedLeads ==
    ASSUME Shape, NEW p \in Workers, JobLeads(job[p], fs.inode_bmap), NamesLead, NEW k,
           SearchBegun(p, k) \/ PageSearched(p, k)
    PROVE  /\ \A used : JobLeads(k, used)
           /\ PageSearched(p, k) => \A i \in DSlots : Named(fs'.dir_cache[i].entries)
<1> DEFINE j == job[p]
<1>1. j \in Job /\ JobFits(j) /\ fs \in FsStruct
  BY DEF Shape, JobFits
<1>2. NoName \notin Names
  BY DirectoriesAssumption
<1>3. CASE SearchBegun(p, k)
  <2>1. PICK i : Opening(p, i) /\ BegunTo(fs, i, k)
    BY <1>3 DEF SearchBegun
  <2>2. i \in Job /\ i.name \in Names
    BY <2>1, OpeningFits
  <2>3. ASSUME NEW s \in DSlots, NEW q \in Positions, fs.dir_cache[s].entries[q].name = i.name,
               k = Told(i, fs.dir_cache[s].entries[q].inode)
        PROVE  k.pc = "token" => k.n # 0
    <3> DEFINE n == fs.dir_cache[s].entries[q].inode
    <3>1. n # 0
      BY <1>2, <2>2, <2>3 DEF NamesLead, Named
    <3> HIDE DEF n
    <3>2. k = Told(i, n)
      BY <2>3 DEF n
    <3> QED
      BY <2>2, <3>1, <3>2 DEF Told, Searched, Job
  <2>4. k.pc \in {"idle", "token", "count"}
    BY <1>3, StageAfterSearch
  <2>5. \A h : Begun(i, h).pc = "count"
    BY <2>2 DEF Begun, Job
  <2>6. k.pc = "token" => k.n # 0
    BY <2>1, <2>3, <2>5, IdleFits DEF BegunTo
  <2>7. ~PageSearched(p, k)
    BY <2>1 DEF Opening, PageSearched, PageAtHand
  <2> QED
    BY <2>4, <2>6, <2>7, StageFacts DEF JobLeads
<1>4. CASE PageSearched(p, k)
  <2>1. PICK page \in Page : /\ PageAtHand(p, page) /\ SearchedTo(page, j, k)
                             /\ SaidFrom(fs, fs', page, Turned(j))
    BY <1>4 DEF PageSearched
  <2>2. Named(page)
    BY <2>1 DEF PageAtHand, NamesLead, JobLeads
  <2>3. j.pc \in {"page", "fill"} /\ j.name \in Names
    BY <1>1, <2>1, StageOps, StageFacts DEF PageAtHand, JobFits
  <2>4. ASSUME NEW q \in Positions, page[q].name = j.name, k = Told(j, page[q].inode)
        PROVE  k.pc = "token" => k.n # 0
    <3> DEFINE n == page[q].inode
    <3>1. n # 0
      BY <1>2, <2>2, <2>3, <2>4 DEF Named
    <3> HIDE DEF n
    <3>2. k = Told(j, n)
      BY <2>4 DEF n
    <3> QED
      BY <1>1, <3>1, <3>2 DEF Told, Searched, Job
  <2>5. k.pc \in {"idle", "token", "inode", "page"}
    BY <1>4, StageAfterSearch
  <2>6. Missed(j).pc = "inode" /\ NextPage(j).pc = "page"
    BY <1>1 DEF Missed, NextPage, Searched, Job
  <2>7. k.pc = "token" => k.n # 0
    BY <2>1, <2>4, <2>6, IdleFits DEF SearchedTo
  <2>8. ASSUME NEW i \in DSlots, NEW q \in Positions, fs'.dir_cache[i].entries[q].name # NoName
        PROVE  fs'.dir_cache[i].entries[q].inode # 0
    <3> DEFINE e == fs'.dir_cache[i].entries[q]
    <3>1. Says(fs, fs'.dir_cache[i].dir, e) \/ \E r \in Positions : page[r] = e
      BY <2>1 DEF SaidFrom
    <3>2. e.name # NoName
      BY <2>8
    <3> HIDE DEF e
    <3>3. e.inode # 0
      BY <2>2, <3>1, <3>2 DEF Says, NamesLead, Named
    <3> QED
      BY <3>3 DEF e
  <2> QED
    BY <2>5, <2>7, <2>8, StageFacts DEF JobLeads, Named
<1> QED
  BY <1>3, <1>4

\* The inode of a write that starts is in use and not 0.
LEMMA WriteLeads ==
    ASSUME Shape, NEW p \in Workers, TypesMade, NEW k, WriteStarted(p, k), k.pc # "idle"
    PROVE  k.pc = "write" /\ k.n # 0 /\ k.n \in fs.inode_bmap
<1>1. fs \in FsStruct /\ now \in Nat
  BY DEF Shape
<1>2. k # Idle
  BY IdleFits
<1>3. PICK n \in InodeNums : LET acc == Access(fs, n, now) IN
         acc.ok /\ Deref(acc.fs, acc.at, n).type = "file" /\ k.pc = "write" /\ k.n = n
  BY <1>2, WriteStartedEffect
<1> DEFINE acc == Access(fs, n, now)
           x == Deref(acc.fs, acc.at, n)
<1>4. /\ acc.at \in ISlots \cup {TableRef} /\ (acc.at # TableRef => acc.fs.inode_cache[acc.at].num = n)
      /\ CachedAt(fs, n) # {} \/ n \in fs.inode_bmap
  BY <1>1, <1>3, AccessEffect
<1>5. CopiesIn(acc.fs, n) \subseteq CopiesIn(fs, n)
  BY <1>1, AccessFewer
<1>6. n \in fs.inode_bmap
  BY <1>4 DEF CachedAt, TypesMade
<1>7. acc.ok /\ x.type = "file" /\ k.pc = "write" /\ k.n = n
  BY <1>3
<1> HIDE DEF acc
<1>8. x \in CopiesIn(acc.fs, n)
  BY <1>4 DEF CopiesIn, CachedAt, Deref
<1> HIDE DEF x
<1>9. n # 0
  BY <1>5, <1>7, <1>8 DEF TypesMade
<1> QED
  BY <1>6, <1>7, <1>9
\* A step that changes nothing but the job keeps its inode.
LEMMA QuietLeads ==
    ASSUME Shape, ~Overflow, NEW p \in Workers, JobLeads(job[p], fs.inode_bmap), TypesMade, NamesLead,
           NEW k, Quieted(p, k), Becomes(p, k), ~EntryRace(p)
    PROVE  JobLeads(k, fs.inode_bmap)
<1> DEFINE j == job[p]
<1>1. j \in Job /\ JobFits(j) /\ fs \in FsStruct /\ QuietMove(j, k) /\ fs' = fs
  BY DEF Shape, JobFits, Quieted
<1>2. JobLeads(Idle, fs.inode_bmap)
  BY IdleFits, StageFacts DEF JobLeads
<1>3. job'[p] = k
  BY JobAfter
<1>4. CASE Counted(j, k) \/ Missing(j, k) \/ ReadChecked(j, k)
  BY <1>4, StageFacts, StageAfterQuiet DEF JobLeads
<1>5. CASE Loaded(j, k)
  <2>1. j.pc = "load" /\ k = [j EXCEPT !.pc = "fill", !.page = DiskPage(j.block)]
    BY <1>5 DEF Loaded
  <2>2. k.pc = "fill" /\ k.block = j.block /\ k.page = DiskPage(j.block)
    BY <1>1, <2>1 DEF Job
  <2>3. \A q \in Workers : ~(job[q].pc = "link" /\ job[q].block = j.block)
    BY <1>3, <2>1, <2>2 DEF EntryRace
  <2>4. j.block \in Blocks \cup {0}
    BY <1>1, JobFields
  <2> DEFINE b == j.block
  <2> HIDE DEF b
  <2>5. Named(DiskPage(b))
    BY <1>1, <2>3, <2>4, DiskNamed DEF b
  <2> QED
    BY <2>2, <2>5, StageFacts DEF JobLeads, b
<1>6. CASE Arrived(j, k)
  <2>1. j.pc = "token" /\ k.pc = "attrs" /\ k.n = j.n
    BY <1>1, <1>6 DEF Arrived, Job
  <2> QED
    BY <2>1, StageFacts DEF JobLeads
<1>7. CASE InodeChosen(j, k) /\ k # Idle
  <2>1. FreeInodes(fs) # {} /\ k = [j EXCEPT !.pc = "block", !.new = Lowest(FreeInodes(fs))]
    BY <1>7 DEF InodeChosen
  <2>2. FreeInodes(fs) \subseteq Nat
    BY Sizes DEF FreeInodes
  <2>3. Lowest(FreeInodes(fs)) # 0
    BY <2>1, <2>2, LowestIn DEF FreeInodes, TypesMade
  <2>4. k.pc = "block" /\ k.new = Lowest(FreeInodes(fs))
    BY <1>1, <2>1 DEF Job
  <2> QED
    BY <2>3, <2>4 DEF JobLeads
<1>8. CASE BlockChosen(j, k) /\ k # Idle
  <2>1. k.new = j.new /\ j.pc = "block" /\ k.pc \in {"entry", "reserve"}
    BY <1>1, <1>8 DEF BlockChosen, Job
  <2> QED
    BY <2>1, StageFacts DEF JobLeads
<1>9. CASE EntryPageRead(j, k)
  <2> DEFINE x == fs.inode_tab[j.n]
             b == x.blocks[x.size \div BlockSize]
  <2>1. j.pc = "entry" /\ k.pc = "name" /\ k.block = b /\ k.page = DiskPage(b) /\ k.new = j.new
    BY <1>1, <1>9 DEF EntryPageRead, Job
  <2>2. b \in Blocks \cup {0}
    <3>1. JobFits(k)
      BY QuietFits, <1>1
    <3> QED
      BY <2>1, <3>1, JobFields DEF JobFits
  <2> HIDE DEF b
  <2>3. \A q \in Workers : ~(job[q].pc = "link" /\ job[q].block = b)
    BY <1>3, <2>1 DEF EntryRace
  <2>4. Named(DiskPage(b))
    BY <1>1, <2>2, <2>3, DiskNamed
  <2> QED
    BY <2>1, <2>4, StageFacts DEF JobLeads
<1>10. CASE Transferred(j, k) /\ k # Idle
  <2>1. k.n = j.n /\ j.pc \in {"read", "write"} /\ k.pc \in {"read", "write", "grow"}
        /\ (j.pc = "read" => k.pc = "read")
    BY <1>1, <1>10 DEF Transferred, Job
  <2> QED
    BY <2>1, StageFacts DEF JobLeads
<1>11. CASE GrowthTested(j, k)
  <2>1. k.n = j.n /\ j.pc = "grow" /\ k.pc \in {"size", "attrs"}
    BY <1>1, <1>11 DEF GrowthTested, Job
  <2> QED
    BY <2>1, StageFacts DEF JobLeads
<1> QED
  BY <1>1, <1>2, <1>4, <1>5, <1>6, <1>7, <1>8, <1>9, <1>10, <1>11 DEF QuietMove

\* Every step keeps the inode of the job in use.
LEMMA JobLeadsAfter ==
    ASSUME Shape, ~Overflow, NEW p \in Workers, JobLeads(job[p], fs.inode_bmap), TypesMade, NamesLead,
           NEW k, LeadsTo(p, k), Becomes(p, k), ~EntryRace(p)
    PROVE  JobLeads(k, fs'.inode_bmap)
<1> DEFINE j == job[p]
<1>1. j \in Job /\ fs.inode_bmap \subseteq fs'.inode_bmap
  BY StepAdvances DEF Shape, JobFits, Advances
<1>2. ASSUME JobLeads(k, fs.inode_bmap) PROVE JobLeads(k, fs'.inode_bmap)
  BY <1>1, <1>2 DEF JobLeads
<1>3. CASE Quieted(p, k)
  BY <1>2, <1>3, QuietLeads
<1>4. CASE SearchBegun(p, k) \/ PageSearched(p, k)
  BY <1>4, SearchedLeads
<1>5. CASE ReadStarted(p, k) \/ AttrsGiven(p, k)
  BY <1>5, StageAfterChange, StageFacts DEF JobLeads
<1>6. CASE WriteStarted(p, k)
  BY <1>1, <1>6, WriteLeads, StageAfterChange, StageFacts DEF JobLeads
<1>7. CASE SizeSet(p, k)
  <2>1. j.pc = "size" /\ k.pc = "attrs" /\ k.n = j.n
    BY <1>1, <1>7 DEF SizeSet, Job
  <2> QED
    BY <2>1, StageFacts DEF JobLeads
<1>8. CASE Created(p, k)
  <2>1. k.pc = "idle" \/ (k.new = j.new /\ j.pc \in AddStages /\ k.pc \in {"entry", "link", "extend", "mark", "init"})
    BY <1>1, <1>8, StageFacts, IdleFits DEF Created, Reserved1, NameWritten, LinkWritten, DirExtended,
         InodeMarked, InodeMade, Job
  <2> QED
    BY <2>1, StageFacts DEF JobLeads
<1> QED
  BY <1>3, <1>4, <1>5, <1>6, <1>7, <1>8 DEF LeadsTo

\* The inodes in use keep their types.
LEMMA TypesMadeAfter ==
    ASSUME Shape, ~Overflow, TypesMade, ~InodeRace, NEW p \in Workers, JobLeads(job[p], fs.inode_bmap),
           NEW k, LeadsTo(p, k), Becomes(p, k), ~InodeRace'
    PROVE  TypesMade'
<1> DEFINE j == job[p]
<1>0. \A q \in Workers : job'[q] = IF q = p THEN k ELSE job[q]
  BY JobAfter
<1>1. Advances(p, k) /\ j \in Job /\ JobFits(j) /\ fs \in FsStruct /\ fs' \in FsStruct
  BY StepAdvances DEF Shape, JobFits, Advances
<1>2. PICK n, S, B, Y : Sources(p, n, S, B, Y)
  BY <1>1 DEF Advances
<1>3. \A m \in InodeNums : \A y \in CopiesIn(fs', m) :
          \/ m = n /\ y \in Y
          \/ \E x \in CopiesIn(fs, m) : y.type = x.type
  BY <1>2 DEF Sources, Derived, Later
<1>4. Y = {} \/ (j.pc = "init" /\ n = j.new /\ n # 0 /\ \A y \in Y : y.type # "none")
  BY <1>2, NewInode, StageFacts DEF Sources, JobLeads
<1>5. /\ fs.inode_bmap \subseteq fs'.inode_bmap
      /\ \/ fs'.inode_bmap = fs.inode_bmap
         \/ j.pc = "mark" /\ fs'.inode_bmap = fs.inode_bmap \cup {j.new}
  BY <1>1 DEF Advances
<1>6. 0 \in fs'.inode_bmap /\ 0 \in InodeNums /\ fs.inode_bmap \subseteq InodeNums /\ fs'.inode_bmap \subseteq InodeNums
  BY <1>1, <1>5, Sizes, Fields DEF TypesMade
<1>7. \A y \in CopiesIn(fs', 0) : y.type = "none"
  BY <1>3, <1>4, <1>6 DEF TypesMade
<1>8. ASSUME NEW i \in ISlots PROVE fs'.inode_cache[i].num \in fs'.inode_bmap
  BY <1>5, NumsAfter DEF TypesMade, JobLeads
<1>9. ASSUME NEW m \in fs'.inode_bmap \ {0}, NEW y \in CopiesIn(fs', m), y.type = "none"
      PROVE  InitOf(m)'
  <2>1. CASE m \notin fs.inode_bmap
    <3>1. j.pc = "mark" /\ m = j.new
      BY <1>5, <2>1
    <3>2. InodeMarked(p, k)
      BY <3>1, StageBefore
    <3>3. k.pc = "init" /\ k.new = m
      BY <1>1, <3>1, <3>2 DEF InodeMarked, Job
    <3> QED
      BY <1>0, <3>3 DEF InitOf
  <2>2. CASE m \in fs.inode_bmap
    <3>1. PICK x \in CopiesIn(fs, m) : x.type = "none"
      BY <1>3, <1>4, <1>6, <1>9
    <3>2. PICK q \in Workers : job[q].pc = "init" /\ job[q].new = m
      BY <2>2, <3>1 DEF TypesMade, InitOf
    <3>3. CASE q # p
      BY <1>0, <3>2, <3>3 DEF InitOf
    <3>4. CASE q = p
      <4>1. InodeMade(p, k)
        BY <3>2, <3>4, StageBefore
      <4>2. CachedAt(fs, m) = {}
        BY <3>2, <3>4 DEF InodeRace
      <4>3. j.type \in {"file", "dir"} /\ fs'.inode_tab = [fs.inode_tab EXCEPT ![m] = InodeInit(j.type)]
            /\ fs'.inode_cache = fs.inode_cache
        BY <3>2, <3>4, <4>1, MadeEffect
      <4>4. fs'.inode_tab[m].type # "none"
        <5>1. fs.inode_tab \in [InodeNums -> Inode]
          BY <1>1, Fields
        <5> QED
          BY <1>6, <4>3, <5>1, NewInode
      <4>5. CopiesIn(fs', m) = {fs'.inode_tab[m]}
        BY <4>2, <4>3 DEF CopiesIn, CachedAt
      <4> QED
        BY <1>9, <4>4, <4>5
    <3> QED
      BY <3>3, <3>4
  <2> QED
    BY <2>1, <2>2
<1> QED
  BY <1>6, <1>7, <1>8, <1>9 DEF TypesMade
\* The page that the name of an entry is written to.
LEMMA NameEffect ==
    ASSUME Shape, NEW p \in Workers, NEW k, NameWritten(p, k)
    PROVE  LET j == job[p] IN
           \E new \in Page :
              /\ \A c \in Blocks : fs'.page[c] = IF c = j.block THEN new ELSE fs.page[c]
              /\ \A i \in Positions :
                    new[i] = IF i = j.k THEN [name |-> j.name, inode |-> j.page[i].inode] ELSE j.page[i]
<1> DEFINE j == job[p]
           new == [j.page EXCEPT ![j.k].name = j.name]
<1>1. j.pc = "name"
  BY DEF NameWritten
<1>2. j \in Job /\ JobFits(j) /\ j.page \in Page
  BY JobFields DEF Shape, JobFits
<1>3. j.name \in Names
  BY <1>1, <1>2, StageOps, StageFacts DEF JobFits
<1>4. new \in Page
  BY <1>2, <1>3 DEF Page, Dentry
<1>5. \A c \in Blocks : fs'.page[c] = IF c = j.block THEN new ELSE fs.page[c]
  BY <1>1, WrittenEffect
<1>6. \A i \in Positions :
         new[i] = IF i = j.k THEN [name |-> j.name, inode |-> j.page[i].inode] ELSE j.page[i]
  BY <1>2 DEF Page, Dentry
<1> HIDE DEF new
<1> QED
  BY <1>4, <1>5, <1>6

\* The page that the number of an inode is written to.
LEMMA LinkEffect ==
    ASSUME Shape, NEW p \in Workers, NEW k, LinkWritten(p, k)
    PROVE  LET j == job[p] IN
           \E new \in Page :
              /\ \A c \in Blocks : fs'.page[c] = IF c = j.block THEN new ELSE fs.page[c]
              /\ \A i \in Positions :
                    new[i] = IF i = j.k THEN [name |-> DiskPage(j.block)[i].name, inode |-> j.new]
                             ELSE DiskPage(j.block)[i]
<1> DEFINE j == job[p]
           b == j.block
           n == j.new
           old == DiskPage(b)
           new == [old EXCEPT ![j.k].inode = n]
<1>1. j.pc = "link"
  BY DEF LinkWritten
<1>2. j \in Job /\ JobFits(j) /\ fs \in FsStruct
  BY DEF Shape, JobFits
<1>3. b \in Blocks \cup {0} /\ n \in InodeNums
  BY <1>2, JobFields
<1>4. \A c \in Blocks : fs'.page[c] = IF c = b THEN new ELSE fs.page[c]
  BY <1>1, WrittenEffect
<1> HIDE DEF b, n
<1>5. old \in Page
  BY <1>2, <1>3, DiskPageTyped
<1> HIDE DEF old
<1>6. new \in Page
  BY <1>3, <1>5 DEF Page, Dentry
<1>7. \A i \in Positions :
         new[i] = IF i = j.k THEN [name |-> old[i].name, inode |-> n] ELSE old[i]
  BY <1>5 DEF Page, Dentry
<1> HIDE DEF new
<1>8. \E pg \in Page :
         /\ \A c \in Blocks : fs'.page[c] = IF c = b THEN pg ELSE fs.page[c]
         /\ \A i \in Positions : pg[i] = IF i = j.k THEN [name |-> old[i].name, inode |-> n] ELSE old[i]
  BY <1>4, <1>6, <1>7
<1> QED
  BY <1>8 DEF old, b, n

\* Entries are half made only while a creation is between its two writes.
LEMMA NamesLeadAfter ==
    ASSUME Shape, ~Overflow, NamesLead, NEW p \in Workers, JobLeads(job[p], fs.inode_bmap),
           NEW k, LeadsTo(p, k), Becomes(p, k)
    PROVE  NamesLead'
<1> DEFINE j == job[p]
<1>0. \A q \in Workers : job'[q] = IF q = p THEN k ELSE job[q]
  BY JobAfter
<1>1. j \in Job /\ JobFits(j) /\ fs \in FsStruct
  BY DEF Shape, JobFits
<1>2. ASSUME NEW i \in DSlots PROVE Named(fs'.dir_cache[i].entries)
  BY PagesAfter, SearchedLeads DEF NamesLead, SlotsSay
<1>3. ASSUME NEW b \in Blocks, NEW i \in Positions,
             fs'.page[b][i].name # NoName, fs'.page[b][i].inode = 0
      PROVE  HalfMade(b, i)'
  <2>1. CASE fs'.page[b][i] = fs.page[b][i]
    <3>1. PICK q \in Workers : job[q].pc = "link" /\ job[q].block = b /\ job[q].k = i
      BY <1>3, <2>1 DEF NamesLead, HalfMade
    <3>2. CASE q # p
      BY <1>0, <3>1, <3>2 DEF HalfMade
    <3>3. CASE q = p
      <4>1. LinkWritten(p, k)
        BY <3>1, <3>3, StageBefore
      <4>2. fs'.page[b][i] = [name |-> DiskPage(b)[i].name, inode |-> j.new]
        BY <3>1, <3>3, <4>1, LinkEffect
      <4>3. fs'.page[b][i].inode = j.new
        BY <4>2
      <4>4. j.new # 0
        BY <3>1, <3>3, StageFacts DEF JobLeads
      <4> QED
        BY <1>3, <4>3, <4>4
    <3> QED
      BY <3>2, <3>3
  <2>2. CASE fs'.page[b][i] # fs.page[b][i]
    <3>1. CASE NameWritten(p, k)
      <4>1. j.pc = "name" /\ k = [j EXCEPT !.pc = "link"]
        BY <3>1 DEF NameWritten
      <4>2. k.pc = "link" /\ k.block = j.block /\ k.k = j.k
        BY <1>1, <4>1 DEF Job
      <4>3. PICK new \in Page : /\ fs'.page[b] = IF b = j.block THEN new ELSE fs.page[b]
                                /\ i # j.k => new[i] = j.page[i]
        BY <3>1, NameEffect
      <4>4. b = j.block
        BY <2>2, <4>3
      <4>5. i = j.k
        BY <1>3, <4>1, <4>3, <4>4 DEF JobLeads, Named
      <4> QED
        BY <1>0, <4>2, <4>4, <4>5 DEF HalfMade
    <3>2. CASE LinkWritten(p, k)
      <4> DEFINE old == DiskPage(j.block)
      <4>1. j.pc = "link"
        BY <3>2 DEF LinkWritten
      <4>2. PICK new \in Page :
               /\ fs'.page[b] = IF b = j.block THEN new ELSE fs.page[b]
               /\ IF i # j.k THEN new[i] = old[i] ELSE new[i] = [name |-> old[i].name, inode |-> j.new]
        BY <3>2, LinkEffect
      <4>3. b = j.block
        BY <2>2, <4>2
      <4>4. old = fs.page[b]
        BY <4>3, Sizes DEF DiskPage, Blocks
      <4> HIDE DEF old
      <4>5. i = j.k
        BY <2>2, <4>2, <4>3, <4>4
      <4>6. j.new # 0
        BY <4>1, StageFacts DEF JobLeads
      <4> QED
        BY <1>3, <4>2, <4>3, <4>5, <4>6
    <3> QED
      BY <2>2, <3>1, <3>2, PagesAfter
  <2> QED
    BY <2>1, <2>2
<1> QED
  BY <1>2, <1>3 DEF NamesLead

\* The server goes on.
LEMMA GoesOn ==
    ASSUME Shape, TypesMade, up, NEW p \in Workers, JobLeads(job[p], fs.inode_bmap),
           NEW k, LeadsTo(p, k), Becomes(p, k), ~Overflow, ~InodeRace'
    PROVE  up'
<1> DEFINE j == job[p]
           n == j.n
           acc == Access(fs, n, now)
           x == Deref(acc.fs, acc.at, n)
<1>1. CASE j.pc # "attrs"
  BY <1>1, StepAdvances DEF Advances
<1>2. CASE j.pc = "attrs"
  <2>1. AttrsGiven(p, k)
    BY <1>2, StageBefore
  <2>2. fs' = acc.fs /\ up' = ~(acc.ok /\ x.type = "none") /\ n # 0
    BY <1>2, <2>1 DEF AttrsGiven, JobLeads
  <2>3. fs \in FsStruct /\ now \in Nat /\ n \in InodeNums
    BY JobFields DEF Shape, JobFits
  <2> HIDE DEF n
  <2>4. /\ acc.at \in ISlots \cup {TableRef} /\ (acc.at # TableRef => acc.fs.inode_cache[acc.at].num = n)
        /\ acc.ok \in BOOLEAN
        /\ acc.ok => CachedAt(fs, n) # {} \/ n \in fs.inode_bmap
        /\ \/ acc.ok => acc.at # TableRef
           \/ \E v \in ISlots : AddedAt(fs, acc.fs, n, FALSE, v)
    BY <2>3, AccessEffect
  <2>5. CopiesIn(acc.fs, n) \subseteq CopiesIn(fs, n)
    BY <2>3, AccessFewer
  <2> HIDE DEF acc
  <2>6. x \in CopiesIn(acc.fs, n)
    BY <2>4 DEF CopiesIn, CachedAt, Deref
  <2>7. ASSUME acc.ok, x.type = "none" PROVE FALSE
    <3>1. n \in fs.inode_bmap
      BY <2>4, <2>7 DEF CachedAt, TypesMade
    <3>2. PICK q \in Workers : job[q].pc = "init" /\ job[q].new = n
      BY <2>2, <2>5, <2>6, <2>7, <3>1 DEF TypesMade, InitOf
    <3>3. q # p /\ job'[q] = job[q]
      BY <1>2, <3>2, JobAfter
    <3>4. CachedAt(acc.fs, n) # {}
      BY <2>4, <2>7 DEF CachedAt, AddedAt
    <3> QED
      BY <2>2, <3>2, <3>3, <3>4 DEF InodeRace
  <2> QED
    BY <2>2, <2>7
<1> QED
  BY <1>1, <1>2

\* The invariant holds initially.
LEMMA ExitInit == CInit => ExitInv
<1> SUFFICES ASSUME CInit
             PROVE  up /\ TypesMade /\ NamesLead /\ ~InodeRace /\ \A p \in Workers : JobLeads(job[p], fs.inode_bmap)
  BY DEF ExitInv
<1>1. FsInv(fs) /\ PagesNamed(fs) /\ up = TRUE /\ \A q \in Workers : job[q] = Idle
  BY CInitFacts
<1>2. \A q \in Workers : job[q].pc = "idle"
  BY <1>1, IdleFits
<1>3. TypesMade
  <2>1. KindInv(fs) /\ CacheInv(fs)
    BY <1>1 DEF FsInv
  <2>2. ASSUME NEW n \in fs.inode_bmap, NEW x \in CopiesIn(fs, n)
        PROVE  x.type = fs.inode_tab[n].type
    BY <2>1 DEF CacheInv, SlotOK, CopiesIn, CachedAt
  <2>3. fs.inode_bmap \subseteq InodeNums
    BY <1>1, Fields DEF FsInv
  <2> QED
    BY <2>1, <2>2, <2>3 DEF TypesMade, KindInv, CacheInv, SlotOK
<1>4. NamesLead
  <2>1. ASSUME NEW i \in DSlots, NEW q \in Positions, fs.dir_cache[i].entries[q].name # NoName
        PROVE  fs.dir_cache[i].entries[q].inode # 0
    <3> DEFINE e == fs.dir_cache[i]
    <3>1. e.dir \in DirsIn(fs) /\ e.entries[q] \in EntriesIn(fs, e.dir)
      BY <1>1, <2>1 DEF FsInv, DirCacheInv
    <3> HIDE DEF e
    <3>2. PICK i1 \in 0 .. NumOf(fs.inode_tab[e.dir]) - 1 :
             e.entries[q] = PlaceIn(fs, fs.inode_tab[e.dir], i1)
      BY <3>1 DEF EntriesIn
    <3>3. PlaceIn(fs, fs.inode_tab[e.dir], i1).inode # 0
      BY <1>1, <3>1, <3>2 DEF FsInv, TreeInv
    <3>4. e.entries[q].inode # 0
      BY <3>2, <3>3
    <3> QED
      BY <3>4 DEF e
  <2> QED
    BY <1>1, <2>1 DEF NamesLead, PagesNamed, Named
<1> QED
  BY <1>1, <1>2, <1>3, <1>4, StageFacts DEF InodeRace, JobLeads

\* Every step keeps the invariant.
LEMMA ExitNext ==
    ASSUME ShapeInv, ExitInv, [CNext]_cvars
    PROVE  ExitInv'
<1> DEFINE K == {"inode", "entry", "full"}
           Goal == up /\ TypesMade /\ NamesLead /\ ~InodeRace /\ \A p \in Workers : JobLeads(job[p], fs.inode_bmap)
<1>0. Without(K) => Goal
  BY DEF ExitInv
<1> SUFFICES ASSUME Without(K)'
             PROVE  Goal'
  BY DEF ExitInv
<1>1. CASE UNCHANGED <<fs, up, job, races>>
  BY <1>0, <1>1 DEF Without, TypesMade, NamesLead, InodeRace, CopiesIn, CachedAt, InitOf, HalfMade
<1>2. CASE UNCHANGED cvars \/ CTick
  BY <1>1, <1>2 DEF cvars, CTick, Tick
<1>3. ASSUME NEW p \in Workers, Step(p)
      PROVE  Goal'
  <2>1. Without(K) /\ ~InodeRace' /\ ~EntryRace(p)
    BY <1>3, RacesAfter
  <2>2. Shape /\ ~Overflow
    BY <2>1 DEF ShapeInv, Without
  <2>3. PICK k : LeadsTo(p, k) /\ Becomes(p, k)
    BY <1>3, <2>2, StepLeads
  <2>4. up /\ TypesMade /\ NamesLead /\ ~InodeRace /\ \A q \in Workers : JobLeads(job[q], fs.inode_bmap)
    BY <1>0, <2>1
  <2>5. up' /\ TypesMade' /\ NamesLead'
    BY <2>1, <2>2, <2>3, <2>4, GoesOn, TypesMadeAfter, NamesLeadAfter
  <2>6. \A q \in Workers : JobLeads(job'[q], fs'.inode_bmap)
    <3>1. JobLeads(k, fs'.inode_bmap)
      BY <2>1, <2>2, <2>3, <2>4, JobLeadsAfter
    <3>2. fs.inode_bmap \subseteq fs'.inode_bmap
      BY <2>2, <2>3, StepAdvances DEF Advances
    <3>3. \A q \in Workers : job'[q] = IF q = p THEN k ELSE job[q]
      BY <2>2, <2>3, JobAfter
    <3> QED
      BY <2>4, <3>1, <3>2, <3>3 DEF JobLeads
  <2> QED
    BY <2>1, <2>5, <2>6
<1> QED
  BY <1>2, <1>3 DEF CNext

\* Look-ups, transfers and creations at the same time take the server down only when an inode
\* or an entry is used half made, or an entry is added to a directory without room
\* (fs.c:582-590, 939-948, snfs.c:209-213).
THEOREM OnlyRacesExit == CSpec => []ExitNeedsRace
<1>1. ExitInv => ExitNeedsRace
  BY DEF ExitInv, ExitNeedsRace
<1>2. ShapeInv /\ ExitInv /\ [CNext]_cvars => ExitInv'
  BY ExitNext
<1> QED
  BY ShapeIsKept, ExitInit, <1>1, <1>2, PTL DEF CSpec
=============================================================================
