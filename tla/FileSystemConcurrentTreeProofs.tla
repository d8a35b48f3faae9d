------------------- MODULE FileSystemConcurrentTreeProofs -------------------
(***************************************************************************)
(* What the threads of the file service keep of the files, the tree of     *)
(* directories, the cached pages and the look-ups, for any number of       *)
(* threads, requests, inodes and blocks.                                   *)
(***************************************************************************)
EXTENDS FileSystemConcurrentProofs

-----------------------------------------------------------------------------
(* Transfers, whose pointers outlive the mutex.                            *)

\* What a thread relies on that reads or writes a file through its pointer.
Pointing(f, j) ==
    j.pc \in PointerStages =>
        /\ j.at # TableRef => f.inode_cache[j.at].num = j.n
        /\ j.pc # "check" =>
              /\ f.inode_tab[j.n].type = "file"
              /\ j.at # TableRef => LET e == f.inode_cache[j.at] IN
                    /\ e.inode.type = "file"
                    /\ ~e.dirty => OffsetToBlocks(j.off + j.cnt) <= OffsetToBlocks(e.inode.size)
              /\ Fits(Deref(f, j.at, j.n), j.off + j.cnt)
        /\ j.pc \in {"read", "write"} => j.k * BlockSize < j.off + j.cnt

\* The pointer of another thread stays good unless its slot is reused or its inode overwritten.
LEMMA PointingStays ==
    ASSUME NEW f, FilesInv(f), NEW g, FilesStep(f, g), NEW j \in Job, Pointing(f, j),
           j.pc \in PointerStages =>
              /\ j.at # TableRef => g.inode_cache[j.at].num = j.n
              /\ j.at = TableRef => \A i \in Indices :
                    f.inode_tab[j.n].blocks[i] # 0 => g.inode_tab[j.n].blocks[i] # 0
    PROVE  Pointing(g, j)
<1> DEFINE e == f.inode_cache[j.at]
           h == g.inode_cache[j.at]
           s == j.off + j.cnt
<1>1. SUFFICES ASSUME j.pc \in PointerStages
               PROVE  Pointing(g, j)
  BY DEF Pointing
<1>2. j.at \in ISlots \cup {TableRef} /\ j.n \in InodeNums /\ s \in Nat
  BY PointerTyped, JobFields
<1>3. CASE j.pc = "check"
  BY <1>1, <1>3 DEF Pointing
<1>4. CASE j.pc # "check"
  <2>1. /\ f.inode_tab[j.n].type = "file" /\ Fits(Deref(f, j.at, j.n), s)
        /\ j.at # TableRef => /\ e.inode.type = "file" /\ e.num = j.n
                              /\ ~e.dirty => OffsetToBlocks(s) <= OffsetToBlocks(e.inode.size)
    BY <1>1, <1>4 DEF Pointing
  <2>2. g.inode_tab[j.n].type = "file"
    BY <1>2, <2>1 DEF FilesStep, FileStep
  <2>3. CASE j.at = TableRef
    <3>1. /\ Fits(f.inode_tab[j.n], s)
          /\ \A i \in Indices : f.inode_tab[j.n].blocks[i] # 0 => g.inode_tab[j.n].blocks[i] # 0
      <4>1. Deref(f, j.at, j.n) = f.inode_tab[j.n]
        BY <2>3 DEF Deref
      <4> HIDE DEF s
      <4> QED
        BY <1>1, <2>1, <2>3, <4>1
    <3>2. Fits(g.inode_tab[j.n], s)
      <4> HIDE DEF s
      <4> QED
        BY <3>1, FitsMore
    <3> QED
      BY <1>1, <1>4, <2>2, <2>3, <3>2 DEF Pointing, Deref
  <2>4. CASE j.at # TableRef
    <3>1. j.at \in ISlots /\ h.num = e.num
      BY <1>1, <1>2, <2>1, <2>4
    <3>2. SlotStays(f, g, j.at)
      BY <3>1 DEF FilesStep
    <3>3. /\ h.inode.type = "file"
          /\ h.dirty \/ (~e.dirty /\ h.inode.size = e.inode.size)
          /\ Fits(h.inode, s)
      <4>1. Fits(e.inode, s)
        BY <2>1, <2>4 DEF Deref
      <4> QED
        BY <1>2, <2>1, <2>4, <3>1, <3>2, <4>1 DEF SlotStays
    <3>4. ~h.dirty => OffsetToBlocks(s) <= OffsetToBlocks(h.inode.size)
      BY <2>1, <2>4, <3>3
    <3>5. g.inode_cache[j.at].num = j.n
      BY <1>1, <2>4
    <3> QED
      BY <1>1, <1>4, <2>2, <2>4, <3>3, <3>4, <3>5 DEF Pointing, Deref
  <2> QED
    BY <2>3, <2>4
<1> QED
  BY <1>3, <1>4
\* The table changes where no file is, and the new inode has blocks for its size.
LEMMA TableFiles ==
    ASSUME NEW f, FilesInv(f), NEW g \in FsStruct, g.inode_cache = f.inode_cache,
           \A n \in InodeNums :
              \/ g.inode_tab[n] = f.inode_tab[n]
              \/ /\ f.inode_tab[n].type # "file" /\ f.inode_tab[n].type \in {"none", g.inode_tab[n].type}
                 /\ Covered(g.inode_tab[n])
    PROVE  FilesInv(g) /\ \A j \in Job : Pointing(f, j) => Pointing(g, j)
<1>1. \A i \in ISlots : LET e == f.inode_cache[i] IN
          e.num \in InodeNums /\ e.dirty \in BOOLEAN
  BY Fields, InodeEntryFields DEF FilesInv
<1>2. KindsCached(g)
  <2>1. ASSUME NEW i \in ISlots
        PROVE  /\ g.inode_cache[i].inode.type \in {"none", g.inode_tab[g.inode_cache[i].num].type}
               /\ g.inode_cache[i].dirty => g.inode_cache[i].inode.type = "file"
    BY <1>1 DEF FilesInv, KindsCached
  <2> QED
    BY <2>1 DEF KindsCached
<1>3. \A n : CachedAt(g, n) = CachedAt(f, n)
  BY DEF CachedAt
<1>4. \A n \in InodeNums : g.inode_tab[n] = f.inode_tab[n] => CopiesIn(g, n) = CopiesIn(f, n)
  BY <1>3 DEF CopiesIn
<1>5. Covers(g)
  <2>1. ASSUME NEW n \in InodeNums, NEW x \in CopiesIn(g, n)
        PROVE  Covered(x)
    <3>1. x \in CopiesIn(f, n) \/ Covered(x)
      BY <1>3, <2>1 DEF CopiesIn
    <3> QED
      BY <3>1 DEF FilesInv, Covers
  <2> QED
    BY <2>1 DEF Covers
<1>6. CleanFits(g)
  <2>1. ASSUME NEW i \in ISlots, ~f.inode_cache[i].dirty, f.inode_cache[i].inode.type = "file",
               NEW x \in CopiesIn(g, f.inode_cache[i].num)
        PROVE  Fits(x, f.inode_cache[i].inode.size)
    <3>1. f.inode_tab[f.inode_cache[i].num].type = "file"
      BY <2>1 DEF FilesInv, KindsCached
    <3>2. x \in CopiesIn(f, f.inode_cache[i].num)
      BY <1>1, <1>4, <2>1, <3>1
    <3> QED
      BY <2>1, <3>2 DEF FilesInv, CleanFits
  <2> QED
    BY <2>1 DEF CleanFits
<1>7. ASSUME NEW j \in Job, Pointing(f, j)
      PROVE  Pointing(g, j)
  <2>1. j.n \in InodeNums
    BY JobFields
  <2>2. CASE j.pc \in PointerStages /\ j.pc # "check"
    <3>1. f.inode_tab[j.n].type = "file"
      BY <1>7, <2>2 DEF Pointing
    <3>2. g.inode_tab[j.n] = f.inode_tab[j.n]
      BY <2>1, <3>1
    <3>3. Deref(g, j.at, j.n) = Deref(f, j.at, j.n)
      BY <3>2 DEF Deref
    <3> QED
      BY <1>7, <2>2, <3>2, <3>3 DEF Pointing
  <2>3. CASE ~(j.pc \in PointerStages /\ j.pc # "check")
    BY <1>7, <2>3 DEF Pointing
  <2> QED
    BY <2>2, <2>3
<1> QED
  BY <1>2, <1>5, <1>6, <1>7 DEF FilesInv

\* What a pointer leads to is a file, has blocks for its size, and the size of a clean copy fits.
LEMMA BehindFits ==
    ASSUME NEW f, FilesInv(f), NEW n \in InodeNums, NEW at \in ISlots \cup {TableRef},
           at # TableRef => f.inode_cache[at].num = n, Deref(f, at, n).type = "file"
    PROVE  /\ f.inode_tab[n].type = "file"
           /\ Fits(Deref(f, at, n), Deref(f, at, n).size)
<1> DEFINE x == Deref(f, at, n)
<1>1. x \in CopiesIn(f, n)
  BY DEF Deref, CopiesIn, CachedAt
<1>2. at = TableRef => x = f.inode_tab[n]
  BY DEF Deref
<1>3. at # TableRef => at \in ISlots /\ x = f.inode_cache[at].inode
  BY DEF Deref
<1> HIDE DEF x
<1>4. f.inode_tab[n].type = "file"
  BY <1>2, <1>3 DEF FilesInv, KindsCached, x
<1>5. Fits(x, x.size)
  BY <1>1 DEF FilesInv, Covers, Covered, Fits
<1> QED
  BY <1>4, <1>5 DEF x

\* A thread that reads the inode, or takes the next block, can go on.
LEMMA QuietPointing ==
    ASSUME Shape, FilesInv(fs), NEW p \in Workers, Pointing(fs, job[p]), NEW k, QuietMove(job[p], k),
           JobFits(k)
    PROVE  Pointing(fs, k)
<1> DEFINE j == job[p]
<1>1. j \in Job /\ JobFits(j) /\ k \in Job
  BY DEF Shape, JobFits
<1>2. j.at \in ISlots \cup {TableRef} /\ j.n \in InodeNums /\ j.off \in Nat /\ j.cnt \in Nat /\ j.k \in Nat
  BY <1>1, JobFields, PointerTyped
<1>3. CASE ReadChecked(j, k) /\ k # Idle
  <2> DEFINE x == Deref(fs, j.at, j.n)
             m == MinOf(j.cnt, x.size - j.off)
             d == j.off \div BlockSize
  <2>1. /\ j.pc = "check" /\ x.type = "file" /\ j.off < x.size
        /\ k = [j EXCEPT !.pc = "read", !.k = d, !.cnt = m]
    BY <1>3 DEF ReadChecked
  <2>2. /\ k.pc = "read" /\ k.k = d /\ k.cnt = m /\ k.at = j.at /\ k.n = j.n /\ k.off = j.off
    <3> HIDE DEF m, d, j
    <3> QED
      BY <1>1, <2>1 DEF Job
  <2>3. j.at # TableRef => fs.inode_cache[j.at].num = j.n
    BY <2>1, StageFacts DEF Pointing
  <2>4. fs.inode_tab[j.n].type = "file" /\ Fits(x, x.size)
    BY <1>2, <2>1, <2>3, BehindFits
  <2>5. x \in Inode /\ x.size \in Nat
    BY <1>2, DerefTyped, InodeFields DEF Shape
  <2>6. j.cnt > 0
    BY <1>1, <2>1, StageOps DEF JobFits
  <2>7. m \in Nat /\ m > 0 /\ j.off + m <= x.size
    BY <1>2, <2>1, <2>5, <2>6 DEF MinOf
  <2>8. d \in Nat /\ d * BlockSize <= j.off
    <3>1. BlockSize \in Nat \ {0}
      BY InodesAssumption
    <3>2. d \in Nat /\ j.off = d * BlockSize + (j.off % BlockSize) /\ j.off % BlockSize \in 0 .. BlockSize - 1
      BY <1>2, <3>1, DivRange, DivMod
    <3>3. d * BlockSize \in Nat
      BY <3>1, <3>2
    <3> HIDE DEF d
    <3> QED
      BY <3>2, <3>3
  <2> DEFINE s == j.off + m
  <2>9. s \in Nat /\ OffsetToBlocks(s) <= OffsetToBlocks(x.size)
    BY <1>2, <2>5, <2>7, CeilMono
  <2>10. Fits(x, s)
    <3> HIDE DEF x, s
    <3> QED
      BY <2>4, <2>5, <2>9, FitsLess
  <2>11. d * BlockSize < s
    <3>1. d * BlockSize \in Nat
      BY <2>8, InodesAssumption
    <3> HIDE DEF m, d
    <3> QED
      BY <1>2, <2>7, <2>8, <3>1
  <2>12. j.at # TableRef => x = fs.inode_cache[j.at].inode
    BY DEF Deref
  <2>13. k.off + k.cnt = s
    BY <2>2
  <2> HIDE DEF x, m, d, s
  <2> QED
    BY <2>1, <2>2, <2>3, <2>4, <2>9, <2>10, <2>11, <2>12, <2>13 DEF Pointing, x
<1>4. CASE Transferred(j, k) /\ k # Idle
  <2>1. /\ j.pc \in {"read", "write"}
        /\ \/ ~LastBlock(j) /\ k = [j EXCEPT !.k = @ + 1]
           \/ k = [j EXCEPT !.pc = "grow"]
    BY <1>4 DEF Transferred
  <2>2. /\ k.at = j.at /\ k.n = j.n /\ k.off = j.off /\ k.cnt = j.cnt
        /\ k.pc = "grow" \/ (k.pc = j.pc /\ k.k = j.k + 1 /\ ~LastBlock(j))
    <3> HIDE DEF j
    <3> QED
      BY <1>1, <2>1 DEF Job
  <2>3. k.pc # "grow" => k.k * BlockSize < j.off + j.cnt
    <3>1. (j.k + 1) * BlockSize \in Nat
      BY <1>2, InodesAssumption
    <3> QED
      BY <1>2, <2>2, <3>1 DEF LastBlock
  <2>4. j.pc \in PointerStages /\ j.pc # "check" /\ k.pc # "check"
    BY <2>1, <2>2, StageFacts
  <2> HIDE DEF j
  <2> QED
    BY <2>2, <2>3, <2>4 DEF Pointing, j
<1>5. CASE GrowthTested(j, k)
  <2>1. j.pc = "grow" /\ (k = [j EXCEPT !.pc = "size"] \/ k = [j EXCEPT !.pc = "attrs"])
    BY <1>5 DEF GrowthTested
  <2>2. /\ k.at = j.at /\ k.n = j.n /\ k.off = j.off /\ k.cnt = j.cnt
        /\ k.pc \in {"size", "attrs"}
    <3> HIDE DEF j
    <3> QED
      BY <1>1, <2>1 DEF Job
  <2> HIDE DEF j
  <2> QED
    BY <2>1, <2>2, StageFacts DEF Pointing, j
<1>6. CASE k.pc \notin PointerStages
  BY <1>6 DEF Pointing
<1>7. k.pc \in PointerStages => k # Idle /\ (ReadChecked(j, k) \/ Transferred(j, k) \/ GrowthTested(j, k))
  BY StageAfterQuiet, StageFacts, IdleFits DEF QuietMove
<1> QED
  BY <1>3, <1>4, <1>5, <1>6, <1>7
\* Getting an inode and reserving blocks for a write.
LEMMA WriteFiles ==
    ASSUME Shape, FilesInv(fs), NEW p \in Workers, NEW k, WriteStarted(p, k)
    PROVE  FilesStep(fs, fs') /\ Pointing(fs', k)
<1>1. fs \in FsStruct /\ now \in Nat
  BY DEF Shape
<1>2. PICK n \in InodeNums : LET acc == Access(fs, n, now) IN
              /\ fs' \in FsStruct /\ OnlyInodes(fs, fs')
              /\ \/ fs' = acc.fs /\ k = Idle
                 \/ LET old == Deref(acc.fs, acc.at, n)
                        used == OffsetToBlocks(old.size)
                    IN /\ acc.ok /\ old.type = "file"
                       /\ Allotted(acc.fs, fs', acc.at, n, used, InodeNumBlks)
                       /\ acc.at # TableRef =>
                             fs'.inode_cache[acc.at].dirty = acc.fs.inode_cache[acc.at].dirty \/ fs'.inode_cache[acc.at].dirty
                       /\ \/ k = Idle
                          \/ LET need == OffsetToBlocks(k.off + k.cnt) IN
                             /\ k.pc = "write" /\ k.op = "write" /\ k.n = n /\ k.at = acc.at
                             /\ k.hit = DirCacheSize
                             /\ k.off <= old.size /\ k.k = k.off \div BlockSize
                             /\ need <= InodeNumBlks
                             /\ \A j \in Indices : used <= j /\ j < need => Deref(fs', acc.at, n).blocks[j] # 0
                             /\ acc.at # TableRef /\ ~fs'.inode_cache[acc.at].dirty => need <= used
              /\ JobFits(k)
  BY WriteStartedEffect
<1> DEFINE acc == Access(fs, n, now)
           f == acc.fs
           at == acc.at
           old == Deref(f, at, n)
           new == Deref(fs', at, n)
           used == OffsetToBlocks(old.size)
           s == k.off + k.cnt
           need == OffsetToBlocks(s)
<1>3. /\ OnlyInodes(fs, f) /\ at \in ISlots \cup {TableRef} /\ FilesStep(fs, f)
      /\ at # TableRef => f.inode_cache[at].num = n
  BY <1>1, AccessEffect, AccessFiles
<1>4. CASE fs' = f /\ k = Idle
  BY <1>3, <1>4, IdleFits, StageFacts DEF Pointing
<1>5. CASE ~(fs' = f /\ k = Idle)
  <2>1. /\ old.type = "file" /\ Allotted(f, fs', at, n, used, InodeNumBlks)
        /\ at # TableRef => fs'.inode_cache[at].dirty = f.inode_cache[at].dirty \/ fs'.inode_cache[at].dirty
        /\ \/ k = Idle
           \/ /\ k.pc = "write" /\ k.op = "write" /\ k.n = n /\ k.at = at
              /\ k.off <= old.size /\ k.k = k.off \div BlockSize
              /\ need <= InodeNumBlks
              /\ \A j \in Indices : used <= j /\ j < need => new.blocks[j] # 0
              /\ at # TableRef /\ ~fs'.inode_cache[at].dirty => need <= used
    BY <1>2, <1>5
  <2>2. JobFits(k) /\ k \in Job
    BY <1>2 DEF JobFits
  <2> HIDE DEF acc
  <2>3. FilesInv(f)
    BY <1>3 DEF FilesStep
  <2>4. FilesStep(f, fs')
    BY <1>3, <2>1, <2>3, AllottedFiles
  <2>5. /\ OnlyBehind(f, fs', at, n) /\ new.type = old.type /\ new.size = old.size
        /\ \A j \in Indices :
             \/ new.blocks[j] = old.blocks[j]
             \/ used <= j /\ j < InodeNumBlks /\ new.blocks[j] \in fs'.blk_bmap \ f.blk_bmap
    BY <2>1 DEF Allotted
  <2>6. \A i \in ISlots : fs'.inode_cache[i].num = f.inode_cache[i].num
    <3> HIDE DEF f, at
    <3> QED
      BY <1>3, <2>5 DEF OnlyBehind
  <2>7. FilesStep(fs, fs')
    BY <1>3, <2>4, <2>6, FilesStepOn
  <2>8. CASE k = Idle
    BY <2>7, <2>8, IdleFits, StageFacts DEF Pointing
  <2>9. CASE k # Idle
    <3>1. /\ at # TableRef => fs'.inode_cache[at].num = n
          /\ FilesInv(fs')
      BY <1>3, <2>4, <2>6 DEF FilesStep
    <3>2. fs'.inode_tab[n].type = "file" /\ Fits(new, new.size)
      BY <1>3, <2>1, <2>5, <3>1, BehindFits
    <3>3. /\ new.size \in Nat /\ k.off \in Nat /\ k.cnt \in Nat /\ k.cnt > 0 /\ s \in Nat
      <4>1. new \in Inode
        BY <1>2, <1>3, DerefTyped
      <4>2. k.op = "write"
        BY <2>1, <2>9
      <4> QED
        BY <2>2, <4>1, <4>2, InodeFields, JobFields DEF JobFits
    <3>4. used \in Nat /\ need \in Nat /\ used = OffsetToBlocks(new.size)
      BY <2>5, <3>3, CeilLess
    <3>5. Fits(new, s)
      <4>1. /\ need <= InodeNumBlks
            /\ \A j \in Indices : used <= j /\ j < need => new.blocks[j] # 0
        BY <2>1, <2>9
      <4>2. \A j \in Indices : j < used => new.blocks[j] # 0
        BY <3>2, <3>4 DEF Fits
      <4> HIDE DEF new, used
      <4> QED
        BY <3>4, <4>1, <4>2, Sizes DEF Fits
    <3>6. at # TableRef /\ ~fs'.inode_cache[at].dirty => OffsetToBlocks(s) <= OffsetToBlocks(new.size)
      BY <2>1, <2>9, <3>4
    <3>7. k.k * BlockSize < s
      <4> DEFINE o == k.off
      <4>0. k.k = o \div BlockSize
        BY <2>1, <2>9
      <4>1. BlockSize \in Nat \ {0}
        BY InodesAssumption
      <4>2. k.k \in Nat /\ o = k.k * BlockSize + (o % BlockSize) /\ o % BlockSize \in 0 .. BlockSize - 1
        BY <3>3, <4>0, <4>1, DivRange, DivMod
      <4>3. k.k * BlockSize \in Nat
        BY <4>1, <4>2
      <4> QED
        BY <3>3, <4>2, <4>3
    <3>8. k.pc = "write" /\ k.n = n /\ k.at = at
      BY <2>1, <2>9
    <3>9. at # TableRef => new = fs'.inode_cache[at].inode
      BY DEF Deref
    <3>10. Pointing(fs', k)
      <4>1. new.type = "file"
        BY <2>1, <2>5
      <4> HIDE DEF at, s
      <4> QED
        BY <3>1, <3>2, <3>5, <3>6, <3>7, <3>8, <3>9, <4>1 DEF Pointing, s
    <3> QED
      BY <2>7, <3>10
  <2> QED
    BY <2>8, <2>9
<1> QED
  BY <1>4, <1>5

\* The sections with the mutex that change inodes.
Changed(p, k) == ReadStarted(p, k) \/ WriteStarted(p, k) \/ SizeSet(p, k) \/ AttrsGiven(p, k)

\* They keep what pointers rely on, and the pointer that the thread goes on with is good.
LEMMA ChangedFiles ==
    ASSUME Shape, FilesInv(fs), NEW p \in Workers, Pointing(fs, job[p]), NEW k, Changed(p, k)
    PROVE  FilesStep(fs, fs') /\ Pointing(fs', k)
<1> DEFINE j == job[p]
<1>1. fs \in FsStruct /\ now \in Nat /\ j \in Job
  BY DEF Shape, JobFits
<1>2. j.at \in ISlots \cup {TableRef} /\ j.n \in InodeNums /\ j.off \in Nat /\ j.cnt \in Nat
  BY <1>1, JobFields, PointerTyped
<1>3. CASE ReadStarted(p, k)
  <2>1. PICK n \in InodeNums : LET acc == Access(fs, n, now) IN
              /\ fs' = acc.fs
              /\ k = Idle \/ (/\ acc.ok /\ k.pc = "check" /\ k.op = "read" /\ k.n = n /\ k.at = acc.at
                              /\ k.hit = DirCacheSize)
    BY <1>3, ReadStartedEffect
  <2> DEFINE acc == Access(fs, n, now)
  <2>2. FilesStep(fs, acc.fs) /\ (acc.at # TableRef => acc.fs.inode_cache[acc.at].num = n)
    BY <1>1, AccessFiles, AccessEffect
  <2>3. fs' = acc.fs /\ (k = Idle \/ (k.pc = "check" /\ k.n = n /\ k.at = acc.at))
    BY <2>1
  <2> HIDE DEF acc
  <2> QED
    BY <2>2, <2>3, IdleFits, StageFacts DEF Pointing
<1>4. CASE WriteStarted(p, k)
  BY <1>4, WriteFiles
<1>5. CASE AttrsGiven(p, k)
  BY <1>1, <1>2, <1>5, AccessFiles, IdleFits, StageFacts DEF AttrsGiven, Pointing
<1>6. CASE SizeSet(p, k)
  <2> DEFINE n == j.n
             at == j.at
             s == j.off + j.cnt
  <2>1. j.pc = "size" /\ fs' = SetSize(fs, at, n, s)
    BY <1>6 DEF SizeSet
  <2>2. n \in InodeNums /\ at \in ISlots \cup {TableRef} /\ s \in Nat
    BY <1>2
  <2>3. /\ at # TableRef => fs.inode_cache[at].num = n
        /\ fs.inode_tab[n].type = "file"
        /\ at # TableRef => fs.inode_cache[at].inode.type = "file"
        /\ Fits(Deref(fs, at, n), s)
    BY <2>1, StageFacts DEF Pointing
  <2>4. Deref(fs, at, n).type = "file"
    BY <2>3 DEF Deref
  <2> HIDE DEF n, at, s
  <2>5. Resized(fs, fs', at, n, s)
    BY <1>1, <2>1, <2>2, SetSizeEffect
  <2>6. FilesStep(fs, fs')
    BY <2>2, <2>3, <2>4, <2>5, ResizedFiles
  <2>7. k.pc = "attrs"
    BY <1>6, StageAfterChange
  <2> QED
    BY <2>6, <2>7, StageFacts DEF Pointing
<1> QED
  BY <1>3, <1>4, <1>5, <1>6 DEF Changed
-----------------------------------------------------------------------------
(* The tree, when a creation is cut into steps.  From the step on that a   *)
(* thread goes to write its entry, the finished creation is kept as a      *)
(* value g of the structure that satisfies the invariant of FileSystem,    *)
(* with the entry in the last place of the directory, and the structure f  *)
(* of the threads is compared with it.  The caches and the files of g do   *)
(* not matter.                                                             *)

LateStages == {"entry", "name", "link", "extend", "mark", "init"}
GrowingStages == {"entry", "name", "link", "extend"}

\* The last place of directory n.
LastOf(g, n) == NumOf(g.inode_tab[n]) - 1
LastPageOf(g, n) == g.inode_tab[n].blocks[LastOf(g, n) \div DirPageEntries]
LastPositionOf(g, n) == LastOf(g, n) % DirPageEntries

SameKind(f, g, m) ==
    /\ f.inode_tab[m].type = g.inode_tab[m].type
    /\ f.inode_tab[m].type = "dir" => f.inode_tab[m] = g.inode_tab[m]

\* No creation is between its entry and its inode.
Settled(f, g) ==
    /\ f.inode_bmap = g.inode_bmap
    /\ \A c \in Blocks, i \in Positions : f.page[c][i] = g.page[c][i]
    /\ \A m \in InodeNums : SameKind(f, g, m)

\* Directories and pages are those of g but for what the creation has not done yet.
Adds(f, g, j) ==
    LET n == j.n
        b == LastPageOf(g, n)
        q == LastPositionOf(g, n)
        e == [name |-> j.name, inode |-> j.new]
    IN /\ n \in DirsIn(g) /\ NumOf(g.inode_tab[n]) > 0
       /\ j.new \in g.inode_bmap \ {0, Root, n}
       /\ g.inode_tab[j.new] = InodeInit(j.type)
       /\ g.page[b][q] = e
       /\ f.inode_tab[n].type = "dir"
       /\ \A i \in Indices : f.inode_tab[n].blocks[i] = g.inode_tab[n].blocks[i]
       /\ f.inode_tab[n].size = IF j.pc \in GrowingStages THEN LastOf(g, n) * DentrySize
                                                          ELSE g.inode_tab[n].size
       /\ f.inode_tab[j.new].type = "none"
       /\ \A m \in InodeNums \ {n, j.new} : SameKind(f, g, m)
       /\ j.pc = "init" => f.inode_bmap = g.inode_bmap
       /\ j.pc # "init" => j.new \notin f.inode_bmap /\ g.inode_bmap = f.inode_bmap \cup {j.new}
       /\ \A c \in Blocks, i \in Positions : c # b \/ i # q => f.page[c][i] = g.page[c][i]
       /\ j.pc \in {"entry", "name"} => f.page[b][q] = NoDentry
       /\ j.pc = "link" => f.page[b][q] = [name |-> j.name, inode |-> 0]
       /\ j.pc \in {"extend", "mark", "init"} => f.page[b][q] = e
       /\ j.pc \in {"name", "link"} => j.block = b /\ j.k = q
       /\ j.pc = "name" => \A i \in Positions : j.page[i] = f.page[b][i]

Skeleton(f, g, js) ==
    /\ f \in FsStruct /\ FsInv(g) /\ g.blk_bmap \subseteq f.blk_bmap
    /\ \A q \in Workers : js[q].pc \in LateStages => Adds(f, g, js[q])
    /\ (\A q \in Workers : js[q].pc \notin LateStages) => Settled(f, g)

\* What a creation has found before.
Planned(f, j) ==
    /\ j.pc \in SearchStages \cup {"inode", "block", "reserve"} => f.inode_tab[j.n].type = "dir"
    /\ j.pc \in {"block", "reserve"} => j.new \in FreeInodes(f)
    /\ j.pc = "reserve" => NeedsBlock(f.inode_tab[j.n])

\* Directories, pages and the bitmap of inodes stay.
DirsStay(f, h) ==
    /\ h \in FsStruct
    /\ h.page = f.page /\ h.inode_bmap = f.inode_bmap /\ f.blk_bmap \subseteq h.blk_bmap
    /\ \A m \in InodeNums : SameKind(f, h, m)

\* Steps that leave directories alone.
LEMMA DirsStayFrom ==
    ASSUME NEW f, NEW h, f \in FsStruct, SameInodes(f, h) \/ FilesStep(f, h)
    PROVE  DirsStay(f, h)
BY DEF SameInodes, FilesStep, FileStep, DirsStay, SameKind

\* They do not matter for a creation.
LEMMA DirsStayKeeps ==
    ASSUME NEW f, NEW h, DirsStay(f, h), NEW g
    PROVE  /\ Settled(f, g) => Settled(h, g)
           /\ \A j \in Job : Adds(f, g, j) => Adds(h, g, j)
           /\ \A j \in Job : Planned(f, j) => Planned(h, j)
<1>1. \A m \in InodeNums : SameKind(f, g, m) => SameKind(h, g, m)
  BY DEF DirsStay, SameKind
<1>2. \A m \in InodeNums : /\ h.inode_tab[m].type = f.inode_tab[m].type
                           /\ f.inode_tab[m].type = "dir" => h.inode_tab[m] = f.inode_tab[m]
  BY DEF DirsStay, SameKind
<1>3. h.page = f.page /\ h.inode_bmap = f.inode_bmap
  BY DEF DirsStay
<1>4. Settled(f, g) => Settled(h, g)
  BY <1>1, <1>3 DEF Settled
<1>5. ASSUME NEW j \in Job, Adds(f, g, j)
      PROVE  Adds(h, g, j)
  <2>1. j.n \in InodeNums /\ j.new \in InodeNums
    BY JobFields
  <2>2. h.inode_tab[j.n] = f.inode_tab[j.n] /\ h.inode_tab[j.new].type = f.inode_tab[j.new].type
    BY <1>2, <1>5, <2>1 DEF Adds
  <2> QED
    BY <1>1, <1>3, <1>5, <2>2 DEF Adds
<1>6. ASSUME NEW j \in Job, Planned(f, j)
      PROVE  Planned(h, j)
  <2>1. j.n \in InodeNums
    BY JobFields
  <2> QED
    BY <1>2, <1>3, <1>6, <2>1 DEF Planned, FreeInodes
<1> QED
  BY <1>4, <1>5, <1>6

\* The block and the position of the last entry, and its offset.
LEMMA LastPlace ==
    ASSUME NEW g, FsInv(g), NEW n \in DirsIn(g), NumOf(g.inode_tab[n]) > 0
    PROVE  LET num == LastOf(g, n)
               b == LastPageOf(g, n)
               q == LastPositionOf(g, n)
               s == num * DentrySize
           IN /\ num \in Nat /\ NumOf(g.inode_tab[n]) = num + 1 /\ g.inode_tab[n].size = (num + 1) * DentrySize
              /\ num \div DirPageEntries \in Indices
              /\ b \in Blocks /\ q \in Positions
              /\ s \in Nat /\ s < MaxSize /\ s \div DentrySize = num
              /\ s + DentrySize = (num + 1) * DentrySize
              /\ s \div BlockSize = num \div DirPageEntries
              /\ (s % BlockSize) \div DentrySize = q
<1> DEFINE num == LastOf(g, n)
           len == NumOf(g.inode_tab[n])
           D == DirPageEntries
           Z == DentrySize
           N == InodeNumBlks
           k == num \div D
           s == num * Z
<1>1. len \in Nat /\ g.inode_tab[n].size = len * Z
  BY DirFacts
<1>2. num \in Nat /\ len = num + 1
  BY <1>1 DEF LastOf
<1>3. num \in 0 .. len - 1
  <2> HIDE DEF num, len
  <2> QED
    BY <1>1, <1>2
<1>4. k \in Indices /\ LastPageOf(g, n) \in Blocks /\ LastPositionOf(g, n) \in Positions
  BY <1>3, PlaceFacts DEF LastPageOf, LastPositionOf
<1>5. /\ s \in Nat /\ s \div Z = num /\ s \div BlockSize = num \div D
      /\ (s % BlockSize) \div Z = num % D
  BY <1>2, EntrySlot
<1>6. Z \in Nat \ {0} /\ D \in Nat \ {0} /\ BlockSize = Z * D /\ N \in Nat
  BY BlockIsPage, InodesAssumption
<1>7. s + Z = (num + 1) * Z
  <2> HIDE DEF num, Z
  <2> QED
    BY <1>2, <1>6
<1>8. s < N * BlockSize
  <2>1. k \in Nat /\ k < N
    BY <1>4, <1>6 DEF Indices
  <2>2. num = k * D + (num % D) /\ num % D \in 0 .. D - 1
    BY <1>2, <1>6, DivMod, DivRange
  <2> DEFINE r == num % D
  <2> HIDE DEF num, k, r, D, Z, N
  <2>3. k * D + D <= N * D
    BY <1>6, <2>1, MulLess
  <2>4. k * D \in Nat /\ N * D \in Nat
    BY <1>6, <2>1
  <2>5. num < N * D
    BY <1>6, <2>2, <2>3, <2>4 DEF r
  <2>6. num * Z + Z <= (N * D) * Z
    BY <1>2, <1>6, <2>4, <2>5, MulLess
  <2>7. (N * D) * Z = N * BlockSize
    BY <1>6
  <2>8. (N * D) * Z \in Nat
    BY <1>6, <2>4
  <2> QED
    BY <1>5, <1>6, <2>6, <2>7, <2>8 DEF s
<1> QED
  BY <1>1, <1>2, <1>4, <1>5, <1>7, <1>8 DEF MaxSize, LastPositionOf
\* A directory that gets an entry has room for it.
LEMMA RoomLeft ==
    ASSUME NEW f, NEW g, NEW js, Skeleton(f, g, js),
           \A q \in Workers : js[q] \in Job /\ Planned(f, js[q]),
           \A p, q \in Workers : p # q => ~({js[p].pc, js[q].pc} \subseteq AddStages)
    PROVE  \A q \in Workers : js[q].pc \in {"reserve", "entry", "extend"} =>
               ~(f.inode_tab[js[q].n].size >= InodeNumBlks * BlockSize)
<1> SUFFICES ASSUME NEW q \in Workers, js[q].pc \in {"reserve", "entry", "extend"}
             PROVE  ~(f.inode_tab[js[q].n].size >= MaxSize)
  BY DEF MaxSize
<1> DEFINE j == js[q]
           n == j.n
<1>1. FsInv(g) /\ f \in FsStruct /\ n \in InodeNums /\ j.new \in InodeNums
  BY JobFields DEF Skeleton
<1>2. MaxSize \in Nat
  BY InodesAssumption DEF MaxSize
<1>3. CASE j.pc = "reserve"
  <2>1. \A r \in Workers : js[r].pc \notin LateStages
    BY <1>3, StageFacts DEF LateStages
  <2>2. Settled(f, g)
    BY <2>1 DEF Skeleton
  <2>3. f.inode_tab[n].type = "dir" /\ j.new \in FreeInodes(f)
    BY <1>3 DEF Planned
  <2>4. f.inode_tab[n] = g.inode_tab[n] /\ n \in DirsIn(g) /\ FreeInodes(g) # {}
    BY <1>1, <2>2, <2>3 DEF Settled, SameKind, DirsIn, FreeInodes
  <2> DEFINE num == NumOf(g.inode_tab[n])
             D == DirPageEntries
             Z == DentrySize
             N == InodeNumBlks
  <2>5. num \in Nat /\ g.inode_tab[n].size = num * Z /\ num < N * D
    BY <1>1, <2>4, DirFacts, NumBound
  <2>6. Z \in Nat \ {0} /\ D \in Nat \ {0} /\ BlockSize = Z * D /\ N \in Nat
    BY BlockIsPage, InodesAssumption
  <2> HIDE DEF num, D, Z, N
  <2>7. N * D \in Nat
    BY <2>6
  <2>8. num * Z + Z <= (N * D) * Z
    BY <2>5, <2>6, <2>7, MulLess
  <2>9. (N * D) * Z = N * BlockSize /\ num * Z \in Nat /\ (N * D) * Z \in Nat
    BY <2>5, <2>6, <2>7
  <2>10. num * Z < MaxSize
    BY <2>6, <2>8, <2>9 DEF MaxSize, N
  <2> QED
    BY <1>2, <2>4, <2>5, <2>9, <2>10
<1>4. CASE j.pc \in {"entry", "extend"}
  <2>1. Adds(f, g, j)
    BY <1>4 DEF Skeleton, LateStages
  <2>2. n \in DirsIn(g) /\ NumOf(g.inode_tab[n]) > 0
        /\ f.inode_tab[n].size = LastOf(g, n) * DentrySize
    BY <1>4, <2>1 DEF Adds, GrowingStages
  <2>3. LastOf(g, n) * DentrySize \in Nat /\ LastOf(g, n) * DentrySize < MaxSize
    BY <1>1, <2>2, LastPlace
  <2> QED
    BY <1>2, <2>2, <2>3
<1> QED
  BY <1>3, <1>4

\* Structure h is f with block b for the next entry of directory n.
BlockTaken(f, h, n, b) ==
    LET num == NumOf(f.inode_tab[n])
        k == num \div DirPageEntries
        p == num % DirPageEntries
    IN /\ (p = 0 => b \notin f.blk_bmap) /\ (p # 0 => b = f.inode_tab[n].blocks[k])
       /\ h.inode_tab[n].type = "dir" /\ h.inode_tab[n].size = f.inode_tab[n].size
       /\ \A i \in Indices :
              h.inode_tab[n].blocks[i] = IF i = k THEN b ELSE f.inode_tab[n].blocks[i]
       /\ \A m \in InodeNums \ {n} : h.inode_tab[m] = f.inode_tab[m]
       /\ h.page = f.page /\ h.inode_bmap = f.inode_bmap /\ h.blk_bmap = f.blk_bmap \cup {b}

\* From a settled structure: the new entry goes behind the last one, into block b.
LEMMA CreationBegins ==
    ASSUME NEW f \in FsStruct, NEW g, FsInv(g), Settled(f, g), g.blk_bmap \subseteq f.blk_bmap,
           NEW j \in Job, j.pc = "entry", j.name \in Names, j.type \in {"file", "dir"},
           j.new \in FreeInodes(f), f.inode_tab[j.n].type = "dir",
           NEW b \in Blocks, NEW h, BlockTaken(f, h, j.n, b)
    PROVE  \E g2 : /\ FsInv(g2) /\ g2.blk_bmap \subseteq h.blk_bmap /\ Adds(h, g2, j)
                   /\ EntryAdded(g, g2, j.n, j.new, j.type, [name |-> j.name, inode |-> j.new], b)
<1> DEFINE n == j.n
           new == j.new
           type == j.type
           e == [name |-> j.name, inode |-> new]
           x == g.inode_tab[n]
           num == NumOf(x)
           k == num \div DirPageEntries
           p == num % DirPageEntries
           size == (num + 1) * DentrySize
           y == [type |-> "dir", size |-> size, blocks |-> [i \in Indices |-> IF i = k THEN b ELSE x.blocks[i]]]
           T == [m \in InodeNums |-> IF m = n THEN y ELSE IF m = new THEN InodeInit(type) ELSE g.inode_tab[m]]
           P == [c \in Blocks |-> [i \in Positions |-> IF c = b /\ i = p THEN e ELSE g.page[c][i]]]
           I == g.inode_bmap \cup {new}
           B == g.blk_bmap \cup {b}
           g2 == [g EXCEPT !.inode_tab = T, !.page = P, !.inode_bmap = I, !.blk_bmap = B]
<1>0. /\ NumOf(f.inode_tab[j.n]) % DirPageEntries = 0 => b \notin f.blk_bmap
      /\ NumOf(f.inode_tab[j.n]) % DirPageEntries # 0 =>
             b = f.inode_tab[j.n].blocks[NumOf(f.inode_tab[j.n]) \div DirPageEntries]
      /\ h.inode_tab[j.n].type = "dir" /\ h.inode_tab[j.n].size = f.inode_tab[j.n].size
      /\ \A i \in Indices : h.inode_tab[j.n].blocks[i] =
              IF i = NumOf(f.inode_tab[j.n]) \div DirPageEntries THEN b ELSE f.inode_tab[j.n].blocks[i]
      /\ \A m \in InodeNums \ {j.n} : h.inode_tab[m] = f.inode_tab[m]
      /\ h.page = f.page /\ h.inode_bmap = f.inode_bmap /\ h.blk_bmap = f.blk_bmap \cup {b}
  BY DEF BlockTaken
<1> USE <1>0
<1>1. /\ n \in InodeNums /\ new \in InodeNums /\ g \in FsStruct /\ type \in {"dir", "file"}
      /\ f.inode_bmap = g.inode_bmap /\ f.inode_tab[n] = x
      /\ n \in DirsIn(g) /\ new \in FreeInodes(g)
  BY JobFields DEF FsInv, Settled, SameKind, DirsIn, FreeInodes
<1>2. /\ n \in g.inode_bmap /\ x \in Inode /\ num \in Nat /\ x.size = num * DentrySize
      /\ num < InodeNumBlks * DirPageEntries
  BY <1>1, DirFacts, NumBound
<1>3. /\ k \in Indices /\ p \in Positions /\ num = k * DirPageEntries + p
  <2> HIDE DEF num
  <2> QED
    BY <1>2, NextPlace
<1>4. /\ p = 0 => b \notin f.blk_bmap
      /\ p # 0 => b = x.blocks[k]
      /\ \A i \in Indices : h.inode_tab[n].blocks[i] = IF i = k THEN b ELSE x.blocks[i]
  BY <1>1
<1>5. e \in Dentry /\ e.name = j.name /\ e.inode = new /\ size \in Nat /\ InodeInit(type) \in Inode
      /\ InodeInit(type).type = type
  BY <1>1, <1>2, BlockIsPage, NewInode DEF Dentry
<1>6. new # n /\ new # 0 /\ new # Root /\ new \notin g.inode_bmap /\ g.inode_tab[new].type = "none"
  BY <1>1, <1>2 DEF FreeInodes, FsInv, KindInv
<1>7. /\ g.inode_tab \in [InodeNums -> Inode] /\ g.page \in [Blocks -> Page]
      /\ g.inode_bmap \subseteq InodeNums /\ g.blk_bmap \subseteq Blocks
  BY <1>1, Fields
<1> HIDE DEF size, k, p, e
<1>8. /\ y \in Inode /\ y.type = "dir" /\ y.size = size
      /\ \A i \in Indices : y.blocks[i] = IF i = k THEN b ELSE x.blocks[i]
  BY <1>2, <1>5 DEF Inode
<1> HIDE DEF y
<1>9. /\ T \in [InodeNums -> Inode] /\ T[n] = y /\ T[new] = InodeInit(type)
      /\ \A m \in InodeNums \ {n, new} : T[m] = g.inode_tab[m]
  <2> HIDE DEF n, new, type
  <2> QED
    BY <1>1, <1>5, <1>6, <1>7, <1>8
<1>10. /\ P \in [Blocks -> Page] /\ P[b][p] = e
       /\ \A c \in Blocks, i \in Positions : c # b \/ i # p => P[c][i] = g.page[c][i]
  BY <1>3, <1>5, <1>7 DEF Page
<1>11. I \subseteq InodeNums /\ B \subseteq Blocks /\ I = g.inode_bmap \cup {new} /\ B = g.blk_bmap \cup {b}
  BY <1>1, <1>7
<1> HIDE DEF T, P, I, B
<1>12. /\ g2 \in FsStruct /\ g2.inode_tab = T /\ g2.page = P /\ g2.inode_bmap = I /\ g2.blk_bmap = B
       /\ g2.inode_cache = g.inode_cache /\ g2.dir_cache = g.dir_cache
  BY <1>1, <1>9, <1>10, <1>11 DEF FsStruct
<1> HIDE DEF g2
<1>13. EntryAdded(g, g2, n, new, type, e, b)
  <2>1. /\ p = 0 => b \notin g.blk_bmap
        /\ p # 0 => b = x.blocks[k]
    BY <1>4
  <2>2. /\ g2.inode_tab[n].type = "dir" /\ g2.inode_tab[n].size = (num + 1) * DentrySize
        /\ \A i \in Indices : g2.inode_tab[n].blocks[i] = IF i = k THEN b ELSE x.blocks[i]
    BY <1>8, <1>9, <1>12 DEF size
  <2>3. /\ g2.inode_tab[new] = InodeInit(type)
        /\ \A m \in InodeNums \ {n, new} : g2.inode_tab[m] = g.inode_tab[m]
    BY <1>9, <1>12
  <2>4. /\ g2.inode_bmap = g.inode_bmap \cup {new} /\ g2.blk_bmap = g.blk_bmap \cup {b}
        /\ g2.inode_cache = g.inode_cache /\ g2.dir_cache = g.dir_cache /\ g2 \in FsStruct
    BY <1>11, <1>12
  <2>5. g2.page[b][p] = e /\ \A c \in Blocks, i \in Positions : c # b \/ i # p => g2.page[c][i] = g.page[c][i]
    BY <1>10, <1>12
  <2> HIDE DEF x, n, new, type
  <2> QED
    BY <1>3, <2>1, <2>2, <2>3, <2>4, <2>5 DEF EntryAdded, k, p, num, x
<1>14. FsInv(g2)
  BY <1>1, <1>5, <1>13, EntryAddedKeeps DEF Reaches
<1>15. /\ n \in DirsIn(g2) /\ NumOf(g2.inode_tab[n]) = num + 1
  BY <1>1, <1>13, AddedPlaces
<1>16. LastOf(g2, n) = num /\ LastPositionOf(g2, n) = p /\ LastPageOf(g2, n) = b
  <2>1. LastOf(g2, n) = num
    <3> HIDE DEF num
    <3> QED
      BY <1>2, <1>15 DEF LastOf
  <2> QED
    BY <1>3, <1>8, <1>9, <1>12, <2>1 DEF LastPositionOf, LastPageOf, k, p
<1>17. b \in Blocks /\ g.page[b][p] = NoDentry
  <2>1. CASE p = 0
    <3>1. g.page[b] = ZeroPage
      BY <1>4, <2>1 DEF FsInv, PagesInv
    <3> QED
      BY <1>3, <3>1 DEF ZeroPage
  <2>2. CASE p # 0
    <3>1. b = x.blocks[k] /\ x.blocks[k] # 0
      BY <1>4, <2>2, Sizes
    <3>2. k * DirPageEntries + p >= num
      <4>1. k * DirPageEntries + p = num
        BY <1>3
      <4> HIDE DEF num
      <4> QED
        BY <1>2, <4>1
    <3>3. x.blocks[k] # 0 /\ k * DirPageEntries + p >= NumOf(x) => g.page[x.blocks[k]][p] = NoDentry
      BY <1>1, <1>3 DEF FsInv, PagesInv
    <3> QED
      BY <3>1, <3>2, <3>3
  <2> QED
    BY <2>1, <2>2
<1>18. Adds(h, g2, j)
  <2>1. n \in DirsIn(g2) /\ NumOf(g2.inode_tab[n]) > 0
    <3> HIDE DEF num, n
    <3> QED
      BY <1>2, <1>15
  <2>2. /\ new \in g2.inode_bmap \ {0, Root, n}
        /\ g2.inode_tab[new] = InodeInit(type)
        /\ g2.page[b][p] = e
    BY <1>6, <1>9, <1>10, <1>11, <1>12
  <2>3. /\ h.inode_tab[n].type = "dir"
        /\ \A i \in Indices : h.inode_tab[n].blocks[i] = g2.inode_tab[n].blocks[i]
    BY <1>4, <1>8, <1>9, <1>12
  <2>4. h.inode_tab[n].size = num * DentrySize
    BY <1>1, <1>2
  <2>5. h.inode_tab[new].type = "none"
    BY <1>1, <1>6 DEF Settled, SameKind
  <2>6. \A m \in InodeNums \ {n, new} : SameKind(h, g2, m)
    BY <1>9, <1>12 DEF Settled, SameKind
  <2>7. new \notin h.inode_bmap /\ g2.inode_bmap = h.inode_bmap \cup {new}
    BY <1>1, <1>6, <1>11, <1>12
  <2>8. \A c \in Blocks, i \in Positions : c # b \/ i # p => h.page[c][i] = g2.page[c][i]
    BY <1>10, <1>12 DEF Settled
  <2>9. h.page[b][p] = NoDentry
    BY <1>3, <1>17 DEF Settled
  <2>10. j.pc = "entry"
    OBVIOUS
  <2> HIDE DEF num
  <2> QED
    BY <1>16, <2>1, <2>2, <2>3, <2>4, <2>5, <2>6, <2>7, <2>8, <2>9, <2>10 DEF Adds, GrowingStages, e
<1>19. g2.blk_bmap \subseteq h.blk_bmap
  BY <1>11, <1>12
<1> QED
  BY <1>13, <1>14, <1>18, <1>19 DEF e
\* The two halves of what a creation has still to write.
AddsInodes(f, g, j) ==
    /\ j.n \in DirsIn(g) /\ NumOf(g.inode_tab[j.n]) > 0
    /\ j.new \in g.inode_bmap \ {0, Root, j.n}
    /\ g.inode_tab[j.new] = InodeInit(j.type)
    /\ f.inode_tab[j.n].type = "dir"
    /\ \A i \in Indices : f.inode_tab[j.n].blocks[i] = g.inode_tab[j.n].blocks[i]
    /\ f.inode_tab[j.n].size = IF j.pc \in GrowingStages THEN LastOf(g, j.n) * DentrySize
                                                         ELSE g.inode_tab[j.n].size
    /\ f.inode_tab[j.new].type = "none"
    /\ \A m \in InodeNums \ {j.n, j.new} : SameKind(f, g, m)
    /\ j.pc = "init" => f.inode_bmap = g.inode_bmap
    /\ j.pc # "init" => j.new \notin f.inode_bmap /\ g.inode_bmap = f.inode_bmap \cup {j.new}

AddsPage(f, g, j) ==
    LET b == LastPageOf(g, j.n)
        q == LastPositionOf(g, j.n)
        e == [name |-> j.name, inode |-> j.new]
    IN /\ g.page[b][q] = e
       /\ \A c \in Blocks, i \in Positions : c # b \/ i # q => f.page[c][i] = g.page[c][i]
       /\ j.pc \in {"entry", "name"} => f.page[b][q] = NoDentry
       /\ j.pc = "link" => f.page[b][q] = [name |-> j.name, inode |-> 0]
       /\ j.pc \in {"extend", "mark", "init"} => f.page[b][q] = e
       /\ j.pc \in {"name", "link"} => j.block = b /\ j.k = q
       /\ j.pc = "name" => \A i \in Positions : j.page[i] = f.page[b][i]

\* Together they are all of it.
LEMMA AddsHalves ==
    ASSUME NEW f, NEW g, NEW j, Adds(f, g, j)
    PROVE  AddsInodes(f, g, j) /\ AddsPage(f, g, j)
<1>1. AddsInodes(f, g, j)
  BY DEF Adds, AddsInodes
<1>2. AddsPage(f, g, j)
  BY DEF Adds, AddsPage
<1> QED
  BY <1>1, <1>2

\* The halves make it whole.
LEMMA AddsWhole ==
    ASSUME NEW f, NEW g, NEW j, AddsInodes(f, g, j), AddsPage(f, g, j)
    PROVE  Adds(f, g, j)
BY DEF Adds, AddsInodes, AddsPage

\* While the entry is written the inodes stay.
LEMMA InodesAsBefore ==
    ASSUME NEW f, NEW g, NEW j, AddsInodes(f, g, j), j.pc \in GrowingStages,
           NEW h, h.inode_tab = f.inode_tab, h.inode_bmap = f.inode_bmap,
           NEW k, k.n = j.n, k.new = j.new, k.type = j.type, k.pc \in GrowingStages
    PROVE  AddsInodes(h, g, k)
<1>1. j.pc # "init" /\ k.pc # "init"
  BY DEF GrowingStages
<1>2. \A m \in InodeNums \ {j.n, j.new} : SameKind(h, g, m)
  BY DEF AddsInodes, SameKind
<1> QED
  BY <1>1, <1>2 DEF AddsInodes

\* Once the entry is there the page stays.
LEMMA PageAsBefore ==
    ASSUME NEW f, NEW g, NEW j, AddsPage(f, g, j), j.pc \in {"extend", "mark", "init"},
           NEW h, h.page = f.page,
           NEW k, k.n = j.n, k.new = j.new, k.name = j.name, k.pc \in {"extend", "mark", "init"}
    PROVE  AddsPage(h, g, k)
BY DEF AddsPage

\* The page is read that the entry goes into.
LEMMA EntryRead ==
    ASSUME Shape, NEW g, FsInv(g), NEW p \in Workers, Adds(fs, g, job[p]), NEW k, EntryPageRead(job[p], k)
    PROVE  Adds(fs, g, k)
<1> DEFINE j == job[p]
           n == j.n
           x == fs.inode_tab[n]
           b == LastPageOf(g, n)
           q == LastPositionOf(g, n)
           c == x.blocks[x.size \div BlockSize]
           r == (x.size % BlockSize) \div DentrySize
           page == DiskPage(c)
<1>1. j \in Job /\ j.pc = "entry" /\ k = [j EXCEPT !.pc = "name", !.block = c, !.page = page, !.k = r]
  BY DEF Shape, JobFits, EntryPageRead
<1>2. /\ n \in DirsIn(g) /\ NumOf(g.inode_tab[n]) > 0
      /\ x.size = LastOf(g, n) * DentrySize
      /\ \A i \in Indices : x.blocks[i] = g.inode_tab[n].blocks[i]
  BY <1>1 DEF Adds, GrowingStages
<1>3. /\ LastOf(g, n) \div DirPageEntries \in Indices /\ b \in Blocks /\ q \in Positions
      /\ x.size \div BlockSize = LastOf(g, n) \div DirPageEntries
      /\ r = q
  BY <1>2, LastPlace
<1>4. c = b
  BY <1>2, <1>3 DEF LastPageOf
<1>5. page = fs.page[b]
  BY <1>3, <1>4, Sizes DEF DiskPage
<1> HIDE DEF c, r, page
<1>6. /\ k.pc = "name" /\ k.block = b /\ k.page = fs.page[b] /\ k.k = q
      /\ k.n = n /\ k.new = j.new /\ k.name = j.name /\ k.type = j.type
  <2> HIDE DEF b, q, j
  <2> QED
    BY <1>1, <1>3, <1>4, <1>5 DEF Job
<1>7. k.pc \in GrowingStages /\ j.pc \in GrowingStages
  BY <1>1, <1>6 DEF GrowingStages
<1>8. fs.page[b][q] = NoDentry
  BY <1>1 DEF Adds
<1> HIDE DEF x, j
<1>9. AddsInodes(fs, g, j) /\ AddsPage(fs, g, j)
  BY AddsHalves DEF j
<1>10. AddsInodes(fs, g, k)
  BY <1>6, <1>7, <1>9, InodesAsBefore
<1>11. AddsPage(fs, g, k)
  BY <1>6, <1>8, <1>9 DEF AddsPage
<1> QED
  BY <1>10, <1>11, AddsWhole

\* The name arrives on the page.
LEMMA NameAdds ==
    ASSUME Shape, NEW g, FsInv(g), NEW p \in Workers, Adds(fs, g, job[p]), NEW k, NameWritten(p, k)
    PROVE  Adds(fs', g, k)
<1> DEFINE j == job[p]
           n == j.n
           b == LastPageOf(g, n)
           q == LastPositionOf(g, n)
<1>1. j \in Job /\ j.pc = "name" /\ k = [j EXCEPT !.pc = "link"]
  BY DEF Shape, JobFits, NameWritten
<1>2. /\ k.pc = "link" /\ k.n = n /\ k.new = j.new /\ k.name = j.name /\ k.type = j.type
      /\ k.block = j.block /\ k.k = j.k
  <2> HIDE DEF j
  <2> QED
    BY <1>1, Moved, StageFacts
<1>3. /\ n \in DirsIn(g) /\ NumOf(g.inode_tab[n]) > 0
      /\ j.block = b /\ j.k = q /\ fs.page[b][q] = NoDentry
      /\ \A i \in Positions : j.page[i] = fs.page[b][i]
  BY <1>1 DEF Adds
<1>4. b \in Blocks /\ q \in Positions
  BY <1>3, LastPlace
<1>5. PICK new \in Page :
              /\ \A c \in Blocks : fs'.page[c] = IF c = j.block THEN new ELSE fs.page[c]
              /\ \A i \in Positions :
                    new[i] = IF i = j.k THEN [name |-> j.name, inode |-> j.page[i].inode] ELSE j.page[i]
  BY NameEffect
<1>6. /\ fs'.inode_tab = fs.inode_tab /\ fs'.inode_bmap = fs.inode_bmap
  BY WrittenEffect
<1>7. fs'.page[b][q] = [name |-> j.name, inode |-> 0]
  BY <1>3, <1>4, <1>5 DEF NoDentry
<1>8. ASSUME NEW c \in Blocks, NEW i \in Positions, c # b \/ i # q
      PROVE  fs'.page[c][i] = fs.page[c][i]
  <2>1. CASE c # b
    BY <1>3, <1>5, <2>1
  <2>2. CASE c = b
    <3>1. fs'.page[c] = new /\ i # j.k
      BY <1>8, <1>3, <1>5, <2>2
    <3>2. new[i] = j.page[i]
      BY <1>5, <3>1
    <3> QED
      BY <1>3, <2>2, <3>1, <3>2
  <2> QED
    BY <2>1, <2>2
<1>10. AddsInodes(fs, g, j) /\ AddsPage(fs, g, j)
  BY AddsHalves
<1>11. k.pc \in GrowingStages /\ j.pc \in GrowingStages
  BY <1>1, <1>2 DEF GrowingStages
<1> HIDE DEF j
<1>12. AddsInodes(fs', g, k)
  BY <1>2, <1>6, <1>10, <1>11, InodesAsBefore
<1>13. AddsPage(fs', g, k)
  BY <1>2, <1>3, <1>7, <1>8, <1>10 DEF AddsPage
<1> QED
  BY <1>12, <1>13, AddsWhole

\* The number arrives on the page.
LEMMA LinkAdds ==
    ASSUME Shape, NEW g, FsInv(g), NEW p \in Workers, Adds(fs, g, job[p]), NEW k, LinkWritten(p, k)
    PROVE  Adds(fs', g, k)
<1> DEFINE j == job[p]
           n == j.n
           b == LastPageOf(g, n)
           q == LastPositionOf(g, n)
<1>1. j \in Job /\ j.pc = "link" /\ k = [j EXCEPT !.pc = "extend"]
  BY DEF Shape, JobFits, LinkWritten
<1>2. /\ k.pc = "extend" /\ k.n = n /\ k.new = j.new /\ k.name = j.name /\ k.type = j.type
  <2> HIDE DEF j
  <2> QED
    BY <1>1, Moved, StageFacts
<1>3. /\ n \in DirsIn(g) /\ NumOf(g.inode_tab[n]) > 0
      /\ j.block = b /\ j.k = q /\ fs.page[b][q] = [name |-> j.name, inode |-> 0]
  BY <1>1 DEF Adds
<1>4. b \in Blocks /\ q \in Positions
  BY <1>3, LastPlace
<1>5. PICK new \in Page :
              /\ \A c \in Blocks : fs'.page[c] = IF c = j.block THEN new ELSE fs.page[c]
              /\ \A i \in Positions :
                    new[i] = IF i = j.k THEN [name |-> DiskPage(j.block)[i].name, inode |-> j.new]
                             ELSE DiskPage(j.block)[i]
  BY LinkEffect
<1>6. /\ fs'.inode_tab = fs.inode_tab /\ fs'.inode_bmap = fs.inode_bmap
  BY WrittenEffect
<1>7. DiskPage(j.block) = fs.page[b]
  BY <1>3, <1>4, Sizes DEF DiskPage
<1>8. fs'.page[b][q] = [name |-> j.name, inode |-> j.new]
  BY <1>3, <1>4, <1>5, <1>7
<1>9. ASSUME NEW c \in Blocks, NEW i \in Positions, c # b \/ i # q
      PROVE  fs'.page[c][i] = fs.page[c][i]
  <2>1. CASE c # b
    BY <1>3, <1>5, <2>1
  <2>2. CASE c = b
    <3>1. fs'.page[c] = new /\ i # j.k
      BY <1>9, <1>3, <1>5, <2>2
    <3>2. new[i] = DiskPage(j.block)[i]
      BY <1>5, <3>1
    <3> QED
      BY <1>7, <2>2, <3>1, <3>2
  <2> QED
    BY <2>1, <2>2
<1>10. AddsInodes(fs, g, j) /\ AddsPage(fs, g, j)
  BY AddsHalves
<1>11. k.pc \in GrowingStages /\ j.pc \in GrowingStages
  BY <1>1, <1>2 DEF GrowingStages
<1> HIDE DEF j
<1>12. AddsInodes(fs', g, k)
  BY <1>2, <1>6, <1>10, <1>11, InodesAsBefore
<1>13. AddsPage(fs', g, k)
  BY <1>2, <1>3, <1>8, <1>9, <1>10 DEF AddsPage
<1> QED
  BY <1>12, <1>13, AddsWhole

\* The directory gets its new size.
LEMMA ExtendAdds ==
    ASSUME Shape, ~Overflow, NEW g, FsInv(g), NEW p \in Workers, Adds(fs, g, job[p]), NEW k, DirExtended(p, k)
    PROVE  Adds(fs', g, k) /\ Covered(fs'.inode_tab[job[p].n])
<1> DEFINE j == job[p]
           n == j.n
           x == fs.inode_tab[n]
<1>1. j \in Job /\ j.pc = "extend" /\ k = [j EXCEPT !.pc = "mark"] /\ n \in InodeNums /\ fs \in FsStruct
  BY JobFields DEF Shape, JobFits, DirExtended
<1>2. /\ k.pc = "mark" /\ k.n = n /\ k.new = j.new /\ k.name = j.name /\ k.type = j.type
  <2> HIDE DEF j
  <2> QED
    BY <1>1, Moved, StageFacts
<1>3. /\ n \in DirsIn(g) /\ NumOf(g.inode_tab[n]) > 0
      /\ x.size = LastOf(g, n) * DentrySize
      /\ \A i \in Indices : x.blocks[i] = g.inode_tab[n].blocks[i]
  BY <1>1 DEF Adds, GrowingStages
<1>4. x.size + DentrySize = g.inode_tab[n].size
  BY <1>3, LastPlace
<1>5. /\ fs'.inode_bmap = fs.inode_bmap /\ fs'.page = fs.page
      /\ \E y \in Inode : /\ fs'.inode_tab = [fs.inode_tab EXCEPT ![n] = y]
                          /\ y.type = x.type /\ y.size = x.size + DentrySize
                          /\ y.blocks = x.blocks
  BY ExtendedEffect
<1>6. PICK y \in Inode : /\ fs'.inode_tab = [fs.inode_tab EXCEPT ![n] = y]
                         /\ y.type = x.type /\ y.size = x.size + DentrySize
                         /\ y.blocks = x.blocks
  BY <1>5
<1>7. /\ fs'.inode_tab[n] = y
      /\ \A m \in InodeNums \ {n} : fs'.inode_tab[m] = fs.inode_tab[m]
  BY <1>1, <1>6, Fields
<1>8. Covered(y)
  <2>1. Covered(g.inode_tab[n])
    BY <1>3, DirFacts
  <2> QED
    BY <1>3, <1>4, <1>6, <2>1 DEF Covered
<1>9. j.new \in InodeNums /\ j.new # n
  BY <1>1, JobFields DEF Adds
<1> HIDE DEF x
<1>10. fs'.inode_tab[n].type = "dir" /\ fs'.inode_tab[n].blocks = x.blocks
       /\ fs'.inode_tab[n].size = g.inode_tab[n].size
  BY <1>1, <1>4, <1>6, <1>7 DEF Adds, x
<1>11. fs'.inode_tab[j.new].type = "none"
  BY <1>1, <1>7, <1>9 DEF Adds
<1>12. AddsInodes(fs, g, j) /\ AddsPage(fs, g, j)
  BY AddsHalves
<1>13. k.pc \notin GrowingStages
  BY <1>2 DEF GrowingStages
<1>14. \A i \in Indices : fs'.inode_tab[n].blocks[i] = g.inode_tab[n].blocks[i]
  BY <1>3, <1>10
<1>15. Adds(fs', g, k)
  <2>1. j.pc = "extend"
    BY <1>1
  <2> HIDE DEF n, j
  <2>2. n = j.n
    BY DEF n
  <2>3. \A m \in InodeNums \ {n, j.new} : SameKind(fs', g, m)
    BY <1>7, <1>12, <2>2 DEF AddsInodes, SameKind
  <2>4. AddsInodes(fs', g, k)
    BY <1>2, <1>5, <1>10, <1>11, <2>3, <1>12, <1>13, <1>14, <2>1, <2>2 DEF AddsInodes
  <2>5. AddsPage(fs', g, k)
    BY <1>2, <1>5, <1>12, <2>1, <2>2, PageAsBefore
  <2> QED
    BY <2>4, <2>5, AddsWhole
<1> QED
  BY <1>7, <1>8, <1>15

\* The new inode is marked.
LEMMA MarkAdds ==
    ASSUME Shape, NEW g, FsInv(g), NEW p \in Workers, Adds(fs, g, job[p]), NEW k, InodeMarked(p, k)
    PROVE  Adds(fs', g, k)
<1> DEFINE j == job[p]
<1>1. j \in Job /\ j.pc = "mark" /\ k = [j EXCEPT !.pc = "init"]
  BY DEF Shape, JobFits, InodeMarked
<1>2. /\ k.pc = "init" /\ k.n = j.n /\ k.new = j.new /\ k.name = j.name /\ k.type = j.type
  <2> HIDE DEF j
  <2> QED
    BY <1>1, Moved, StageFacts
<1>3. /\ fs'.inode_tab = fs.inode_tab /\ fs'.page = fs.page
      /\ fs'.inode_bmap = fs.inode_bmap \cup {j.new}
  BY MarkedEffect
<1>4. AddsInodes(fs, g, j) /\ AddsPage(fs, g, j)
  BY AddsHalves
<1>5. k.pc \notin GrowingStages /\ j.pc \notin GrowingStages /\ j.pc = "mark"
  BY <1>1, <1>2 DEF GrowingStages
<1> HIDE DEF j
<1>6. \A m \in InodeNums \ {j.n, j.new} : SameKind(fs', g, m)
  BY <1>3, <1>4 DEF AddsInodes, SameKind
<1>7. AddsInodes(fs', g, k)
  BY <1>2, <1>3, <1>4, <1>5, <1>6 DEF AddsInodes
<1>8. AddsPage(fs', g, k)
  BY <1>2, <1>3, <1>4, <1>5, PageAsBefore
<1> QED
  BY <1>7, <1>8, AddsWhole

\* The new inode is initialised.
LEMMA InitSettles ==
    ASSUME Shape, NEW g, FsInv(g), NEW p \in Workers, Adds(fs, g, job[p]), NEW k, InodeMade(p, k)
    PROVE  Settled(fs', g)
<1> DEFINE j == job[p]
           n == j.n
           x == fs.inode_tab[n]
           y == g.inode_tab[n]
<1>1. j \in Job /\ j.pc = "init" /\ n \in InodeNums /\ j.new \in InodeNums /\ fs \in FsStruct
  BY JobFields DEF Shape, JobFits, InodeMade
<1>2. /\ fs'.inode_tab = [fs.inode_tab EXCEPT ![j.new] = InodeInit(j.type)]
      /\ fs'.page = fs.page /\ fs'.inode_bmap = fs.inode_bmap
  BY MadeEffect
<1>3. /\ fs'.inode_tab[j.new] = InodeInit(j.type)
      /\ \A m \in InodeNums \ {j.new} : fs'.inode_tab[m] = fs.inode_tab[m]
  BY <1>1, <1>2, Fields
<1>4. /\ fs.inode_bmap = g.inode_bmap /\ n # j.new /\ g.inode_tab[j.new] = InodeInit(j.type)
      /\ x.type = "dir" /\ n \in DirsIn(g) /\ x.size = y.size
      /\ \A i \in Indices : x.blocks[i] = y.blocks[i]
  BY <1>1 DEF Adds, GrowingStages
<1>5. x \in Inode /\ y \in Inode /\ y.type = "dir"
  BY <1>1, <1>4, DirFacts, Fields DEF DirsIn
<1>6. x = y
  <2> HIDE DEF x, y
  <2> QED
    BY <1>4, <1>5 DEF Inode
<1>7. \A m \in InodeNums : SameKind(fs', g, m)
  BY <1>3, <1>4, <1>6 DEF Adds, SameKind
<1>8. \A c \in Blocks, i \in Positions : fs'.page[c][i] = g.page[c][i]
  BY <1>1, <1>2 DEF Adds
<1> QED
  BY <1>2, <1>4, <1>7, <1>8 DEF Settled
\* The finished creation that a thread has ahead of it when it goes to read the page.
Foreseen(g, g2, f, k) ==
    /\ FsInv(g2) /\ g2.blk_bmap \subseteq f.blk_bmap /\ Adds(f, g2, k)
    /\ k.n \in DirsIn(g) /\ k.new \in FreeInodes(g) /\ k.type \in {"dir", "file"} /\ k.name \in Names
    /\ \E b : EntryAdded(g, g2, k.n, k.new, k.type, [name |-> k.name, inode |-> k.new], b)

\* A settled directory, and where its next entry goes.
LEMMA NextSlot ==
    ASSUME NEW f, NEW g, FsInv(g), Settled(f, g), NEW n \in InodeNums, f.inode_tab[n].type = "dir"
    PROVE  LET x == f.inode_tab[n]
               num == NumOf(x)
           IN /\ x = g.inode_tab[n] /\ n \in DirsIn(g)
              /\ x.size \div BlockSize = num \div DirPageEntries
              /\ NeedsBlock(x) <=> num % DirPageEntries = 0
              /\ num % DirPageEntries # 0 =>
                    /\ x.blocks[num \div DirPageEntries] \in Blocks
                    /\ x.blocks[num \div DirPageEntries] \in g.blk_bmap
<1> DEFINE x == f.inode_tab[n]
           num == NumOf(x)
           k == num \div DirPageEntries
           p == num % DirPageEntries
<1>1. x = g.inode_tab[n] /\ n \in DirsIn(g)
  BY DEF Settled, SameKind, DirsIn
<1>2. num \in Nat /\ x.size = num * DentrySize /\ BlocksOf(x) \subseteq g.blk_bmap
  BY <1>1, DirFacts
<1>3. x.size \div BlockSize = k /\ (x.size % BlockSize = 0 <=> p = 0)
  <2>1. LET s == num * DentrySize IN
           /\ s \div BlockSize = num \div DirPageEntries
           /\ s % BlockSize = 0 <=> num % DirPageEntries = 0
    BY <1>2, EntrySlot
  <2> QED
    BY <1>2, <2>1
<1>4. ASSUME p # 0
      PROVE  x.blocks[k] \in Blocks /\ x.blocks[k] \in g.blk_bmap
  <2>1. k \in Nat /\ p \in Positions /\ k * DirPageEntries \in Nat /\ num = k * DirPageEntries + p
    BY <1>2, NextPlace
  <2>2. k * DirPageEntries < num
    <3> HIDE DEF k, p, num
    <3> QED
      BY <1>2, <1>4, <2>1, Sizes
  <2>3. k \in Indices /\ x.blocks[k] \in Blocks
    BY <1>1, <2>1, <2>2, PageBlock
  <2>4. x.blocks[k] # 0
    BY <2>3, Sizes
  <2> QED
    BY <1>2, <2>3, <2>4 DEF BlocksOf
<1> QED
  BY <1>1, <1>3, <1>4 DEF NeedsBlock

\* The directory has room on its last page.
LEMMA EntryAhead ==
    ASSUME Shape, NEW g, Settled(fs, g), FsInv(g), g.blk_bmap \subseteq fs.blk_bmap,
           NEW p \in Workers, Planned(fs, job[p]), NEW k, BlockChosen(job[p], k), k.pc = "entry", fs' = fs
    PROVE  \E g2 : Foreseen(g, g2, fs', k)
<1> DEFINE j == job[p]
<1>1. j \in Job /\ JobFits(j) /\ j.pc = "block" /\ fs \in FsStruct
  BY DEF Shape, JobFits, BlockChosen
<1>2. /\ ~NeedsBlock(fs.inode_tab[j.n]) /\ k = [j EXCEPT !.pc = "entry"]
  <2>1. \/ k = Idle
        \/ ~NeedsBlock(fs.inode_tab[j.n]) /\ k = [j EXCEPT !.pc = "entry"]
        \/ k = [j EXCEPT !.pc = "reserve", !.block = Lowest(FreeBlocks(fs))]
    BY DEF BlockChosen
  <2>2. k # Idle
    BY IdleFits
  <2>3. ASSUME k = [j EXCEPT !.pc = "reserve", !.block = Lowest(FreeBlocks(fs))]
        PROVE  k.pc = "reserve"
    <3> HIDE DEF j
    <3> QED
      BY <1>1, <2>3 DEF Job
  <2> QED
    BY <2>1, <2>2, <2>3
<1>3. /\ k \in Job /\ k.pc = "entry" /\ k.n = j.n /\ k.new = j.new /\ k.name = j.name /\ k.type = j.type
  <2>1. j \in Job /\ "entry" \in Stages /\ k = [j EXCEPT !.pc = "entry"]
    BY <1>1, <1>2, StageFacts
  <2> HIDE DEF j
  <2> QED
    BY <2>1, Moved
<1>4. /\ j.name \in Names /\ j.type \in {"file", "dir"} /\ j.n \in InodeNums
  BY <1>1, StageOps, StageFacts, JobFields DEF JobFits
<1>5. fs.inode_tab[j.n].type = "dir" /\ j.new \in FreeInodes(fs)
  BY <1>1 DEF Planned
<1> DEFINE x == fs.inode_tab[j.n]
           i == NumOf(x) \div DirPageEntries
           b == x.blocks[i]
<1>6. /\ j.n \in DirsIn(g) /\ NumOf(x) % DirPageEntries # 0
      /\ b \in Blocks /\ b \in g.blk_bmap
  BY <1>2, <1>4, <1>5, NextSlot
<1>7. fs'.blk_bmap = fs.blk_bmap \cup {b}
  BY <1>6
<1>8. \E g2 : /\ FsInv(g2) /\ g2.blk_bmap \subseteq fs'.blk_bmap /\ Adds(fs', g2, k)
              /\ EntryAdded(g, g2, k.n, k.new, k.type, [name |-> k.name, inode |-> k.new], b)
  <2>1. /\ k.name \in Names /\ k.type \in {"file", "dir"}
        /\ k.new \in FreeInodes(fs) /\ fs.inode_tab[k.n].type = "dir"
        /\ b = fs.inode_tab[k.n].blocks[NumOf(fs.inode_tab[k.n]) \div DirPageEntries]
        /\ NumOf(fs.inode_tab[k.n]) % DirPageEntries # 0
    BY <1>3, <1>4, <1>5, <1>6
  <2>2. /\ \A l \in Indices : fs'.inode_tab[k.n].blocks[l] =
               IF l = NumOf(fs.inode_tab[k.n]) \div DirPageEntries THEN b ELSE fs.inode_tab[k.n].blocks[l]
        /\ fs'.inode_tab[k.n].type = "dir" /\ fs'.inode_tab[k.n].size = fs.inode_tab[k.n].size
        /\ \A m \in InodeNums \ {k.n} : fs'.inode_tab[m] = fs.inode_tab[m]
        /\ fs'.page = fs.page /\ fs'.inode_bmap = fs.inode_bmap
    BY <2>1
  <2>3. BlockTaken(fs, fs', k.n, b)
    BY <1>7, <2>1, <2>2 DEF BlockTaken
  <2> HIDE DEF b
  <2> QED
    BY <1>1, <1>3, <1>6, <2>1, <2>3, CreationBegins
<1>9. k.n \in DirsIn(g) /\ k.new \in FreeInodes(g)
  BY <1>3, <1>5, <1>6 DEF Settled, FreeInodes
<1> QED
  BY <1>3, <1>4, <1>8, <1>9 DEF Foreseen

\* The directory gets a new block for the entry.
LEMMA BlockAhead ==
    ASSUME Shape, ~Overflow, NEW g, Settled(fs, g), FsInv(g), g.blk_bmap \subseteq fs.blk_bmap,
           NEW p \in Workers, Planned(fs, job[p]), Reserving, NEW k, Reserved1(p, k)
    PROVE  /\ \E g2 : Foreseen(g, g2, fs', k)
           /\ fs'.inode_cache = fs.inode_cache /\ fs' \in FsStruct
           /\ \A m \in InodeNums : fs'.inode_tab[m] = fs.inode_tab[m]
                 \/ (fs.inode_tab[m].type = "dir" /\ fs'.inode_tab[m].type = "dir" /\ Covered(fs'.inode_tab[m]))
<1> DEFINE j == job[p]
           x == fs.inode_tab[j.n]
           i == NumOf(x) \div DirPageEntries
           b == j.block
<1>1. /\ j \in Job /\ JobFits(j) /\ j.pc = "reserve" /\ fs \in FsStruct /\ k = [j EXCEPT !.pc = "entry"]
  BY DEF Shape, JobFits, Reserved1
<1>2. /\ k \in Job /\ k.pc = "entry" /\ k.n = j.n /\ k.new = j.new /\ k.name = j.name /\ k.type = j.type
  <2>1. j \in Job /\ "entry" \in Stages /\ k = [j EXCEPT !.pc = "entry"]
    BY <1>1, StageFacts
  <2> HIDE DEF j
  <2> QED
    BY <2>1, Moved
<1>3. /\ j.name \in Names /\ j.type \in {"file", "dir"} /\ j.n \in InodeNums
  BY <1>1, StageOps, StageFacts, JobFields DEF JobFits
<1>4. x.type = "dir" /\ j.new \in FreeInodes(fs) /\ NeedsBlock(x) /\ b \notin fs.blk_bmap
  BY <1>1 DEF Planned, Reserving
<1>5. /\ j.n \in DirsIn(g) /\ NumOf(x) % DirPageEntries = 0 /\ x.size \div BlockSize = i
      /\ x = g.inode_tab[j.n]
  BY <1>3, <1>4, NextSlot
<1>6. /\ b \in Blocks /\ fs' \in FsStruct
      /\ fs'.inode_bmap = fs.inode_bmap /\ fs'.page = fs.page
      /\ fs'.inode_cache = fs.inode_cache
      /\ fs'.blk_bmap = fs.blk_bmap \cup {b}
      /\ \E y \in Inode : /\ fs'.inode_tab = [fs.inode_tab EXCEPT ![j.n] = y]
                          /\ y.type = x.type /\ y.size = x.size
                          /\ \A m \in Indices : y.blocks[m] = IF m = x.size \div BlockSize THEN b ELSE x.blocks[m]
  BY ReservedEffect
<1>7. PICK y \in Inode : /\ fs'.inode_tab = [fs.inode_tab EXCEPT ![j.n] = y]
                         /\ y.type = x.type /\ y.size = x.size
                         /\ \A m \in Indices : y.blocks[m] = IF m = x.size \div BlockSize THEN b ELSE x.blocks[m]
  BY <1>6
<1>8. /\ fs'.inode_tab[j.n] = y
      /\ \A m \in InodeNums \ {j.n} : fs'.inode_tab[m] = fs.inode_tab[m]
  BY <1>1, <1>3, <1>7, Fields
<1>9. Covered(y)
  <2>1. Covered(x) /\ b # 0
    BY ZenonT(60), <1>5, <1>6, DirFacts, Sizes
  <2> HIDE DEF x, b
  <2> QED
    BY <1>7, <2>1 DEF Covered
<1>10. \E g2 : /\ FsInv(g2) /\ g2.blk_bmap \subseteq fs'.blk_bmap /\ Adds(fs', g2, k)
               /\ EntryAdded(g, g2, k.n, k.new, k.type, [name |-> k.name, inode |-> k.new], b)
  <2>1. /\ k.name \in Names /\ k.type \in {"file", "dir"}
        /\ k.new \in FreeInodes(fs) /\ fs.inode_tab[k.n].type = "dir"
        /\ NumOf(fs.inode_tab[k.n]) % DirPageEntries = 0
        /\ b \notin fs.blk_bmap
    BY <1>2, <1>3, <1>4, <1>5
  <2>2. /\ \A l \in Indices : fs'.inode_tab[k.n].blocks[l] =
               IF l = NumOf(fs.inode_tab[k.n]) \div DirPageEntries THEN b ELSE fs.inode_tab[k.n].blocks[l]
        /\ fs'.inode_tab[k.n].type = "dir" /\ fs'.inode_tab[k.n].size = fs.inode_tab[k.n].size
        /\ \A m \in InodeNums \ {k.n} : fs'.inode_tab[m] = fs.inode_tab[m]
        /\ fs'.page = fs.page /\ fs'.inode_bmap = fs.inode_bmap
    <3>1. fs'.inode_tab[k.n] = y /\ x = fs.inode_tab[k.n] /\ x.size \div BlockSize = i
      BY <1>2, <1>5, <1>8
    <3>2. i = NumOf(fs.inode_tab[k.n]) \div DirPageEntries
      BY <3>1
    <3>3. fs'.inode_tab[k.n].type = "dir" /\ fs'.inode_tab[k.n].size = fs.inode_tab[k.n].size
      BY <1>4, <1>7, <3>1
    <3>4. \A m \in InodeNums \ {k.n} : fs'.inode_tab[m] = fs.inode_tab[m]
      BY <1>2, <1>8
    <3> HIDE DEF x, i, b
    <3>5. \A l \in Indices : fs'.inode_tab[k.n].blocks[l] =
              IF l = NumOf(fs.inode_tab[k.n]) \div DirPageEntries THEN b ELSE fs.inode_tab[k.n].blocks[l]
      <4>1. \A l \in Indices : y.blocks[l] = IF l = i THEN b ELSE x.blocks[l]
        BY <1>7, <3>1
      <4> QED
        BY <3>1, <3>2, <4>1
    <3> QED
      BY <1>6, <3>3, <3>4, <3>5
  <2>3. b \in Blocks /\ fs'.blk_bmap = fs.blk_bmap \cup {b} /\ k \in Job /\ k.pc = "entry" /\ fs \in FsStruct
    BY <1>1, <1>2, <1>6
  <2>4. LET num == NumOf(fs.inode_tab[k.n])
            l == num \div DirPageEntries
            q == num % DirPageEntries
        IN (q = 0 => b \notin fs.blk_bmap) /\ (q # 0 => b = fs.inode_tab[k.n].blocks[l])
    BY <2>1
  <2>5. BlockTaken(fs, fs', k.n, b)
    BY <2>2, <2>3, <2>4 DEF BlockTaken
  <2> HIDE DEF b, j, i, x
  <2> QED
    BY <2>1, <2>3, <2>5, CreationBegins
<1>11. k.n \in DirsIn(g) /\ k.new \in FreeInodes(g)
  BY <1>2, <1>4, <1>5 DEF Settled, FreeInodes
<1>12. \E g2 : Foreseen(g, g2, fs', k)
  BY <1>2, <1>3, <1>10, <1>11 DEF Foreseen
<1> QED
  BY <1>4, <1>6, <1>7, <1>8, <1>9, <1>12
\* What a creation finds out is so, and stays so for the thread that goes on.
LEMMA PlannedStep ==
    ASSUME Shape, NEW p \in Workers, Planned(fs, job[p]), NEW k, LeadsTo(p, k), k \in Job
    PROVE  Planned(fs', k)
<1> DEFINE j == job[p]
           Stage == SearchStages \cup {"inode", "block", "reserve"}
<1>1. j \in Job /\ fs \in FsStruct
  BY DEF Shape, JobFits
<1>2. CASE k.pc \notin Stage
  BY <1>2 DEF Planned
<1>3. CASE SearchBegun(p, k) /\ k.pc \in Stage
  <2>1. k.pc = "count"
    BY <1>3, StageAfterSearch, StageFacts
  <2>2. PICK i : Opening(p, i) /\ BegunTo(fs, i, k)
    BY <1>3 DEF SearchBegun
  <2>3. i \in Job
    BY <2>2, OpeningFits
  <2>4. IsDir(fs, i.n) /\ k.n = i.n
    <3>1. k # Idle
      BY <2>1, IdleFits
    <3>2. \A a \in DSlots, q \in Positions : fs.dir_cache[a].entries[q].inode \in InodeNums
      <4>1. \A a \in DSlots : fs.dir_cache[a].entries \in Page
        BY <1>1, Fields, DirEntryFields DEF Page
      <4> QED
        BY <4>1, EntryTyped
    <3>3. ASSUME NEW a \in DSlots, NEW q \in Positions, k = Told(i, fs.dir_cache[a].entries[q].inode)
          PROVE  FALSE
      <4> DEFINE m == fs.dir_cache[a].entries[q].inode
      <4>1. m \in InodeNums
        BY <3>2
      <4> HIDE DEF m
      <4>2. Told(i, m).pc = "token"
        BY <2>3, <4>1, SearchJobs
      <4> QED
        BY <2>1, <3>3, <4>2 DEF m
    <3>4. ASSUME NEW h \in 0 .. DirCacheSize, k = Begun(i, h)
          PROVE  k.n = i.n
      BY <2>3, <3>4, SearchJobs
    <3> QED
      BY <2>2, <3>1, <3>3, <3>4 DEF BegunTo
  <2> QED
    BY <1>3, <2>1, <2>4, StageFacts DEF Planned, IsDir, SearchBegun, SameInodes
<1>4. CASE PageSearched(p, k) /\ k.pc \in Stage
  <2>1. k.pc \in {"inode", "page"}
    BY <1>4, StageAfterSearch, StageFacts
  <2>2. PICK page \in Page : PageAtHand(p, page) /\ SearchedTo(page, j, k)
    BY <1>4 DEF PageSearched
  <2>3. k.n = j.n
    <3>1. \A q \in Positions : page[q].inode \in InodeNums
      BY EntryTyped
    <3> HIDE DEF j
    <3> QED
      BY <1>1, <2>1, <2>2, <3>1, IdleFits, SearchJobs DEF SearchedTo
  <2>4. j.pc \in SearchStages
    BY <2>2, StageFacts DEF PageAtHand
  <2> QED
    BY <1>4, <2>1, <2>3, <2>4, StageFacts DEF Planned, PageSearched, SameInodes
<1>5. CASE Quieted(p, k) /\ k.pc \in Stage
  <2>0. fs' = fs /\ QuietMove(j, k)
    BY <1>5 DEF Quieted
  <2>1. CASE Counted(j, k) \/ Missing(j, k) \/ Loaded(j, k)
    <3>1. k.n = j.n /\ j.pc \in SearchStages /\ k.pc \in SearchStages \cup {"inode"}
      <4>1. k # Idle
        BY <1>5, IdleFits, StageFacts
      <4>2. j.pc \in SearchStages
        BY <2>1, StageFacts DEF Counted, Missing, Loaded
      <4>3. k.n = j.n
        <5> DEFINE num == NumOf(fs.inode_tab[j.n])
                   b == fs.inode_tab[j.n].blocks[j.k]
                   page == DiskPage(j.block)
        <5>1. CASE k = Missed(j)
          BY <1>1, <5>1, SearchJobs
        <5>2. CASE k = [j EXCEPT !.pc = "page", !.num = num]
          <6> HIDE DEF j, num
          <6> QED
            BY <1>1, <5>2 DEF Job
        <5>3. CASE k = [j EXCEPT !.pc = "load", !.block = b]
          <6> HIDE DEF j, b
          <6> QED
            BY <1>1, <5>3 DEF Job
        <5>4. CASE k = [j EXCEPT !.pc = "fill", !.page = page]
          <6> HIDE DEF j, page
          <6> QED
            BY <1>1, <5>4 DEF Job
        <5> QED
          BY <2>1, <4>1, <5>1, <5>2, <5>3, <5>4 DEF Counted, Missing, Loaded
      <4>4. k.pc \in {"inode", "page", "load", "fill"}
        BY <1>5, <2>1, StageAfterQuiet, StageFacts
      <4> QED
        BY <4>2, <4>3, <4>4, StageFacts
    <3> QED
      BY <2>0, <3>1, StageFacts DEF Planned
  <2>2. CASE InodeChosen(j, k)
    <3>1. k # Idle
      BY <1>5, IdleFits, StageFacts
    <3> DEFINE l == Lowest(FreeInodes(fs))
    <3>2. j.pc = "inode" /\ FreeInodes(fs) # {} /\ k = [j EXCEPT !.pc = "block", !.new = l]
      BY <2>2, <3>1 DEF InodeChosen
    <3>3. l \in FreeInodes(fs)
      BY <3>2, LowestIn, Sizes DEF FreeInodes
    <3> HIDE DEF l
    <3>4. k.pc = "block" /\ k.new = l /\ k.n = j.n
      <4> HIDE DEF j
      <4> QED
        BY <1>1, <3>2 DEF Job
    <3> QED
      BY <2>0, <3>2, <3>3, <3>4 DEF Planned
  <2>3. CASE BlockChosen(j, k)
    <3>1. k # Idle /\ k.pc # "entry"
      BY <1>5, IdleFits, StageFacts
    <3> DEFINE l == Lowest(FreeBlocks(fs))
    <3>2. ASSUME k = [j EXCEPT !.pc = "entry"]
          PROVE  k.pc = "entry"
      <4> HIDE DEF j
      <4> QED
        BY <1>1, <3>2 DEF Job
    <3>3. /\ j.pc = "block" /\ NeedsBlock(fs.inode_tab[j.n])
          /\ k = [j EXCEPT !.pc = "reserve", !.block = l]
      BY <2>3, <3>1, <3>2 DEF BlockChosen
    <3>4. k.pc = "reserve" /\ k.new = j.new /\ k.n = j.n
      <4> HIDE DEF j, l
      <4> QED
        BY <1>1, <3>3 DEF Job
    <3> QED
      BY <2>0, <3>3, <3>4 DEF Planned
  <2>4. Counted(j, k) \/ Missing(j, k) \/ Loaded(j, k) \/ InodeChosen(j, k) \/ BlockChosen(j, k)
    BY <1>5, <2>0, StageAfterQuiet, StageFacts DEF QuietMove
  <2> QED
    BY <2>1, <2>2, <2>3, <2>4
<1>6. k.pc \in Stage => Quieted(p, k) \/ SearchBegun(p, k) \/ PageSearched(p, k)
  BY StageAfterChange, StageFacts DEF LeadsTo, Created
<1> QED
  BY <1>2, <1>3, <1>4, <1>5, <1>6

\* An empty inode has blocks for its size.
LEMMA EmptyCovered ==
    ASSUME NEW type \in {"none", "dir", "file"}
    PROVE  Covered(InodeInit(type))
<1>1. OffsetToBlocks(0) \in Nat /\ (0 < OffsetToBlocks(0) <=> 0 * BlockSize < 0) /\ 0 * BlockSize = 0
  BY CeilLess, InodesAssumption
<1>2. OffsetToBlocks(0) = 0
  BY <1>1
<1>3. InodeInit(type).size = 0
  BY NewInode
<1> QED
  BY <1>2, <1>3, InodesAssumption DEF Covered, Indices

\* Steps of creations do not matter for files.
LEMMA CreatedFiles ==
    ASSUME Shape, ~Overflow, FilesInv(fs), NEW p \in Workers, NEW g, FsInv(g),
           job[p].pc \in LateStages => Adds(fs, g, job[p]),
           job[p].pc = "reserve" => Settled(fs, g) /\ g.blk_bmap \subseteq fs.blk_bmap,
           Planned(fs, job[p]), Reserving, NEW k, Created(p, k)
    PROVE  /\ FilesInv(fs') /\ \A j \in Job : Pointing(fs, j) => Pointing(fs', j)
           /\ k.pc \notin PointerStages
<1> DEFINE j == job[p]
<1>1. fs \in FsStruct /\ fs' \in FsStruct /\ fs'.inode_cache = fs.inode_cache
      /\ j.n \in InodeNums /\ j.new \in InodeNums
  <2>1. fs' \in FsStruct /\ fs'.inode_cache = fs.inode_cache
    BY ReservedEffect, WrittenEffect, ExtendedEffect, MarkedEffect, MadeEffect DEF Created
  <2> QED
    BY <2>1, JobFields DEF Shape, JobFits
<1>2. \A n \in InodeNums :
              \/ fs'.inode_tab[n] = fs.inode_tab[n]
              \/ /\ fs.inode_tab[n].type # "file" /\ fs.inode_tab[n].type \in {"none", fs'.inode_tab[n].type}
                 /\ Covered(fs'.inode_tab[n])
  <2>1. CASE Reserved1(p, k)
    <3>1. j.pc = "reserve"
      BY <2>1 DEF Reserved1
    <3> QED
      BY <2>1, <3>1, BlockAhead
  <2>2. CASE NameWritten(p, k) \/ LinkWritten(p, k)
    BY <2>2, WrittenEffect
  <2>3. CASE InodeMarked(p, k)
    BY <2>3, MarkedEffect
  <2>4. CASE DirExtended(p, k)
    <3>1. Adds(fs, g, j)
      BY <2>4 DEF DirExtended, LateStages
    <3>2. Covered(fs'.inode_tab[j.n])
      BY <2>4, <3>1, ExtendAdds
    <3>3. \E y \in Inode : /\ fs'.inode_tab = [fs.inode_tab EXCEPT ![j.n] = y]
                           /\ y.type = fs.inode_tab[j.n].type
      BY <2>4, ExtendedEffect
    <3>4. fs.inode_tab[j.n].type = "dir"
      BY <3>1 DEF Adds
    <3> QED
      BY <1>1, <3>2, <3>3, <3>4, Fields
  <2>5. CASE InodeMade(p, k)
    <3>1. Adds(fs, g, j)
      BY <2>5 DEF InodeMade, LateStages
    <3>2. fs.inode_tab[j.new].type = "none"
      BY <3>1 DEF Adds
    <3>3. /\ fs'.inode_tab = [fs.inode_tab EXCEPT ![j.new] = InodeInit(j.type)]
          /\ j.type \in {"none", "dir", "file"}
      BY <2>5, MadeEffect
    <3> QED
      BY <1>1, <3>2, <3>3, Fields, EmptyCovered
  <2> QED
    BY <2>1, <2>2, <2>3, <2>4, <2>5 DEF Created
<1>3. FilesInv(fs') /\ \A i \in Job : Pointing(fs, i) => Pointing(fs', i)
  BY <1>1, <1>2, TableFiles
<1>4. k.pc \notin PointerStages
  BY StageAfterChange, StageFacts DEF Created
<1> QED
  BY <1>3, <1>4
\* What files and the threads that transfer rely on, after a step.
LEMMA FilesAfter ==
    ASSUME Shape, ~Overflow, FilesInv(fs), \A q \in Workers : Pointing(fs, job[q]),
           NEW p \in Workers, NEW g, FsInv(g),
           job[p].pc \in LateStages => Adds(fs, g, job[p]),
           job[p].pc = "reserve" => Settled(fs, g) /\ g.blk_bmap \subseteq fs.blk_bmap,
           Planned(fs, job[p]), Reserving, NEW k, LeadsTo(p, k), Becomes(p, k), ~PointerRace(p)
    PROVE  FilesInv(fs') /\ \A q \in Workers : Pointing(fs', job'[q])
<1>1. \A q \in Workers : job[q] \in Job /\ job'[q] = IF q = p THEN k ELSE job[q]
  BY JobAfter DEF Shape, JobFits
<1>2. CASE /\ FilesInv(fs') /\ Pointing(fs', k)
           /\ \A j \in Job : Pointing(fs, j) => Pointing(fs', j)
  BY <1>1, <1>2
<1>3. CASE Quieted(p, k)
  <2>1. fs' = fs /\ QuietMove(job[p], k)
    BY <1>3 DEF Quieted
  <2>2. Pointing(fs, k)
    BY <2>1, QuietFits, QuietPointing
  <2> QED
    BY <1>2, <2>1, <2>2
<1>4. CASE SearchBegun(p, k) \/ PageSearched(p, k)
  <2>1. SameInodes(fs, fs')
    BY <1>4 DEF SearchBegun, PageSearched
  <2>2. FilesInv(fs') /\ \A j \in Job : Pointing(fs, j) => Pointing(fs', j)
    BY <2>1, TableFiles DEF SameInodes
  <2>3. k.pc \notin PointerStages
    BY <1>4, StageAfterSearch, StageFacts
  <2> QED
    BY <1>2, <2>2, <2>3 DEF Pointing
<1>5. CASE Changed(p, k)
  <2>1. FilesStep(fs, fs') /\ Pointing(fs', k)
    BY <1>5, ChangedFiles
  <2>2. ASSUME NEW q \in Workers \ {p}
        PROVE  Pointing(fs', job[q])
    <3>1. job[q].pc \in PointerStages =>
             /\ job[q].at # TableRef => fs'.inode_cache[job[q].at].num = job[q].n
             /\ job[q].at = TableRef => \A i \in Indices :
                   fs.inode_tab[job[q].n].blocks[i] # 0 => fs'.inode_tab[job[q].n].blocks[i] # 0
      BY DEF PointerRace
    <3> QED
      BY <1>1, <2>1, <3>1, PointingStays
  <2>3. FilesInv(fs')
    BY <2>1 DEF FilesStep
  <2> QED
    BY <1>1, <2>1, <2>2, <2>3
<1>6. CASE Created(p, k)
  <2>1. /\ FilesInv(fs') /\ \A j \in Job : Pointing(fs, j) => Pointing(fs', j)
        /\ k.pc \notin PointerStages
    BY <1>6, CreatedFiles
  <2> QED
    BY <1>2, <2>1 DEF Pointing
<1> QED
  BY <1>3, <1>4, <1>5, <1>6 DEF LeadsTo, Changed

\* A thread that does not add: what other creations rely on stays.
LEMMA DirsStayUnlessAdded ==
    ASSUME Shape, ~Overflow, FilesInv(fs), NEW p \in Workers, Pointing(fs, job[p]),
           NEW k, LeadsTo(p, k), ~Created(p, k)
    PROVE  DirsStay(fs, fs')
<1>1. fs \in FsStruct
  BY DEF Shape
<1>2. CASE Quieted(p, k)
  <2>1. fs' = fs
    BY <1>2 DEF Quieted
  <2>2. FilesStep(fs, fs')
    BY <2>1, FilesStepItself
  <2> QED
    BY <1>1, <2>2, DirsStayFrom
<1>3. CASE SearchBegun(p, k) \/ PageSearched(p, k)
  BY <1>1, <1>3, DirsStayFrom DEF SearchBegun, PageSearched
<1>4. CASE Changed(p, k)
  BY <1>1, <1>4, ChangedFiles, DirsStayFrom
<1> QED
  BY <1>2, <1>3, <1>4 DEF LeadsTo, Changed

\* Creations change what directories they and others work on keep.
LEMMA TypesStay ==
    ASSUME Shape, ~Overflow, NEW p \in Workers, NEW k, Created(p, k), NEW g,
           job[p].pc \in LateStages => Adds(fs, g, job[p])
    PROVE  \A n \in InodeNums : fs.inode_tab[n].type = "dir" => fs'.inode_tab[n].type = "dir"
<1> DEFINE j == job[p]
<1>1. fs \in FsStruct /\ j.n \in InodeNums /\ j.new \in InodeNums
  BY JobFields DEF Shape, JobFits
<1>2. CASE Reserved1(p, k)
  BY <1>1, <1>2, ReservedEffect, Fields
<1>3. CASE NameWritten(p, k) \/ LinkWritten(p, k)
  BY <1>3, WrittenEffect
<1>4. CASE InodeMarked(p, k)
  BY <1>4, MarkedEffect
<1>5. CASE DirExtended(p, k)
  BY <1>1, <1>5, ExtendedEffect, Fields
<1>6. CASE InodeMade(p, k)
  <2>1. Adds(fs, g, j)
    BY <1>6 DEF InodeMade, LateStages
  <2>2. fs.inode_tab[j.new].type = "none"
    BY <2>1 DEF Adds
  <2> QED
    BY ZenonT(60), <1>1, <1>6, <2>2, MadeEffect, Fields
<1> QED
  BY <1>2, <1>3, <1>4, <1>5, <1>6 DEF Created
\* A thread that is to read the page of its entry does that.
LEMMA EntryStage ==
    ASSUME NEW p \in Workers, NEW k, LeadsTo(p, k), job[p].pc = "entry"
    PROVE  EntryPageRead(job[p], k) /\ fs' = fs
<1>1. Quieted(p, k)
  BY StageFacts DEF LeadsTo, SearchBegun, Opening, PageSearched, PageAtHand, ReadStarted, WriteStarted,
     SizeSet, AttrsGiven, Created, Reserved1, NameWritten, LinkWritten, DirExtended, InodeMarked, InodeMade
<1> QED
  BY <1>1 DEF Quieted, QuietMove, Counted, Missing, Loaded, Arrived, InodeChosen, BlockChosen,
     ReadChecked, Transferred, GrowthTested

\* What a thread that adds leaves of the tree that its creation leads to.
LEMMA LateStep ==
    ASSUME Shape, ~Overflow, NEW g, FsInv(g), NEW p \in Workers, job[p].pc \in LateStages,
           Adds(fs, g, job[p]), NEW k, LeadsTo(p, k)
    PROVE  /\ fs' \in FsStruct /\ fs'.blk_bmap = fs.blk_bmap
           /\ k.pc \in LateStages => Adds(fs', g, k)
           /\ k.pc \notin LateStages => Settled(fs', g)
           /\ k.pc # "entry"
<1> DEFINE j == job[p]
<1>1. CASE j.pc = "entry"
  <2>1. EntryPageRead(j, k) /\ fs' = fs
    BY <1>1, EntryStage
  <2>2. Adds(fs', g, k)
    <3>1. Adds(fs, g, k)
      BY <2>1, EntryRead
    <3> QED
      BY <2>1, <3>1
  <2>3. k.pc = "name"
    BY <2>1, StageAfterQuiet
  <2> QED
    BY <2>1, <2>2, <2>3 DEF LateStages, Shape
<1>2. CASE j.pc = "name"
  <2>1. NameWritten(p, k)
    BY <1>2, StageBefore
  <2>2. Adds(fs', g, k) /\ k.pc = "link" /\ fs' \in FsStruct /\ fs'.blk_bmap = fs.blk_bmap
    BY <2>1, NameAdds, WrittenEffect, StageAfterChange
  <2> QED
    BY <2>2 DEF LateStages
<1>3. CASE j.pc = "link"
  <2>1. LinkWritten(p, k)
    BY <1>3, StageBefore
  <2>2. Adds(fs', g, k) /\ k.pc = "extend" /\ fs' \in FsStruct /\ fs'.blk_bmap = fs.blk_bmap
    BY <2>1, LinkAdds, WrittenEffect, StageAfterChange
  <2> QED
    BY <2>2 DEF LateStages
<1>4. CASE j.pc = "extend"
  <2>1. DirExtended(p, k)
    BY <1>4, StageBefore
  <2>2. Adds(fs', g, k) /\ k.pc = "mark" /\ fs' \in FsStruct /\ fs'.blk_bmap = fs.blk_bmap
    BY <2>1, ExtendAdds, ExtendedEffect, StageAfterChange
  <2> QED
    BY <2>2 DEF LateStages
<1>5. CASE j.pc = "mark"
  <2>1. InodeMarked(p, k)
    BY <1>5, StageBefore
  <2>2. Adds(fs', g, k) /\ k.pc = "init" /\ fs' \in FsStruct /\ fs'.blk_bmap = fs.blk_bmap
    BY <2>1, MarkAdds, MarkedEffect, StageAfterChange
  <2> QED
    BY <2>2 DEF LateStages
<1>6. CASE j.pc = "init"
  <2>1. InodeMade(p, k)
    BY <1>6, StageBefore
  <2>2. Settled(fs', g) /\ k.pc = "idle" /\ fs' \in FsStruct /\ fs'.blk_bmap = fs.blk_bmap
    BY <2>1, InitSettles, MadeEffect, StageAfterChange
  <2> QED
    BY <1>6, <2>2 DEF LateStages
<1> QED
  BY <1>1, <1>2, <1>3, <1>4, <1>5, <1>6 DEF LateStages

\* The creation of which the entry is certain.
LEMMA EntryBegins ==
    ASSUME Shape, ~Overflow, NEW g, FsInv(g), g.blk_bmap \subseteq fs.blk_bmap, Settled(fs, g),
           NEW p \in Workers, job[p].pc \notin LateStages, Planned(fs, job[p]), Reserving,
           NEW k, LeadsTo(p, k), k.pc \in LateStages
    PROVE  /\ fs' \in FsStruct /\ k.pc = "entry"
           /\ \E g2 : Foreseen(g, g2, fs', k)
<1>1. k.pc \in AddStages
  BY StageFacts DEF LateStages
<1>2. \/ fs' = fs /\ BlockChosen(job[p], k)
      \/ Reserved1(p, k)
  <2>1. ~InodeChosen(job[p], k)
    BY StageAfterQuiet DEF LateStages
  <2>2. ~EntryPageRead(job[p], k)
    BY DEF EntryPageRead, LateStages
  <2>3. ~NameWritten(p, k) /\ ~LinkWritten(p, k) /\ ~DirExtended(p, k) /\ ~InodeMarked(p, k)
    BY DEF NameWritten, LinkWritten, DirExtended, InodeMarked, LateStages
  <2> QED
    BY <1>1, <2>1, <2>2, <2>3, AddedFrom
<1>3. k.pc = "entry"
  BY <1>2, StageAfterQuiet, StageAfterChange DEF LateStages
<1>4. fs' \in FsStruct
  BY <1>2, BlockAhead DEF Shape
<1>5. \E g2 : Foreseen(g, g2, fs', k)
  BY <1>2, <1>3, EntryAhead, BlockAhead
<1> QED
  BY <1>3, <1>4, <1>5

\* The tree that creations lead to, after a step: the same, or with an entry more.
LEMMA SkeletonAfter ==
    ASSUME Shape, ~Overflow, FilesInv(fs), \A q \in Workers : Pointing(fs, job[q]) /\ Planned(fs, job[q]),
           ~CreationRace, ~CreationRace', Reserving, NEW g, Skeleton(fs, g, job),
           NEW p \in Workers, NEW k, LeadsTo(p, k), Becomes(p, k)
    PROVE  \E g2 : /\ Skeleton(fs', g2, job')
                   /\ \/ g2 = g /\ k.pc # "entry"
                      \/ /\ k.pc = "entry" /\ job[p].pc \notin LateStages
                         /\ Settled(fs, g) /\ Foreseen(g, g2, fs', k)
<1>1. \A q \in Workers : job[q] \in Job /\ job'[q] = IF q = p THEN k ELSE job[q]
  BY JobAfter DEF Shape, JobFits
<1>2. FsInv(g) /\ g.blk_bmap \subseteq fs.blk_bmap
  BY DEF Skeleton
<1>3. LateStages \subseteq AddStages
  BY StageFacts DEF LateStages
<1>4. CASE job[p].pc \in LateStages
  <2>1. \A q \in Workers \ {p} : job'[q].pc \notin LateStages
    BY <1>1, <1>3, <1>4 DEF CreationRace
  <2>2. Adds(fs, g, job[p])
    BY <1>4 DEF Skeleton
  <2>3. /\ fs' \in FsStruct /\ fs'.blk_bmap = fs.blk_bmap
        /\ k.pc \in LateStages => Adds(fs', g, k)
        /\ k.pc \notin LateStages => Settled(fs', g)
        /\ k.pc # "entry"
    BY <1>2, <1>4, <2>2, LateStep
  <2>4. Skeleton(fs', g, job')
    BY <1>1, <1>2, <2>1, <2>3 DEF Skeleton
  <2> QED
    BY <2>3, <2>4
<1>5. CASE job[p].pc \notin LateStages /\ k.pc \in LateStages
  <2>1. \A q \in Workers \ {p} : job'[q].pc \notin LateStages
    <3>1. job'[p].pc \in AddStages
      BY <1>1, <1>3, <1>5
    <3>2. ASSUME NEW q \in Workers \ {p}, job'[q].pc \in AddStages
          PROVE  FALSE
      BY <3>1, <3>2 DEF CreationRace
    <3> QED
      BY <1>3, <3>2
  <2>2. Settled(fs, g)
    BY <1>1, <1>5, <2>1 DEF Skeleton
  <2>3. /\ fs' \in FsStruct /\ k.pc = "entry"
        /\ \E g2 : Foreseen(g, g2, fs', k)
    BY <1>2, <1>5, <2>2, EntryBegins
  <2>4. PICK g2 : Foreseen(g, g2, fs', k)
    BY <2>3
  <2>5. Skeleton(fs', g2, job')
    BY <1>1, <1>5, <2>1, <2>3, <2>4 DEF Skeleton, Foreseen
  <2> QED
    BY <1>5, <2>2, <2>3, <2>4, <2>5
<1>6. CASE job[p].pc \notin LateStages /\ k.pc \notin LateStages
  <2>1. ~Created(p, k)
    <3>1. ~Reserved1(p, k)
      BY <1>6, StageAfterChange DEF LateStages
    <3> QED
      BY <1>6, <3>1 DEF Created, NameWritten, LinkWritten, DirExtended, InodeMarked, InodeMade, LateStages
  <2>2. DirsStay(fs, fs')
    BY <2>1, DirsStayUnlessAdded
  <2>3. /\ Settled(fs, g) => Settled(fs', g)
        /\ \A j \in Job : Adds(fs, g, j) => Adds(fs', g, j)
    BY <2>2, DirsStayKeeps
  <2>4. fs' \in FsStruct /\ g.blk_bmap \subseteq fs'.blk_bmap
    BY <1>2, <2>2 DEF DirsStay
  <2>5. Skeleton(fs', g, job')
    <3>1. ASSUME NEW q \in Workers, job'[q].pc \in LateStages
          PROVE  Adds(fs', g, job'[q])
      <4>1. job'[q] = job[q] /\ job[q] \in Job
        BY <1>1, <1>6, <3>1
      <4>2. Adds(fs, g, job[q])
        BY <3>1, <4>1 DEF Skeleton
      <4> QED
        BY <2>3, <4>1, <4>2
    <3>2. ASSUME \A q \in Workers : job'[q].pc \notin LateStages
          PROVE  Settled(fs', g)
      <4>1. \A q \in Workers : job[q].pc \notin LateStages
        BY <1>1, <1>6, <3>2
      <4> QED
        BY <2>3, <4>1 DEF Skeleton
    <3> QED
      BY <1>2, <2>4, <3>1, <3>2 DEF Skeleton
  <2> QED
    BY <1>6, <2>5 DEF LateStages
<1> QED
  BY <1>4, <1>5, <1>6

\* What creations have found out stays so.
LEMMA PlannedAfter ==
    ASSUME Shape, ~Overflow, FilesInv(fs), \A q \in Workers : Pointing(fs, job[q]) /\ Planned(fs, job[q]),
           ~CreationRace, NEW g, Skeleton(fs, g, job),
           NEW p \in Workers, NEW k, LeadsTo(p, k), Becomes(p, k), k \in Job
    PROVE  \A q \in Workers : Planned(fs', job'[q])
<1>1. \A q \in Workers : job[q] \in Job /\ job'[q] = IF q = p THEN k ELSE job[q]
  BY JobAfter DEF Shape, JobFits
<1>2. Planned(fs', k)
  BY PlannedStep
<1>3. ASSUME NEW q \in Workers \ {p}
      PROVE  Planned(fs', job[q])
  <2>1. CASE ~Created(p, k)
    <3>1. DirsStay(fs, fs')
      BY <2>1, DirsStayUnlessAdded
    <3> QED
      BY <1>1, <3>1, DirsStayKeeps
  <2>2. CASE Created(p, k)
    <3>1. job[p].pc \in AddStages
      BY <2>2, StageFacts DEF Created, Reserved1, NameWritten, LinkWritten, DirExtended, InodeMarked, InodeMade
    <3>2. job[q].pc \notin AddStages
      BY <3>1 DEF CreationRace
    <3>3. \A n \in InodeNums : fs.inode_tab[n].type = "dir" => fs'.inode_tab[n].type = "dir"
      BY <2>2, TypesStay DEF Skeleton
    <3>4. job[q].n \in InodeNums
      BY <1>1, JobFields
    <3> QED
      BY <3>2, <3>3, <3>4, StageFacts DEF Planned
  <2> QED
    BY <2>1, <2>2
<1> QED
  BY <1>1, <1>2, <1>3
-----------------------------------------------------------------------------
(* The tree and the transfers.                                             *)

Core(g) ==
    /\ FilesInv(fs)
    /\ \A p \in Workers : Pointing(fs, job[p]) /\ Planned(fs, job[p])
    /\ Skeleton(fs, g, job)

\* Unless creations overlap, blocks are allocated within one or pointers are lost, no
\* directory overflows, and a tree is there that the creation under way leads to.
CoreInv == Without(Shuffling) => "full" \notin races /\ ~CreationRace /\ \E g : Core(g)

\* The invariant holds initially.
LEMMA CoreInit == CInit => CoreInv
<1> SUFFICES ASSUME CInit
             PROVE  "full" \notin races /\ ~CreationRace /\ \E g : Core(g)
  BY DEF CoreInv
<1>1. FsInv(fs) /\ races = {} /\ NothingCached(fs) /\ fs \in FsStruct
  <2>1. Init
    BY DEF CInit
  <2>2. NothingCached(fs)
    BY <2>1, PreparedOK DEF Init
  <2> QED
    BY <2>2, CInitFacts DEF FsInv
<1>2. \A q \in Workers : job[q] = Idle /\ job[q].pc = "idle"
  BY CInitFacts, IdleFits
<1>3. FilesInv(fs)
  <2>1. KindsCached(fs)
    BY <1>1 DEF KindsCached, NothingCached, FsInv, CacheInv, SlotOK
  <2>2. Covers(fs)
    BY <1>1 DEF Covers, FsInv, BlocksInv
  <2>3. CleanFits(fs)
    BY <1>1 DEF CleanFits, NothingCached
  <2> QED
    BY <1>1, <2>1, <2>2, <2>3 DEF FilesInv
<1>4. \A p \in Workers : Pointing(fs, job[p]) /\ Planned(fs, job[p])
  BY <1>2, StageFacts DEF Pointing, Planned
<1>5. Skeleton(fs, fs, job)
  BY <1>1, <1>2 DEF Skeleton, LateStages, Settled, SameKind
<1>6. ~CreationRace
  BY <1>2, StageFacts DEF CreationRace
<1>7. Core(fs)
  BY <1>3, <1>4, <1>5 DEF Core
<1> QED
  BY <1>1, <1>6, <1>7

\* A step of a thread keeps it.
LEMMA CoreStep ==
    ASSUME Shape, ~Overflow, Reserving, ~CreationRace, NEW g, Core(g),
           NEW p \in Workers, NEW k, LeadsTo(p, k), Becomes(p, k), ~PointerRace(p), ~CreationRace',
           Shape'
    PROVE  /\ ~Overflow'
           /\ \E g2 : /\ Core(g2)'
                      /\ \/ g2 = g /\ k.pc # "entry"
                         \/ /\ k.pc = "entry" /\ job[p].pc \notin LateStages
                            /\ Settled(fs, g) /\ Foreseen(g, g2, fs', k)
<1>1. \A q \in Workers : job'[q] = IF q = p THEN k ELSE job[q]
  BY JobAfter
<1>2. \A q \in Workers : job'[q] \in Job
  BY DEF Shape, JobFits
<1>3. k \in Job
  BY <1>1, <1>2
<1>4. FilesInv(fs) /\ Skeleton(fs, g, job) /\ \A q \in Workers : Pointing(fs, job[q]) /\ Planned(fs, job[q])
  BY DEF Core
<1>5. FsInv(g) /\ g.blk_bmap \subseteq fs.blk_bmap
  BY <1>4 DEF Skeleton
<1>6. job[p].pc \in LateStages => Adds(fs, g, job[p])
  BY <1>4 DEF Skeleton
<1>7. job[p].pc = "reserve" => Settled(fs, g)
  <2> HAVE job[p].pc = "reserve"
  <2>1. \A q \in Workers : job[q].pc \notin LateStages
    BY StageFacts DEF CreationRace, LateStages
  <2> QED
    BY <1>4, <2>1 DEF Skeleton
<1>8. FilesInv(fs') /\ \A q \in Workers : Pointing(fs', job'[q])
  BY <1>4, <1>5, <1>6, <1>7, FilesAfter
<1>9. \A q \in Workers : Planned(fs', job'[q])
  BY <1>3, <1>4, PlannedAfter
<1>10. PICK g2 : /\ Skeleton(fs', g2, job')
                 /\ \/ g2 = g /\ k.pc # "entry"
                    \/ /\ k.pc = "entry" /\ job[p].pc \notin LateStages
                       /\ Settled(fs, g) /\ Foreseen(g, g2, fs', k)
  BY <1>4, SkeletonAfter
<1>11. \A q, r \in Workers : q # r => ~({job'[q].pc, job'[r].pc} \subseteq AddStages)
  BY DEF CreationRace
<1>12. ~Overflow'
  <2>1. \A q \in Workers : job'[q].pc \in {"reserve", "entry", "extend"} =>
            ~(fs'.inode_tab[job'[q].n].size >= InodeNumBlks * BlockSize)
    BY <1>2, <1>9, <1>10, <1>11, RoomLeft
  <2> QED
    BY <2>1 DEF Overflow
<1>13. Core(g2)'
  BY <1>8, <1>9, <1>10 DEF Core
<1> QED
  BY <1>10, <1>12, <1>13

\* Without shuffling, a thread that takes a step finds the structure and leaves it in order.
LEMMA QuietNext ==
    ASSUME ShapeInv, SharingInv, CoreInv, NEW p \in Workers, Step(p), Without(Shuffling)'
    PROVE  /\ Shape /\ ~Overflow /\ Reserving /\ ~CreationRace /\ ~CreationRace' /\ ~PointerRace(p)
           /\ \E k : LeadsTo(p, k) /\ Becomes(p, k)
           /\ Shape'
<1>1. Without(Shuffling) /\ ~CreationRace' /\ ~PointerRace(p)
  BY RacesAfter DEF Shuffling
<1>2. "full" \notin races /\ ~CreationRace
  BY <1>1 DEF CoreInv
<1>3. Shape /\ ~Overflow
  BY <1>2 DEF ShapeInv, Without
<1>4. Reserving
  BY <1>1, <1>2 DEF SharingInv, Without, Shuffling
<1>5. PICK k : LeadsTo(p, k) /\ Becomes(p, k)
  BY <1>3, StepLeads
<1>6. Shape'
  <2>1. Advances(p, k)
    BY <1>3, <1>5, StepAdvances
  <2>2. now' \in Nat /\ left' \in 0 .. MaxRequests
    BY <1>3, LeftAfter DEF Shape
  <2> QED
    BY <1>3, <1>5, <2>1, <2>2, ShapeAfter
<1> QED
  BY <1>1, <1>2, <1>3, <1>4, <1>5, <1>6

\* Every step keeps the invariant.
LEMMA CoreNext ==
    ASSUME ShapeInv, SharingInv, CoreInv, [CNext]_cvars
    PROVE  CoreInv'
<1> SUFFICES ASSUME Without(Shuffling)'
             PROVE  "full" \notin races' /\ ~CreationRace' /\ \E g : Core(g)'
  BY DEF CoreInv
<1>1. CASE UNCHANGED <<fs, job, races>>
  <2>1. Without(Shuffling)
    BY <1>1 DEF Without
  <2>2. PICK g : Core(g)
    BY <2>1 DEF CoreInv
  <2>3. Core(g)'
    BY <1>1, <2>2 DEF Core
  <2> QED
    BY <1>1, <2>1, <2>3 DEF CoreInv, CreationRace
<1>2. CASE UNCHANGED cvars \/ CTick
  BY <1>1, <1>2 DEF cvars, CTick, Tick
<1>3. ASSUME NEW p \in Workers, Step(p)
      PROVE  "full" \notin races' /\ ~CreationRace' /\ \E g : Core(g)'
  <2>1. Without(Shuffling)
    BY <1>3, RacesAfter
  <2>2. "full" \notin races
    BY <2>1 DEF CoreInv
  <2>3. PICK g : Core(g)
    BY <2>1 DEF CoreInv
  <2>4. /\ Shape /\ ~Overflow /\ Reserving /\ ~CreationRace /\ ~CreationRace' /\ ~PointerRace(p)
        /\ \E k : LeadsTo(p, k) /\ Becomes(p, k)
        /\ Shape'
    BY <1>3, QuietNext
  <2>5. PICK k : LeadsTo(p, k) /\ Becomes(p, k)
    BY <2>4
  <2>6. ~Overflow' /\ \E g2 : Core(g2)'
    BY <2>3, <2>4, <2>5, CoreStep
  <2>7. "full" \notin races'
    BY <1>3, <2>2, <2>6 DEF Step, Interference
  <2> QED
    BY <2>4, <2>6, <2>7
<1> QED
  BY <1>2, <1>3 DEF CNext

\* Unless creations overlap, blocks are allocated within one or the inode behind a pointer was
\* replaced, what a creation under way still has to write leads to a tree, and no directory is
\* extended past its last block (fs.c:905-948).
THEOREM TreeIsThere == CSpec => []CoreInv
<1>1. ShapeInv /\ SharingInv /\ CoreInv /\ [CNext]_cvars => CoreInv'
  BY CoreNext
<1>2. ShapeInv /\ SharingInv /\ [CNext]_cvars => SharingInv'
  BY SharingNext
<1> QED
  BY ShapeIsKept, SharingInit, CoreInit, <1>1, <1>2, PTL DEF CSpec
\* What directories of f have is in those of g as well, at the same place.
Shows(f, g) ==
    \A d \in DirsIn(f) :
        /\ d \in DirsIn(g)
        /\ NumOf(f.inode_tab[d]) \in 0 .. NumOf(g.inode_tab[d])
        /\ \A i \in 0 .. NumOf(f.inode_tab[d]) - 1 :
              PlaceIn(f, f.inode_tab[d], i) = PlaceIn(g, g.inode_tab[d], i)

\* Between creations the directories are those of the tree.
LEMMA SettledShows ==
    ASSUME NEW f, NEW g, FsInv(g), Settled(f, g)
    PROVE  /\ Shows(f, g) /\ DirsIn(f) = DirsIn(g)
           /\ \A d \in DirsIn(g) : f.inode_tab[d] = g.inode_tab[d]
<1>1. DirsIn(f) = DirsIn(g) /\ \A d \in DirsIn(g) : f.inode_tab[d] = g.inode_tab[d]
  BY DEF Settled, SameKind, DirsIn
<1>2. ASSUME NEW d \in DirsIn(g), NEW i \in 0 .. NumOf(g.inode_tab[d]) - 1
      PROVE  PlaceIn(f, g.inode_tab[d], i) = PlaceIn(g, g.inode_tab[d], i)
  <2>1. i % DirPageEntries \in Positions /\ g.inode_tab[d].blocks[i \div DirPageEntries] \in Blocks
    BY PlaceFacts
  <2> QED
    BY <2>1 DEF PlaceIn, Settled
<1>3. \A d \in DirsIn(g) : NumOf(g.inode_tab[d]) \in Nat
  BY DirFacts
<1> QED
  BY <1>1, <1>2, <1>3 DEF Shows

\* While a creation adds its entry, the directories are those of the tree without it.
LEMMA AddsShows ==
    ASSUME NEW f, NEW g, FsInv(g), NEW j \in Job, Adds(f, g, j), j.pc \in LateStages
    PROVE  /\ Shows(f, g) /\ DirsIn(f) = DirsIn(g) \ {j.new}
           /\ NumOf(g.inode_tab[j.new]) = 0
           /\ \A d \in DirsIn(f) : (d = j.n /\ j.pc \in GrowingStages)
                                   \/ NumOf(f.inode_tab[d]) = NumOf(g.inode_tab[d])
           /\ j.pc \in GrowingStages => NumOf(f.inode_tab[j.n]) = LastOf(g, j.n)
           /\ PlaceIn(g, g.inode_tab[j.n], LastOf(g, j.n)).inode = j.new
           /\ LastOf(g, j.n) \in 0 .. NumOf(g.inode_tab[j.n]) - 1
<1> DEFINE n == j.n
           new == j.new
           last == LastOf(g, n)
           N(d) == NumOf(g.inode_tab[d])
           E(d, i) == PlaceIn(g, g.inode_tab[d], i)
<1>1. /\ n \in InodeNums /\ new \in InodeNums /\ new # n /\ n \in DirsIn(g) /\ N(n) > 0
      /\ j.type \in {"none", "file", "dir"}
  BY JobFields DEF Adds
<1>2. /\ last \in Nat /\ N(n) = last + 1 /\ last * DentrySize \in Nat
      /\ (last * DentrySize) \div DentrySize = last /\ last * DentrySize + DentrySize = (last + 1) * DentrySize
  BY <1>1, LastPlace
<1>3. \A m \in InodeNums \ {n, new} : SameKind(f, g, m)
  BY DEF Adds
<1>4. /\ f.inode_tab[n].type = "dir" /\ f.inode_tab[new].type = "none"
      /\ g.inode_tab[new] = InodeInit(j.type)
      /\ \A i \in Indices : f.inode_tab[n].blocks[i] = g.inode_tab[n].blocks[i]
      /\ f.inode_tab[n].size = IF j.pc \in GrowingStages THEN last * DentrySize ELSE g.inode_tab[n].size
  BY DEF Adds
<1>5. DirsIn(f) = DirsIn(g) \ {new} /\ n \in DirsIn(f)
      /\ \A d \in DirsIn(f) \ {n} : f.inode_tab[d] = g.inode_tab[d]
  BY <1>1, <1>3, <1>4 DEF SameKind, DirsIn
<1>6. NumOf(g.inode_tab[new]) = 0
  <2>1. g.inode_tab[new].size = 0
    BY <1>1, <1>4, NewInode
  <2> QED
    BY <2>1, BlockIsPage DEF NumOf
<1>7. /\ j.pc \in GrowingStages => NumOf(f.inode_tab[n]) = last
      /\ j.pc \notin GrowingStages => NumOf(f.inode_tab[n]) = N(n)
  <2> HIDE DEF last, n
  <2>1. j.pc \in GrowingStages => NumOf(f.inode_tab[n]) = last
    BY <1>2, <1>4 DEF NumOf
  <2>2. j.pc \notin GrowingStages => NumOf(f.inode_tab[n]) = N(n)
    BY <1>4 DEF NumOf
  <2> QED
    BY <2>1, <2>2
<1>8. last \in 0 .. N(n) - 1
  <2> HIDE DEF last, N
  <2> QED
    BY <1>2
<1>9. E(n, last).inode = new
  <2>1. g.page[LastPageOf(g, n)][LastPositionOf(g, n)] = [name |-> j.name, inode |-> j.new]
    BY DEF Adds
  <2>2. E(n, last) = g.page[LastPageOf(g, n)][LastPositionOf(g, n)]
    BY ZenonT(60) DEF PlaceIn, LastPageOf, LastPositionOf
  <2> QED
    BY <2>1, <2>2
<1>10. ASSUME NEW d \in DirsIn(f), NEW i \in 0 .. NumOf(f.inode_tab[d]) - 1, i \in 0 .. N(d) - 1
       PROVE  PlaceIn(f, f.inode_tab[d], i) = E(d, i)
  <2> DEFINE k == i \div DirPageEntries
             p == i % DirPageEntries
             b == g.inode_tab[d].blocks[k]
  <2>1. d \in DirsIn(g)
    BY <1>5
  <2>2. k \in Indices /\ p \in Positions /\ b \in Blocks
    BY <1>10, <2>1, PlaceFacts
  <2>3. f.inode_tab[d].blocks[k] = b
    BY <1>4, <1>5, <2>2
  <2>4. f.page[b][p] = g.page[b][p]
    <3>1. CASE b # LastPageOf(g, n) \/ p # LastPositionOf(g, n)
      BY <2>2, <3>1 DEF Adds
    <3>2. CASE b = LastPageOf(g, n) /\ p = LastPositionOf(g, n)
      <4>1. E(d, i) = E(n, last)
        BY <3>2 DEF PlaceIn, LastPageOf, LastPositionOf
      <4>2. d = n /\ i = last
        BY <1>1, <1>8, <1>10, <2>1, <4>1 DEF FsInv, TreeInv
      <4>3. j.pc \notin GrowingStages
        <5>1. i < NumOf(f.inode_tab[d]) \/ NumOf(f.inode_tab[d]) \notin Int
          BY <1>10
        <5> QED
          BY <1>2, <1>7, <4>2, <5>1
      <4>4. f.page[LastPageOf(g, n)][LastPositionOf(g, n)] = g.page[LastPageOf(g, n)][LastPositionOf(g, n)]
        BY <4>3 DEF Adds, GrowingStages, LateStages
      <4> QED
        BY <3>2, <4>4
    <3> QED
      BY <3>1, <3>2
  <2> QED
    BY <2>3, <2>4 DEF PlaceIn
<1>11. \A d \in DirsIn(f) : (d = n /\ j.pc \in GrowingStages) \/ NumOf(f.inode_tab[d]) = N(d)
  BY <1>5, <1>7
<1>12. ASSUME NEW d \in DirsIn(f)
       PROVE  /\ d \in DirsIn(g) /\ NumOf(f.inode_tab[d]) \in 0 .. N(d)
              /\ \A i \in 0 .. NumOf(f.inode_tab[d]) - 1 : i \in 0 .. N(d) - 1
  <2>1. d \in DirsIn(g) /\ N(d) \in Nat
    BY <1>5, DirFacts
  <2>2. CASE NumOf(f.inode_tab[d]) = N(d)
    BY <2>1, <2>2
  <2>3. CASE d = n /\ NumOf(f.inode_tab[d]) = last
    <3> HIDE DEF last, N
    <3> QED
      BY <1>2, <2>1, <2>3
  <2> QED
    BY <1>7, <1>11, <2>2, <2>3
<1>13. Shows(f, g)
  BY <1>10, <1>12 DEF Shows
<1> QED
  BY <1>5, <1>6, <1>7, <1>8, <1>9, <1>11, <1>13

\* Where the entry is that a creation adds.
LEMMA NewPlace ==
    ASSUME NEW f, NEW g, FsInv(g), NEW j \in Job, Adds(f, g, j), j.pc \in LateStages
    PROVE  /\ PlaceIn(g, g.inode_tab[j.n], LastOf(g, j.n)).inode = j.new
           /\ LastOf(g, j.n) \in 0 .. NumOf(g.inode_tab[j.n]) - 1
BY ZenonT(60), AddsShows

\* The directories of f are a tree, when no creation is between its entry and the mark of
\* its inode.
LEMMA CoreTree ==
    ASSUME NEW f, NEW g, FsInv(g),
           \/ Settled(f, g)
           \/ \E j \in Job : Adds(f, g, j) /\ j.pc \in {"entry", "name", "link", "init"}
    PROVE  /\ TreeInv(f)
           /\ \A d \in DirsIn(f) : LET num == NumOf(f.inode_tab[d]) IN num \in Nat /\ num <= ItabSize
<1> DEFINE N(d) == NumOf(g.inode_tab[d])
           E(d, i) == PlaceIn(g, g.inode_tab[d], i)
           M(d) == NumOf(f.inode_tab[d])
<1>1. Shows(f, g)
  BY SettledShows, AddsShows DEF LateStages
<1>2. /\ \A d \in DirsIn(g) : \A i \in 0 .. N(d) - 1 :
             E(d, i).name \in Names /\ E(d, i).inode \in g.inode_bmap \ {0, Root}
      /\ \A d, c \in DirsIn(g) : \A i \in 0 .. N(d) - 1, j \in 0 .. N(c) - 1 :
             E(d, i).inode = E(c, j).inode => d = c /\ i = j
      /\ \A n \in g.inode_bmap \ {0, Root} :
             \E d \in DirsIn(g) : \E i \in 0 .. N(d) - 1 : E(d, i).inode = n
  BY DEF FsInv, TreeInv
<1>3. ASSUME NEW d \in DirsIn(f)
      PROVE  /\ d \in DirsIn(g) /\ M(d) \in Nat /\ M(d) <= ItabSize
             /\ \A i \in 0 .. M(d) - 1 : i \in 0 .. N(d) - 1 /\ PlaceIn(f, f.inode_tab[d], i) = E(d, i)
  <2>1. d \in DirsIn(g) /\ M(d) \in 0 .. N(d)
    BY <1>1 DEF Shows
  <2>2. N(d) \in Nat /\ N(d) <= ItabSize - 2 /\ ItabSize \in Nat
    BY <2>1, DirFacts, NumBound, InodesAssumption
  <2>3. \A i \in 0 .. M(d) - 1 : PlaceIn(f, f.inode_tab[d], i) = E(d, i)
    BY <1>1 DEF Shows
  <2> HIDE DEF N, M, E
  <2> QED
    BY <2>1, <2>2, <2>3
<1>4. /\ \A d \in DirsIn(f) : \A i \in 0 .. M(d) - 1 : E(d, i).inode \in f.inode_bmap
      /\ \A n \in f.inode_bmap \ {0, Root} :
            \E d \in DirsIn(f) : \E i \in 0 .. M(d) - 1 : E(d, i).inode = n
  <2>1. CASE Settled(f, g)
    <3>1. f.inode_bmap = g.inode_bmap /\ DirsIn(f) = DirsIn(g) /\ \A d \in DirsIn(g) : M(d) = N(d)
      BY <2>1, SettledShows DEF Settled
    <3> HIDE DEF N, M, E
    <3> QED
      BY <1>2, <3>1
  <2>2. ASSUME NEW j \in Job, Adds(f, g, j), j.pc \in {"entry", "name", "link", "init"}
        PROVE  /\ \A d \in DirsIn(f) : \A i \in 0 .. M(d) - 1 : E(d, i).inode \in f.inode_bmap
               /\ \A n \in f.inode_bmap \ {0, Root} :
                     \E d \in DirsIn(f) : \E i \in 0 .. M(d) - 1 : E(d, i).inode = n
    <3> DEFINE last == LastOf(g, j.n)
               grows == j.pc \in GrowingStages
    <3>1. /\ DirsIn(f) = DirsIn(g) \ {j.new}
          /\ N(j.new) = 0
          /\ \A d \in DirsIn(f) : (d = j.n /\ grows) \/ M(d) = N(d)
          /\ grows => M(j.n) = last
          /\ E(j.n, last).inode = j.new
          /\ last \in 0 .. N(j.n) - 1
      <4>1. j.pc \in LateStages
        BY <2>2 DEF LateStages
      <4>2. /\ Shows(f, g) /\ DirsIn(f) = DirsIn(g) \ {j.new}
            /\ NumOf(g.inode_tab[j.new]) = 0
            /\ \A d \in DirsIn(f) : (d = j.n /\ j.pc \in GrowingStages)
                                    \/ NumOf(f.inode_tab[d]) = NumOf(g.inode_tab[d])
            /\ j.pc \in GrowingStages => NumOf(f.inode_tab[j.n]) = LastOf(g, j.n)
            /\ PlaceIn(g, g.inode_tab[j.n], LastOf(g, j.n)).inode = j.new
            /\ LastOf(g, j.n) \in 0 .. NumOf(g.inode_tab[j.n]) - 1
        BY <2>2, <4>1, AddsShows
      <4> QED
        BY <4>2
    <3>2. /\ j.n \in DirsIn(g) /\ last = N(j.n) - 1
          /\ grows => f.inode_bmap = g.inode_bmap \ {j.new}
          /\ ~grows => f.inode_bmap = g.inode_bmap
      <4>1. j.n \in DirsIn(g) /\ last = N(j.n) - 1
        BY <2>2 DEF Adds, LastOf
      <4>2. grows => f.inode_bmap = g.inode_bmap \ {j.new}
        BY <2>2 DEF Adds, GrowingStages
      <4>3. ~grows => f.inode_bmap = g.inode_bmap
        BY <2>2 DEF Adds, GrowingStages
      <4> QED
        BY <4>1, <4>2, <4>3
    <3> HIDE DEF N, M, E, last, grows
    <3>3. ASSUME NEW d \in DirsIn(f), NEW i \in 0 .. M(d) - 1
          PROVE  E(d, i).inode \in f.inode_bmap
      <4>1. d \in DirsIn(g) /\ i \in 0 .. N(d) - 1 /\ E(d, i).inode \in g.inode_bmap
        BY <1>2, <1>3
      <4>2. grows => E(d, i).inode # j.new
        <5>1. ASSUME grows, E(d, i).inode = j.new
              PROVE  FALSE
          <6>1. d = j.n /\ i = last
            BY <1>2, <3>1, <3>2, <4>1, <5>1
          <6>2. M(d) = last /\ M(d) \in Nat
            BY <1>3, <3>1, <5>1, <6>1
          <6> QED
            BY <6>1, <6>2
        <5> QED
          BY <5>1
      <4> QED
        BY <3>2, <4>1, <4>2
    <3>4. ASSUME NEW n \in f.inode_bmap \ {0, Root}
          PROVE  \E d \in DirsIn(f) : \E i \in 0 .. M(d) - 1 : E(d, i).inode = n
      <4>1. n \in g.inode_bmap \ {0, Root}
        BY <3>2
      <4>2. PICK d \in DirsIn(g) : \E i \in 0 .. N(d) - 1 : E(d, i).inode = n
        BY <1>2, <4>1
      <4>3. PICK i \in 0 .. N(d) - 1 : E(d, i).inode = n
        BY <4>2
      <4>4. d \in DirsIn(f)
        BY <3>1, <4>3
      <4>5. CASE M(d) = N(d)
        BY <4>3, <4>4, <4>5
      <4>6. CASE d = j.n /\ grows
        <5>1. i # last
          BY <3>1, <3>2, <4>3, <4>6
        <5>2. M(d) = last /\ last = N(d) - 1 /\ M(d) \in Nat
          BY <1>3, <3>1, <3>2, <4>4, <4>6
        <5> HIDE DEF N, M
        <5>3. i \in 0 .. M(d) - 1
          BY <4>3, <5>1, <5>2
        <5> QED
          BY <4>3, <4>4, <5>3
      <4> QED
        BY <3>1, <4>4, <4>5, <4>6
    <3> QED
      BY <3>3, <3>4
  <2> QED
    BY <2>1, <2>2
<1>5. TreeInv(f)
  <2>1. \A d \in DirsIn(f) : \A i \in 0 .. M(d) - 1 : LET e == PlaceIn(f, f.inode_tab[d], i) IN
            e.name \in Names /\ e.inode \in f.inode_bmap \ {0, Root}
    <3> HIDE DEF N, M, E
    <3> QED
      BY <1>2, <1>3, <1>4
  <2>2. \A d, c \in DirsIn(f) : \A i \in 0 .. M(d) - 1, j \in 0 .. M(c) - 1 :
            PlaceIn(f, f.inode_tab[d], i).inode = PlaceIn(f, f.inode_tab[c], j).inode => d = c /\ i = j
    <3> HIDE DEF N, M, E
    <3> QED
      BY <1>2, <1>3
  <2>3. \A n \in f.inode_bmap \ {0, Root} :
            \E d \in DirsIn(f) : \E i \in 0 .. M(d) - 1 : PlaceIn(f, f.inode_tab[d], i).inode = n
    <3> HIDE DEF N, M, E
    <3> QED
      BY <1>3, <1>4
  <2> QED
    BY <2>1, <2>2, <2>3 DEF TreeInv
<1> QED
  BY <1>3, <1>5
\* Whenever no creation is between its entry and the mark of its inode, the directories form
\* a tree on the disk, unless creations overlap, blocks are allocated within one or the inode
\* behind a pointer was replaced (fs.c:921-948).
THEOREM OnlyRacesBreakTheTree == CSpec => []BrokenTreeNeedsRace
<1>1. ASSUME ShapeInv, CoreInv, Without(Shuffling), \A p \in Workers : job[p].pc \notin {"extend", "mark"}
      PROVE  TreeIntact
  <2>1. "full" \notin races
    BY <1>1 DEF CoreInv
  <2>2. \A p \in Workers : job[p] \in Job
    BY <1>1, <2>1 DEF ShapeInv, Without, Shape, JobFits
  <2>3. PICK g : Core(g)
    BY <1>1 DEF CoreInv
  <2>4. FsInv(g) /\ Skeleton(fs, g, job)
    BY <2>3 DEF Core, Skeleton
  <2>5. \/ Settled(fs, g)
        \/ \E j \in Job : Adds(fs, g, j) /\ j.pc \in {"entry", "name", "link", "init"}
    <3>1. CASE \A q \in Workers : job[q].pc \notin LateStages
      BY <2>4, <3>1 DEF Skeleton
    <3>2. ASSUME NEW q \in Workers, job[q].pc \in LateStages
          PROVE  Adds(fs, g, job[q]) /\ job[q].pc \in {"entry", "name", "link", "init"}
      BY <1>1, <2>4, <3>2 DEF Skeleton, LateStages
    <3> QED
      BY <2>2, <3>1, <3>2
  <2>6. /\ TreeInv(fs)
        /\ \A d \in DirsIn(fs) : LET num == NumOf(fs.inode_tab[d]) IN num \in Nat /\ num <= ItabSize
    BY <2>4, <2>5, CoreTree
  <2> QED
    BY <2>6, MentionedOnce DEF TreeIntact
<1>2. ShapeInv /\ CoreInv => BrokenTreeNeedsRace
  BY <1>1 DEF BrokenTreeNeedsRace
<1> QED
  BY ShapeIsKept, TreeIsThere, <1>2, PTL

\* A transfer has its block, and takes it from its file.
LEMMA TargetIsOwn ==
    ASSUME Shape, Unshared, NEW p \in Workers, Pointing(fs, job[p]), job[p].pc \in {"read", "write"}
    PROVE  /\ Target(p) # 0
           /\ \A n \in InodeNums \ {job[p].n} : \A x \in Copies(n) : Target(p) \notin BlocksOf(x)
<1> DEFINE j == job[p]
           y == Deref(fs, j.at, j.n)
           need == OffsetToBlocks(j.off + j.cnt)
<1>1. j \in Job /\ j.n \in InodeNums /\ j.at \in ISlots \cup {TableRef} /\ j.k \in Nat /\ j.off + j.cnt \in Nat
  BY JobFields, PointerTyped DEF Shape, JobFits
<1>2. /\ j.at # TableRef => fs.inode_cache[j.at].num = j.n
      /\ Fits(y, j.off + j.cnt) /\ j.k * BlockSize < j.off + j.cnt
  BY StageFacts DEF Pointing
<1>3. j.k \in Indices /\ y.blocks[j.k] # 0
  <2> HIDE DEF j, y
  <2>1. need \in Nat /\ j.k < need
    BY <1>1, <1>2, CeilLess
  <2>2. need <= InodeNumBlks /\ \A i \in Indices : i < need => y.blocks[i] # 0
    BY <1>2 DEF Fits
  <2>3. j.k \in Indices
    BY <1>1, <2>1, <2>2, InodesAssumption DEF Indices
  <2> QED
    BY <2>1, <2>2, <2>3
<1>4. y \in CopiesIn(fs, j.n)
  BY <1>1, <1>2 DEF Deref, CopiesIn, CachedAt
<1>5. Target(p) = y.blocks[j.k]
  BY DEF Target, FileOf
<1>6. Target(p) \in BlocksOf(y)
  BY <1>3, <1>5 DEF BlocksOf
<1>7. \A n \in InodeNums \ {j.n} : \A x \in CopiesIn(fs, n) : BlocksOf(x) \cap BlocksOf(y) = {}
  BY <1>1, <1>4 DEF Unshared
<1> QED
  BY <1>3, <1>5, <1>6, <1>7, SameCopies

\* The loops of fs_read and fs_write take every block from the file they were called for, and
\* none is missing, unless the inode behind the pointer was replaced, creations overlap or
\* blocks are allocated within one (fs.c:533-537, 694, 826).
THEOREM OnlyRacesStray == CSpec => []StrayTransferNeedsRace
<1>1. ASSUME ShapeInv, SharingInv, CoreInv, Without(Shuffling)
      PROVE  /\ SizeCovered
             /\ \A p \in Workers : job[p].pc \in {"read", "write"} =>
                   /\ Target(p) # 0
                   /\ \A n \in InodeNums \ {job[p].n} : \A x \in Copies(n) : Target(p) \notin BlocksOf(x)
  <2>1. "full" \notin races
    BY <1>1 DEF CoreInv
  <2>2. PICK g : Core(g)
    BY <1>1 DEF CoreInv
  <2>3. Shape /\ Unshared
    BY <1>1, <2>1 DEF ShapeInv, SharingInv, Without, Shuffling
  <2>4. FilesInv(fs) /\ \A p \in Workers : Pointing(fs, job[p])
    BY <2>2 DEF Core
  <2>5. SizeCovered
    BY <2>4, SameCopies DEF FilesInv, Covers, Covered, SizeCovered
  <2> QED
    BY <2>3, <2>4, <2>5, TargetIsOwn
<1>2. ShapeInv /\ SharingInv /\ CoreInv => StrayTransferNeedsRace
  BY <1>1 DEF StrayTransferNeedsRace, Shuffling
<1>3. ShapeInv /\ SharingInv /\ [CNext]_cvars => SharingInv'
  BY SharingNext
<1> QED
  BY ShapeIsKept, SharingInit, TreeIsThere, <1>2, <1>3, PTL DEF CSpec
-----------------------------------------------------------------------------
(* What cached pages and the pages that threads hold say.                  *)

\* The stages in which the new entry is not on the disk.
FreshStages == {"entry", "name", "link"}

\* Entry e of directory d is in the tree, and none that is still to be written.
Honest(g, js, e, d) ==
    e.name # NoName =>
        /\ d \in DirsIn(g) /\ e \in EntriesIn(g, d)
        /\ \A q \in Workers : js[q].pc \in FreshStages => e.inode # js[q].new

PagesTrue(f, g, js) ==
    \A i \in DSlots, r \in Positions : Honest(g, js, f.dir_cache[i].entries[r], f.dir_cache[i].dir)

\* The block that job j is to read is of its directory, and the page that it read is true.
JobTrue(g, js, j) ==
    /\ j.pc \in {"load", "fill"} /\ j.block # 0 =>
          j.n \in DirsIn(g) /\ j.block \in BlocksOf(g.inode_tab[j.n])
    /\ j.pc = "fill" => \A r \in Positions : Honest(g, js, j.page[r], j.n)

\* A directory has the blocks that it has in the tree.
LEMMA BlocksShown ==
    ASSUME NEW f, NEW g, FsInv(g), NEW js, \A q \in Workers : js[q] \in Job,
           Skeleton(f, g, js), NEW d \in DirsIn(f)
    PROVE  d \in DirsIn(g) /\ \A k \in Indices : f.inode_tab[d].blocks[k] = g.inode_tab[d].blocks[k]
<1>1. CASE \A q \in Workers : js[q].pc \notin LateStages
  <2>1. Settled(f, g)
    BY <1>1 DEF Skeleton
  <2> QED
    BY <2>1, SettledShows
<1>2. ASSUME NEW q \in Workers, js[q].pc \in LateStages
      PROVE  d \in DirsIn(g) /\ \A k \in Indices : f.inode_tab[d].blocks[k] = g.inode_tab[d].blocks[k]
  <2> DEFINE j == js[q]
  <2>1. Adds(f, g, j) /\ j \in Job
    BY <1>2 DEF Skeleton
  <2>2. d \in DirsIn(g) /\ d # j.new
    <3>1. j.pc \in LateStages
      BY <1>2
    <3> HIDE DEF j
    <3>2. DirsIn(f) = DirsIn(g) \ {j.new}
      BY <2>1, <3>1, AddsShows
    <3> QED
      BY <3>2
  <2>3. CASE d = j.n
    BY <2>1, <2>2, <2>3 DEF Adds
  <2>4. CASE d # j.n
    BY <2>1, <2>2, <2>4 DEF Adds, SameKind, DirsIn
  <2> QED
    BY <2>2, <2>3, <2>4
<1> QED
  BY <1>1, <1>2

\* What a page of a directory says on the disk, unless its last entry is half written.
LEMMA DiskHonest ==
    ASSUME NEW f, NEW g, FsInv(g), NEW js, \A q \in Workers : js[q] \in Job, Skeleton(f, g, js),
           NEW d \in DirsIn(g), NEW b \in BlocksOf(g.inode_tab[d]), NEW r \in Positions,
           \A q \in Workers : ~(js[q].pc = "link" /\ js[q].block = b)
    PROVE  Honest(g, js, f.page[b][r], d)
<1> SUFFICES ASSUME f.page[b][r].name # NoName
             PROVE  /\ f.page[b][r] \in EntriesIn(g, d)
                    /\ \A q \in Workers : js[q].pc \in FreshStages => f.page[b][r].inode # js[q].new
  BY DEF Honest
<1> DEFINE N(c) == NumOf(g.inode_tab[c])
           E(c, i) == PlaceIn(g, g.inode_tab[c], i)
           D == DirPageEntries
           e == g.page[b][r]
<1>1. PICK k \in Indices : g.inode_tab[d].blocks[k] = b
  BY DEF BlocksOf
<1>2. b \in Blocks
  <2>1. b \in g.blk_bmap /\ g \in FsStruct
    BY DirFacts DEF FsInv
  <2> QED
    BY <2>1, Fields
<1>3. N(d) \in Nat /\ D \in Nat \ {0} /\ k \in Nat /\ r \in 0 .. D - 1
  BY <1>1, DirFacts, DirectoriesAssumption, InodesAssumption DEF Indices, Positions
<1>4. ASSUME NEW i \in 0 .. N(d) - 1, i = k * D + r
      PROVE  i \div D = k /\ i % D = r /\ E(d, i) = e
  <2>1. i \div D = k /\ i % D = r
    BY <1>3, <1>4, DivUnique
  <2> QED
    BY <1>1, <2>1 DEF PlaceIn
<1>5. ASSUME NEW q \in Workers, js[q].pc \in LateStages,
             b # LastPageOf(g, js[q].n) \/ r # LastPositionOf(g, js[q].n) \/ js[q].pc \notin FreshStages
      PROVE  f.page[b][r] = e
  <2>1. Adds(f, g, js[q])
    BY <1>5 DEF Skeleton
  <2>2. CASE b # LastPageOf(g, js[q].n) \/ r # LastPositionOf(g, js[q].n)
    BY <1>2, <2>1, <2>2 DEF Adds
  <2>3. CASE js[q].pc \notin FreshStages /\ b = LastPageOf(g, js[q].n) /\ r = LastPositionOf(g, js[q].n)
    <3>1. js[q].pc \in {"extend", "mark", "init"}
      BY <1>5, <2>3 DEF LateStages, FreshStages
    <3> QED
      BY <2>1, <2>3, <3>1 DEF Adds
  <2> QED
    BY <1>5, <2>2, <2>3
<1>6. ASSUME NEW q \in Workers, js[q].pc \in FreshStages
      PROVE  b # LastPageOf(g, js[q].n) \/ r # LastPositionOf(g, js[q].n)
  <2>1. Adds(f, g, js[q])
    BY <1>6 DEF Skeleton, LateStages, FreshStages
  <2> SUFFICES ASSUME b = LastPageOf(g, js[q].n), r = LastPositionOf(g, js[q].n)
               PROVE  FALSE
    OBVIOUS
  <2>2. js[q].pc # "link"
    BY <2>1 DEF Adds
  <2>3. f.page[b][r] = NoDentry
    BY <1>6, <2>1, <2>2 DEF Adds, FreshStages
  <2> QED
    BY <2>3 DEF NoDentry
<1>7. f.page[b][r] = e
  <2>1. CASE \A q \in Workers : js[q].pc \notin LateStages
    BY <1>2, <2>1 DEF Skeleton, Settled
  <2> QED
    BY <1>5, <1>6, <2>1
<1>8. k * D + r < N(d)
  <2>1. ~(k * D + r >= N(d))
    <3>1. b # 0
      BY DEF BlocksOf
    <3>2. e # NoDentry
      BY <1>7 DEF NoDentry
    <3> QED
      BY <1>1, <3>1, <3>2 DEF FsInv, PagesInv
  <2>2. k * D \in Nat /\ k * D + r \in Nat
    BY <1>3
  <2> HIDE DEF D, N
  <2> QED
    BY <1>3, <2>1, <2>2
<1> DEFINE i == k * D + r
<1>9. i \in 0 .. N(d) - 1
  <2>1. i \in Nat
    BY <1>3
  <2> HIDE DEF i, N
  <2>2. i < N(d)
    BY <1>8 DEF i
  <2> QED
    BY <1>3, <2>1, <2>2
<1>10. i \div D = k /\ i % D = r /\ E(d, i) = e
  BY <1>4, <1>9
<1> HIDE DEF i
<1>11. e \in EntriesIn(g, d)
  BY <1>9, <1>10 DEF EntriesIn
<1>12. ASSUME NEW q \in Workers, js[q].pc \in FreshStages
       PROVE  e.inode # js[q].new
  <2> DEFINE n == js[q].n
             last == LastOf(g, n)
  <2>1. Adds(f, g, js[q]) /\ js[q].pc \in LateStages
    BY <1>12 DEF Skeleton, LateStages, FreshStages
  <2>2. E(n, last).inode = js[q].new /\ last \in 0 .. N(n) - 1
    <3> DEFINE j == js[q]
    <3>1. j \in Job /\ Adds(f, g, j) /\ j.pc \in LateStages
      BY <2>1
    <3> HIDE DEF j
    <3>2. /\ PlaceIn(g, g.inode_tab[j.n], LastOf(g, j.n)).inode = j.new
          /\ LastOf(g, j.n) \in 0 .. NumOf(g.inode_tab[j.n]) - 1
      BY <3>1, NewPlace
    <3> QED
      BY <3>2 DEF j
  <2>3. n \in DirsIn(g)
    BY <2>1 DEF Adds
  <2>4. ASSUME e.inode = js[q].new
        PROVE  FALSE
    <3>1. d = n /\ i = last
      BY <1>9, <1>10, <2>2, <2>3, <2>4 DEF FsInv, TreeInv
    <3>2. b = LastPageOf(g, n) /\ r = LastPositionOf(g, n)
      BY <1>1, <1>10, <3>1 DEF LastPageOf, LastPositionOf
    <3> QED
      BY <1>6, <1>12, <3>2
  <2> QED
    BY <2>4
<1> QED
  BY <1>7, <1>11, <1>12
\* A directory keeps its blocks when an entry is added to the tree.
LEMMA BlocksStay ==
    ASSUME NEW g, FsInv(g), NEW d \in DirsIn(g), NEW n \in FreeInodes(g), NEW type \in {"dir", "file"},
           NEW e, NEW b, NEW g2, EntryAdded(g, g2, d, n, type, e, b), NEW c \in DirsIn(g)
    PROVE  BlocksOf(g.inode_tab[c]) \subseteq BlocksOf(g2.inode_tab[c])
<1>1. CASE c # d
  <2>1. g2.inode_tab[c] = g.inode_tab[c]
    BY <1>1, AddedPlaces
  <2> QED
    BY <2>1
<1>2. CASE c = d
  <2> DEFINE x == g.inode_tab[d]
             num == NumOf(x)
             k == num \div DirPageEntries
             r == num % DirPageEntries
  <2>1. /\ k \in Indices /\ r \in Positions /\ num = k * DirPageEntries + r
        /\ r # 0 => b = x.blocks[k]
        /\ \A i \in Indices : g2.inode_tab[d].blocks[i] = IF i = k THEN b ELSE x.blocks[i]
    BY DEF EntryAdded
  <2>2. r = 0 => x.blocks[k] = 0
    <3>1. \A i \in Indices : x.blocks[i] # 0 => i * DirPageEntries < num
      BY DEF FsInv, PagesInv
    <3>2. k * DirPageEntries \in Nat
      BY <2>1, DirectoriesAssumption, InodesAssumption DEF Indices
    <3> HIDE DEF x, num, k, r
    <3> QED
      BY <2>1, <3>1, <3>2
  <2> HIDE DEF x, num, k, r
  <2>3. \A i \in Indices : x.blocks[i] # 0 => g2.inode_tab[d].blocks[i] = x.blocks[i]
    BY <2>1, <2>2
  <2> QED
    BY <1>2, <2>3 DEF BlocksOf, x
<1> QED
  BY <1>1, <1>2

\* What is true of the tree stays true while a creation goes on, and when the next one
\* comes to its entry.
LEMMA HonestStays ==
    ASSUME NEW g, NEW js, NEW js2, NEW p \in Workers, \A q \in Workers \ {p} : js2[q] = js[q],
           js2[p].pc \in FreshStages => js[p].pc \in FreshStages /\ js2[p].new = js[p].new
    PROVE  \A e, d : Honest(g, js, e, d) => Honest(g, js2, e, d)
<1>1. \A q \in Workers : js2[q].pc \in FreshStages => js[q].pc \in FreshStages /\ js2[q].new = js[q].new
  OBVIOUS
<1> QED
  BY <1>1 DEF Honest

\* It stays true when the tree gets an entry.
LEMMA HonestGrows ==
    ASSUME NEW g, FsInv(g), NEW g2, NEW js, NEW js2, NEW p \in Workers,
           \A q \in Workers \ {p} : js2[q] = js[q] /\ js[q].pc \notin FreshStages,
           NEW f, NEW k, k = js2[p], Foreseen(g, g2, f, k)
    PROVE  /\ \A e, d : Honest(g, js, e, d) => Honest(g2, js2, e, d)
           /\ \A d \in DirsIn(g) : d \in DirsIn(g2)
                                   /\ BlocksOf(g.inode_tab[d]) \subseteq BlocksOf(g2.inode_tab[d])
<1> DEFINE n == k.n
           new == k.new
           type == k.type
           x == [name |-> k.name, inode |-> new]
<1>1. /\ n \in DirsIn(g) /\ new \in FreeInodes(g) /\ type \in {"dir", "file"}
      /\ \E b : EntryAdded(g, g2, n, new, type, x, b)
  BY DEF Foreseen
<1>2. PICK b : EntryAdded(g, g2, n, new, type, x, b)
  BY <1>1
<1> HIDE DEF n, type, x
<1>3. /\ DirsIn(g) \subseteq DirsIn(g2)
      /\ NumOf(g2.inode_tab[n]) = NumOf(g.inode_tab[n]) + 1
      /\ \A c \in DirsIn(g) \ {n} : g2.inode_tab[c] = g.inode_tab[c]
      /\ \A c \in DirsIn(g) : \A i \in 0 .. NumOf(g.inode_tab[c]) - 1 :
            PlaceIn(g2, g2.inode_tab[c], i) = PlaceIn(g, g.inode_tab[c], i)
  <2> HIDE DEF new
  <2> QED
    BY <1>1, <1>2, AddedPlaces
<1>4. ASSUME NEW e, NEW d, Honest(g, js, e, d)
      PROVE  Honest(g2, js2, e, d)
  <2> SUFFICES ASSUME e.name # NoName
               PROVE  Honest(g2, js2, e, d)
    BY DEF Honest
  <2>1. d \in DirsIn(g) /\ e \in EntriesIn(g, d)
    BY <1>4 DEF Honest
  <2>2. PICK i \in 0 .. NumOf(g.inode_tab[d]) - 1 : e = PlaceIn(g, g.inode_tab[d], i)
    BY <2>1 DEF EntriesIn
  <2>3. d \in DirsIn(g2) /\ e = PlaceIn(g2, g2.inode_tab[d], i)
    BY <1>3, <2>1, <2>2
  <2>4. i \in 0 .. NumOf(g2.inode_tab[d]) - 1
    <3> DEFINE a == NumOf(g.inode_tab[d])
               c == NumOf(g2.inode_tab[d])
    <3>1. a \in Nat /\ (c = a \/ c = a + 1)
      BY <1>3, <2>1, DirFacts
    <3> HIDE DEF a, c
    <3>2. i \in 0 .. a - 1
      BY <2>2 DEF a
    <3>3. i \in 0 .. c - 1
      BY <3>1, <3>2
    <3> QED
      BY <3>3 DEF c
  <2>5. e \in EntriesIn(g2, d)
    BY <2>3, <2>4 DEF EntriesIn
  <2>6. e.inode # new
    <3>1. e.inode \in g.inode_bmap
      BY <2>1, <2>2 DEF FsInv, TreeInv
    <3>2. new \notin g.inode_bmap
      BY <1>1 DEF FreeInodes
    <3> QED
      BY <3>1, <3>2
  <2>7. \A q \in Workers : js2[q].pc \in FreshStages => e.inode # js2[q].new
    BY <2>6
  <2> QED
    BY <2>3, <2>5, <2>7 DEF Honest
<1>5. ASSUME NEW d \in DirsIn(g)
      PROVE  BlocksOf(g.inode_tab[d]) \subseteq BlocksOf(g2.inode_tab[d])
  <2> HIDE DEF new
  <2> QED
    BY <1>1, <1>2, BlocksStay
<1> QED
  BY <1>3, <1>4, <1>5

\* So does what other jobs hold.
LEMMA JobTrueStays ==
    ASSUME NEW g, NEW g2, NEW js, NEW js2,
           \A e, d : Honest(g, js, e, d) => Honest(g2, js2, e, d),
           \A d \in DirsIn(g) : d \in DirsIn(g2) /\ BlocksOf(g.inode_tab[d]) \subseteq BlocksOf(g2.inode_tab[d]),
           NEW j, JobTrue(g, js, j)
    PROVE  JobTrue(g2, js2, j)
BY DEF JobTrue
\* How a job comes to read a page.
LEMMA ReadReached ==
    ASSUME Shape, NEW p \in Workers, NEW k, LeadsTo(p, k), k.pc \in {"load", "fill"}
    PROVE  fs' = fs /\ (Missing(job[p], k) \/ Loaded(job[p], k))
<1>1. ~SearchBegun(p, k) /\ ~PageSearched(p, k)
  BY StageAfterSearch
<1>2. /\ ~ReadStarted(p, k) /\ ~WriteStarted(p, k) /\ ~SizeSet(p, k) /\ ~AttrsGiven(p, k)
      /\ ~Reserved1(p, k) /\ ~NameWritten(p, k) /\ ~LinkWritten(p, k) /\ ~DirExtended(p, k)
      /\ ~InodeMarked(p, k) /\ ~InodeMade(p, k)
  BY StageAfterChange
<1>3. /\ ~Counted(job[p], k) /\ ~Arrived(job[p], k) /\ ~InodeChosen(job[p], k)
      /\ ~BlockChosen(job[p], k) /\ ~EntryPageRead(job[p], k) /\ ~ReadChecked(job[p], k)
      /\ ~Transferred(job[p], k) /\ ~GrowthTested(job[p], k)
  BY StageAfterQuiet
<1> QED
  BY <1>1, <1>2, <1>3 DEF LeadsTo, Quieted, QuietMove, Created

\* The block that a job comes to read is of its directory, and the page that it reads is true.
LEMMA ReadTrue ==
    ASSUME Shape, NEW g, Core(g), NEW p \in Workers, JobTrue(g, job, job[p]), NEW k,
           LeadsTo(p, k), Becomes(p, k), ~EntryRace(p), k.pc \in {"load", "fill"}
    PROVE  JobTrue(g, job, k)
<1> DEFINE j == job[p]
<1>1. /\ JobFits(j) /\ j \in Job /\ fs \in FsStruct /\ \A q \in Workers : job[q] \in Job
  BY DEF Shape, JobFits
<1>2. FsInv(g) /\ Skeleton(fs, g, job) /\ Planned(fs, j)
  BY DEF Core, Skeleton
<1>3. Missing(j, k) \/ Loaded(j, k)
  BY ReadReached
<1>4. job'[p] = k
  BY JobAfter
<1>5. CASE Missing(j, k)
  <2>1. j.pc = "page" /\ k = [j EXCEPT !.pc = "load", !.block = fs.inode_tab[j.n].blocks[j.k]]
    BY <1>5 DEF Missing
  <2>2. j.n \in DirsIn(fs) /\ j.k \in Indices
    <3>1. fs.inode_tab[j.n].type = "dir" /\ j.n \in InodeNums
      BY <1>1, <1>2, <2>1, JobFields DEF Planned, SearchStages
    <3>2. j.k \in Nat /\ j.num \in Nat /\ j.num <= InodeNumBlks * DirPageEntries
          /\ j.k * DirPageEntries < j.num
      BY <1>1, <2>1, JobFields DEF JobFits
    <3> HIDE DEF j
    <3> QED
      BY <3>1, <3>2, PageIndex DEF DirsIn
  <2>3. j.n \in DirsIn(g) /\ fs.inode_tab[j.n].blocks[j.k] = g.inode_tab[j.n].blocks[j.k]
    BY <1>1, <1>2, <2>2, BlocksShown
  <2>4. k.pc = "load" /\ k.n = j.n /\ k.block = fs.inode_tab[j.n].blocks[j.k]
    <3> DEFINE b == fs.inode_tab[j.n].blocks[j.k]
    <3> HIDE DEF j, b
    <3>1. k = [j EXCEPT !.pc = "load", !.block = b]
      BY <2>1 DEF b
    <3>2. k.pc = "load" /\ k.n = j.n /\ k.block = b
      BY <1>1, <3>1 DEF Job
    <3> QED
      BY <3>2 DEF b
  <2> QED
    BY <2>2, <2>3, <2>4 DEF JobTrue, BlocksOf
<1>6. CASE Loaded(j, k)
  <2>1. j.pc = "load" /\ k.pc = "fill" /\ k.n = j.n /\ k.block = j.block /\ k.page = DiskPage(j.block)
    <3> DEFINE page == DiskPage(j.block)
    <3> HIDE DEF j, page
    <3>1. j.pc = "load" /\ k = [j EXCEPT !.pc = "fill", !.page = page]
      BY <1>6 DEF Loaded, page
    <3>2. k.pc = "fill" /\ k.n = j.n /\ k.block = j.block /\ k.page = page
      BY <1>1, <3>1 DEF Job
    <3> QED
      BY <3>1, <3>2 DEF page
  <2>2. j.block # 0 => j.n \in DirsIn(g) /\ j.block \in BlocksOf(g.inode_tab[j.n])
    BY <2>1 DEF JobTrue
  <2>3. \A q \in Workers : ~(job[q].pc = "link" /\ job[q].block = j.block)
    BY <1>4, <2>1 DEF EntryRace
  <2>4. ASSUME NEW r \in Positions
        PROVE  Honest(g, job, k.page[r], k.n)
    <3>1. CASE j.block = 0
      <4>1. k.page[r].name = NoName
        BY <2>1, <3>1 DEF DiskPage, ZeroPage, NoDentry
      <4> QED
        BY <4>1 DEF Honest
    <3>2. CASE j.block # 0
      <4> DEFINE b == j.block
      <4>1. k.page[r] = fs.page[b][r]
        BY <2>1, <3>2 DEF DiskPage
      <4>2. Honest(g, job, fs.page[b][r], j.n)
        <5> HIDE DEF j
        <5> QED
          BY <1>1, <1>2, <2>2, <2>3, <3>2, DiskHonest
      <4> QED
        BY <2>1, <4>1, <4>2
    <3> QED
      BY <3>1, <3>2
  <2> QED
    BY <2>1, <2>2, <2>4 DEF JobTrue
<1> QED
  BY <1>3, <1>5, <1>6

\* A step leaves true pages in the cache.
LEMMA PagesStayTrue ==
    ASSUME Shape, ~Overflow, ~SlotRace, NEW g, PagesTrue(fs, g, job), NEW p \in Workers,
           JobTrue(g, job, job[p]), NEW k, LeadsTo(p, k)
    PROVE  PagesTrue(fs', g, job)
<1> DEFINE j == job[p]
<1>1. JobFits(j) /\ j \in Job
  BY DEF Shape, JobFits
<1>2. CASE fs'.dir_cache = fs.dir_cache \/ SlotsSay(fs, fs')
  BY <1>2 DEF PagesTrue, SlotsSay
<1>3. CASE PageSearched(p, k)
  <2>1. PICK page : PageAtHand(p, page) /\ SaidFrom(fs, fs', page, Turned(j))
    BY <1>3 DEF PageSearched
  <2>2. \A r \in Positions : Honest(g, job, page[r], j.n)
    <3>1. CASE j.pc = "page" /\ \E i \in DSlots : fs.dir_cache[i].dir = j.n /\ page = fs.dir_cache[i].entries
      BY <3>1 DEF PagesTrue
    <3>2. CASE j.pc = "fill" /\ page = j.page
      BY <3>2 DEF JobTrue
    <3> QED
      BY <2>1, <3>1, <3>2 DEF PageAtHand
  <2>3. Turned(j) \subseteq {j.n}
    <3>1. j.hit # DirCacheSize => fs.dir_cache[j.hit].dir = j.n
      BY DEF SlotRace
    <3>2. DirCacheSize \notin DSlots
      BY DirectoriesAssumption DEF DSlots
    <3> QED
      BY <3>1, <3>2 DEF Turned
  <2>4. ASSUME NEW i \in DSlots, NEW r \in Positions
        PROVE  Honest(g, job, fs'.dir_cache[i].entries[r], fs'.dir_cache[i].dir)
    <3> DEFINE e == fs'.dir_cache[i]
    <3>1. CASE Says(fs, e.dir, e.entries[r])
      BY <3>1 DEF Says, PagesTrue
    <3>2. CASE e.dir \in Turned(j) /\ \E s \in Positions : page[s] = e.entries[r]
      <4>1. e.dir = j.n
        BY <2>3, <3>2
      <4> QED
        BY <2>2, <3>2, <4>1
    <3> QED
      BY <2>1, <3>1, <3>2 DEF SaidFrom
  <2> QED
    BY <2>4 DEF PagesTrue
<1> QED
  BY <1>2, <1>3, PagesAfter

\* A step leaves everything true.
LEMMA TrueStep ==
    ASSUME Shape, ~Overflow, ~SlotRace, ~CreationRace', NEW g, Core(g), PagesTrue(fs, g, job),
           \A q \in Workers : JobTrue(g, job, job[q]),
           NEW p \in Workers, NEW k, LeadsTo(p, k), Becomes(p, k), ~EntryRace(p),
           NEW g2, \/ g2 = g /\ k.pc # "entry"
                   \/ k.pc = "entry" /\ Foreseen(g, g2, fs', k)
    PROVE  /\ PagesTrue(fs', g2, job') /\ \A q \in Workers : JobTrue(g2, job', job'[q])
           /\ \A e, d : Honest(g, job, e, d) => Honest(g2, job', e, d)
<1> DEFINE j == job[p]
<1>1. /\ \A q \in Workers : job'[q] = IF q = p THEN k ELSE job[q]
  BY JobAfter
<1>2. FsInv(g) /\ j \in Job
  BY DEF Core, Skeleton, Shape, JobFits
<1>3. /\ \A e, d : Honest(g, job, e, d) => Honest(g2, job', e, d)
      /\ \A d \in DirsIn(g) : d \in DirsIn(g2) /\ BlocksOf(g.inode_tab[d]) \subseteq BlocksOf(g2.inode_tab[d])
  <2>1. CASE g2 = g /\ k.pc # "entry"
    <3>1. ASSUME k.pc \in FreshStages
          PROVE  j.pc \in FreshStages /\ k.new = j.new
      <4>1. k.pc \in AddStages /\ k.pc \in {"name", "link"}
        BY <2>1, <3>1, StageFacts DEF FreshStages
      <4>2. \/ InodeChosen(j, k) \/ BlockChosen(j, k) \/ EntryPageRead(j, k)
            \/ Reserved1(p, k) \/ NameWritten(p, k) \/ LinkWritten(p, k)
            \/ DirExtended(p, k) \/ InodeMarked(p, k)
        BY <4>1, AddedFrom
      <4>3. EntryPageRead(j, k) \/ NameWritten(p, k)
        BY <4>1, <4>2, StageAfterQuiet, StageAfterChange
      <4>4. CASE EntryPageRead(j, k)
        <5>1. j.pc = "entry" /\ k.new = j.new
          <6> HIDE DEF j
          <6> QED
            BY <1>2, <4>4 DEF EntryPageRead, Job
        <5> QED
          BY <5>1 DEF FreshStages
      <4>5. CASE NameWritten(p, k)
        <5>1. j.pc = "name" /\ k.new = j.new
          BY <1>2, <4>5 DEF NameWritten, Job
        <5> QED
          BY <5>1 DEF FreshStages
      <4> QED
        BY <4>3, <4>4, <4>5
    <3>2. job'[p] = k /\ \A q \in Workers \ {p} : job'[q] = job[q]
      BY <1>1
    <3> QED
      BY <2>1, <3>1, <3>2, HonestStays
  <2>2. CASE k.pc = "entry" /\ Foreseen(g, g2, fs', k)
    <3>1. \A q \in Workers \ {p} : job[q].pc \notin FreshStages
      <4> SUFFICES ASSUME NEW q \in Workers \ {p}, job[q].pc \in FreshStages
                   PROVE  FALSE
        OBVIOUS
      <4>1. {job'[p].pc, job'[q].pc} \subseteq AddStages
        BY <1>1, <2>2, StageFacts DEF FreshStages
      <4> QED
        BY <4>1 DEF CreationRace
    <3>2. job'[p] = k /\ \A q \in Workers \ {p} : job'[q] = job[q]
      BY <1>1
    <3> QED
      BY <1>2, <2>2, <3>1, <3>2, HonestGrows
  <2> QED
    BY <2>1, <2>2
<1>4. PagesTrue(fs', g2, job')
  <2>1. PagesTrue(fs', g, job)
    BY PagesStayTrue
  <2> QED
    BY <1>3, <2>1 DEF PagesTrue
<1>5. ASSUME NEW q \in Workers
      PROVE  JobTrue(g2, job', job'[q])
  <2>1. JobTrue(g, job, job'[q])
    <3>1. CASE q # p
      BY <1>1, <3>1
    <3>2. CASE q = p /\ k.pc \notin {"load", "fill"}
      BY <1>1, <3>2 DEF JobTrue
    <3>3. CASE q = p /\ k.pc \in {"load", "fill"}
      BY <1>1, <3>3, ReadTrue
    <3> QED
      BY <3>1, <3>2, <3>3
  <2> QED
    BY <1>3, <2>1, JobTrueStays
<1> QED
  BY <1>3, <1>4, <1>5

\* A true entry is in its directory, between creations and before and after they add theirs.
LEMMA HonestOnDisk ==
    ASSUME NEW f, NEW g, FsInv(g), NEW js, \A q \in Workers : js[q] \in Job, Skeleton(f, g, js),
           \A q \in Workers : js[q].pc \notin {"link", "extend"},
           NEW e, NEW d, Honest(g, js, e, d), e.name # NoName
    PROVE  d \in DirsIn(f) /\ e \in EntriesIn(f, d)
<1>1. d \in DirsIn(g) /\ e \in EntriesIn(g, d)
  BY DEF Honest
<1>2. PICK i \in 0 .. NumOf(g.inode_tab[d]) - 1 : e = PlaceIn(g, g.inode_tab[d], i)
  BY <1>1 DEF EntriesIn
<1>3. NumOf(g.inode_tab[d]) \in Nat
  BY <1>1, DirFacts
<1>4. d \in DirsIn(f) /\ i \in 0 .. NumOf(f.inode_tab[d]) - 1 /\ Shows(f, g)
  <2>1. CASE \A q \in Workers : js[q].pc \notin LateStages
    <3>1. Settled(f, g)
      BY <2>1 DEF Skeleton
    <3>2. Shows(f, g) /\ DirsIn(f) = DirsIn(g) /\ \A c \in DirsIn(g) : f.inode_tab[c] = g.inode_tab[c]
      BY <3>1, SettledShows
    <3> QED
      BY <1>1, <1>2, <3>2
  <2>2. ASSUME NEW q \in Workers, js[q].pc \in LateStages
        PROVE  d \in DirsIn(f) /\ i \in 0 .. NumOf(f.inode_tab[d]) - 1 /\ Shows(f, g)
    <3> DEFINE j == js[q]
    <3>1. j \in Job /\ Adds(f, g, j) /\ j.pc \in LateStages /\ j.pc \notin {"link", "extend"}
      BY <2>2 DEF Skeleton
    <3>2. j.pc \in FreshStages => e.inode # j.new
      BY DEF Honest
    <3> HIDE DEF j
    <3>3. /\ Shows(f, g) /\ DirsIn(f) = DirsIn(g) \ {j.new}
          /\ NumOf(g.inode_tab[j.new]) = 0
          /\ \A c \in DirsIn(f) : (c = j.n /\ j.pc \in GrowingStages)
                                  \/ NumOf(f.inode_tab[c]) = NumOf(g.inode_tab[c])
          /\ j.pc \in GrowingStages => NumOf(f.inode_tab[j.n]) = LastOf(g, j.n)
          /\ PlaceIn(g, g.inode_tab[j.n], LastOf(g, j.n)).inode = j.new
          /\ LastOf(g, j.n) \in 0 .. NumOf(g.inode_tab[j.n]) - 1
      BY <3>1, AddsShows
    <3>4. d # j.new
      BY <1>2, <3>3
    <3>5. d \in DirsIn(f)
      BY <1>1, <3>3, <3>4
    <3>6. CASE NumOf(f.inode_tab[d]) = NumOf(g.inode_tab[d])
      BY <1>2, <3>3, <3>5, <3>6
    <3>7. CASE d = j.n /\ j.pc \in GrowingStages
      <4> DEFINE last == LastOf(g, d)
                 num == NumOf(g.inode_tab[d])
      <4>1. j.pc \in FreshStages
        BY <3>1, <3>7 DEF GrowingStages, FreshStages
      <4>2. i # last
        BY <1>2, <3>2, <3>3, <3>7, <4>1
      <4>3. NumOf(f.inode_tab[d]) = last /\ last = num - 1
        BY <3>3, <3>7 DEF LastOf
      <4> HIDE DEF last
      <4>4. i \in 0 .. last - 1
        BY <1>2, <1>3, <4>2, <4>3
      <4> QED
        BY <3>3, <3>5, <4>3, <4>4
    <3> QED
      BY <3>3, <3>5, <3>6, <3>7
  <2> QED
    BY <2>1, <2>2
<1>5. PlaceIn(f, f.inode_tab[d], i) = e
  BY <1>2, <1>4 DEF Shows
<1> QED
  BY <1>4, <1>5 DEF EntriesIn
-----------------------------------------------------------------------------
(* Lying pages.                                                            *)

\* The tree, and pages that are true of it.
TrueTree(g) ==
    /\ Core(g)
    /\ PagesTrue(fs, g, job)
    /\ \A p \in Workers : JobTrue(g, job, job[p])

\* Unless directories are shuffled, half made entries read or the slots of searches reused,
\* the cached pages are true of a tree that the creation under way leads to.
LyingInv == Without({"entry", "slot"} \cup Shuffling) => ~SlotRace /\ \E g : TrueTree(g)

\* The invariant holds initially.
LEMMA LyingInit == CInit => LyingInv
<1> SUFFICES ASSUME CInit
             PROVE  ~SlotRace /\ \E g : TrueTree(g)
  BY DEF LyingInv
<1>1. FsInv(fs) /\ races = {}
  BY CInitFacts
<1>2. \A q \in Workers : job[q] = Idle /\ job[q].pc = "idle" /\ job[q].hit = DirCacheSize
  BY CInitFacts, IdleFits
<1>3. CoreInv /\ Without(Shuffling)
  BY <1>1, CoreInit DEF Without
<1>4. PICK g : Core(g)
  BY <1>3 DEF CoreInv
<1>5. FsInv(g) /\ Settled(fs, g)
  BY <1>2, <1>4 DEF Core, Skeleton, LateStages
<1>6. PagesTrue(fs, g, job)
  <2> SUFFICES ASSUME NEW i \in DSlots, NEW r \in Positions, fs.dir_cache[i].entries[r].name # NoName
               PROVE  Honest(g, job, fs.dir_cache[i].entries[r], fs.dir_cache[i].dir)
    BY DEF PagesTrue, Honest
  <2> DEFINE d == fs.dir_cache[i].dir
             e == fs.dir_cache[i].entries[r]
  <2>1. d \in DirsIn(fs) /\ e \in EntriesIn(fs, d)
    BY <1>1 DEF FsInv, DirCacheInv
  <2>2. /\ Shows(fs, g) /\ DirsIn(fs) = DirsIn(g)
        /\ \A c \in DirsIn(g) : fs.inode_tab[c] = g.inode_tab[c]
    BY <1>5, SettledShows
  <2> HIDE DEF d, e
  <2>3. d \in DirsIn(g) /\ e \in EntriesIn(g, d)
    BY <2>1, <2>2 DEF EntriesIn, Shows
  <2>4. Honest(g, job, e, d)
    BY <1>2, <2>3 DEF Honest, FreshStages
  <2> QED
    BY <2>4 DEF d, e
<1>7. \A q \in Workers : JobTrue(g, job, job[q])
  BY <1>2 DEF JobTrue
<1>8. ~SlotRace
  BY <1>2 DEF SlotRace
<1> QED
  BY <1>4, <1>6, <1>7, <1>8 DEF TrueTree

\* A step of a thread leads from a tree that pages are true of to one that they are true of,
\* and that has what was true before.
LEMMA TrueNext ==
    ASSUME ShapeInv, SharingInv, CoreInv, NEW p \in Workers, Step(p), Without(Shuffling)',
           ~EntryRace(p), ~SlotRace, NEW g, TrueTree(g)
    PROVE  \E g2 : TrueTree(g2)' /\ \A e, d : Honest(g, job, e, d) => Honest(g2, job', e, d)
<1>1. /\ Shape /\ ~Overflow /\ Reserving /\ ~CreationRace /\ ~CreationRace' /\ ~PointerRace(p)
      /\ \E k : LeadsTo(p, k) /\ Becomes(p, k)
      /\ Shape'
  BY QuietNext
<1>2. PICK k : LeadsTo(p, k) /\ Becomes(p, k)
  BY <1>1
<1>3. \E g2 : /\ Core(g2)'
              /\ \/ g2 = g /\ k.pc # "entry"
                 \/ /\ k.pc = "entry" /\ job[p].pc \notin LateStages
                    /\ Settled(fs, g) /\ Foreseen(g, g2, fs', k)
  BY <1>1, <1>2, CoreStep DEF TrueTree
<1>4. PICK g2 : /\ Core(g2)'
                /\ \/ g2 = g /\ k.pc # "entry"
                   \/ k.pc = "entry" /\ Foreseen(g, g2, fs', k)
  BY <1>3
<1>5. /\ PagesTrue(fs', g2, job') /\ \A q \in Workers : JobTrue(g2, job', job'[q])
      /\ \A e, d : Honest(g, job, e, d) => Honest(g2, job', e, d)
  BY <1>1, <1>2, <1>4, TrueStep DEF TrueTree
<1>6. TrueTree(g2)'
  BY <1>4, <1>5 DEF TrueTree
<1> QED
  BY <1>5, <1>6

\* Every step keeps the invariant.
LEMMA LyingNext ==
    ASSUME ShapeInv, SharingInv, CoreInv, LyingInv, [CNext]_cvars
    PROVE  LyingInv'
<1> DEFINE kinds == {"entry", "slot"} \cup Shuffling
<1> SUFFICES ASSUME Without(kinds)'
             PROVE  ~SlotRace' /\ \E g : TrueTree(g)'
  BY DEF LyingInv
<1>1. CASE UNCHANGED <<fs, job, races>>
  <2>1. Without(kinds)
    BY <1>1 DEF Without
  <2>2. ~SlotRace
    BY <2>1 DEF LyingInv
  <2>3. PICK g : TrueTree(g)
    BY <2>1 DEF LyingInv
  <2>4. TrueTree(g)'
    BY <1>1, <2>3 DEF TrueTree, Core
  <2> QED
    BY <1>1, <2>2, <2>4 DEF SlotRace
<1>2. CASE UNCHANGED cvars \/ CTick
  BY <1>1, <1>2 DEF cvars, CTick, Tick
<1>3. ASSUME NEW p \in Workers, Step(p)
      PROVE  ~SlotRace' /\ \E g : TrueTree(g)'
  <2>1. Without(kinds) /\ ~EntryRace(p) /\ ~SlotRace'
    BY <1>3, RacesAfter
  <2>2. Without(Shuffling)'
    BY DEF Without
  <2>3. ~SlotRace
    BY <2>1 DEF LyingInv
  <2>4. PICK g : TrueTree(g)
    BY <2>1 DEF LyingInv
  <2>5. \E g2 : TrueTree(g2)'
    BY <1>3, <2>1, <2>2, <2>3, <2>4, TrueNext
  <2> QED
    BY <2>1, <2>5
<1> QED
  BY <1>2, <1>3 DEF CNext

\* A cached page names what is in its directory, whenever no creation is writing, unless
\* directories were shuffled, a half written page loaded, or a slot changed after it was reused
\* (fs.c:386-391, 406-414).
THEOREM OnlyRacesMakePagesLie == CSpec => []LyingPageNeedsRace
<1> DEFINE kinds == {"entry", "slot"} \cup Shuffling
<1>1. ASSUME ShapeInv, CoreInv, LyingInv, Without(kinds),
             \A p \in Workers : job[p].pc \notin {"link", "extend"}
      PROVE  DirCacheNeverLies
  <2>1. PICK g : TrueTree(g)
    BY <1>1 DEF LyingInv
  <2>2. \A q \in Workers : job[q] \in Job
    BY <1>1 DEF CoreInv, ShapeInv, Without, Shape, JobFits
  <2>3. FsInv(g) /\ Skeleton(fs, g, job) /\ PagesTrue(fs, g, job)
    BY <2>1 DEF TrueTree, Core, Skeleton
  <2>4. ASSUME NEW i \in DSlots, NEW r \in Positions, fs.dir_cache[i].entries[r].name # NoName
        PROVE  fs.dir_cache[i].entries[r] \in EntriesIn(fs, fs.dir_cache[i].dir)
    <3> DEFINE e == fs.dir_cache[i].entries[r]
               d == fs.dir_cache[i].dir
    <3>1. Honest(g, job, e, d) /\ e.name # NoName
      BY <2>3, <2>4 DEF PagesTrue
    <3> HIDE DEF d, e
    <3>2. e \in EntriesIn(fs, d)
      BY <1>1, <2>2, <2>3, <3>1, HonestOnDisk
    <3> QED
      BY <3>2 DEF d, e
  <2> QED
    BY <2>4, SameEntries DEF DirCacheNeverLies
<1>2. ShapeInv /\ CoreInv /\ LyingInv => LyingPageNeedsRace
  BY <1>1 DEF LyingPageNeedsRace
<1>3. ShapeInv /\ SharingInv /\ [CNext]_cvars => SharingInv'
  BY SharingNext
<1>4. ShapeInv /\ SharingInv /\ CoreInv /\ LyingInv /\ [CNext]_cvars => LyingInv'
  BY LyingNext
<1> QED
  BY ShapeIsKept, SharingInit, TreeIsThere, LyingInit, <1>2, <1>3, <1>4, PTL DEF CSpec
-----------------------------------------------------------------------------
(* Look-ups.                                                               *)

\* An entry of directory d has the name and the inode n.
Leads(g, js, d, name, n) == \E e : e.name = name /\ e.inode = n /\ Honest(g, js, e, d)

\* The first m names of a path lead from the root to inode n.
Led(g, js, path, m, n) ==
    \E c \in [0 .. m -> InodeNums] :
        /\ c[0] = Root /\ c[m] = n
        /\ \A i \in 1 .. m : Leads(g, js, c[i - 1], path[i], c[i])

\* The names r are those of the path after the first m.
LeftOf(r, path, m) == Len(r) = Len(path) - m /\ \A i \in 1 .. Len(r) : r[i] = path[m + i]

\* Job j searches the directory that some names of its path lead to for the next one, or is
\* where they lead to; strtok goes on behind.
Seeks(g, js, r, j) ==
    \E m \in 0 .. Len(j.path) - 1 :
        LeftOf(r, j.path, m + 1) /\ j.name = j.path[m + 1] /\ Led(g, js, j.path, m, j.n)

Arrives(g, js, r, j) ==
    \E m \in 0 .. Len(j.path) : LeftOf(r, j.path, m) /\ Led(g, js, j.path, m, j.n)

\* A look-up follows its own path.
Followed(g, js, r, j) ==
    j.op = "lookup" =>
        /\ j.pc \in SearchStages => Seeks(g, js, r, j)
        /\ j.pc = "token" => Arrives(g, js, r, j)
        /\ j.pc = "attrs" => Led(g, js, j.path, Len(j.path), j.n)

\* One name more.
LEMMA LedOn ==
    ASSUME NEW g, NEW js, NEW path, NEW m \in Nat, NEW d, Led(g, js, path, m, d),
           NEW n \in InodeNums, Leads(g, js, d, path[m + 1], n)
    PROVE  Led(g, js, path, m + 1, n)
<1>1. PICK c \in [0 .. m -> InodeNums] :
          /\ c[0] = Root /\ c[m] = d
          /\ \A i \in 1 .. m : Leads(g, js, c[i - 1], path[i], c[i])
  BY DEF Led
<1> DEFINE a == [i \in 0 .. m + 1 |-> IF i = m + 1 THEN n ELSE c[i]]
<1>2. a \in [0 .. m + 1 -> InodeNums] /\ a[m + 1] = n /\ \A i \in 0 .. m : a[i] = c[i]
  BY <1>1
<1> HIDE DEF a
<1>3. a[0] = Root
  BY <1>1, <1>2
<1>4. ASSUME NEW i \in 1 .. m + 1
      PROVE  Leads(g, js, a[i - 1], path[i], a[i])
  <2>1. CASE i = m + 1
    <3>1. a[i - 1] = d /\ a[i] = n
      BY <1>1, <1>2, <2>1
    <3> QED
      BY <2>1, <3>1
  <2>2. CASE i # m + 1
    <3>1. i \in 1 .. m /\ i \in 0 .. m /\ i - 1 \in 0 .. m
      BY <2>2
    <3>2. a[i - 1] = c[i - 1] /\ a[i] = c[i]
      BY <1>2, <3>1
    <3> QED
      BY <1>1, <3>1, <3>2
  <2> QED
    BY <2>1, <2>2
<1> QED
  BY <1>2, <1>3, <1>4 DEF Led

\* No name leads to the root.
LEMMA LedNowhere ==
    ASSUME NEW g, NEW js, NEW path
    PROVE  Led(g, js, path, 0, Root)
<1> DEFINE c == [i \in 0 .. 0 |-> Root]
<1>1. c \in [0 .. 0 -> InodeNums] /\ c[0] = Root /\ 1 .. 0 = {}
  BY Sizes DEF Root
<1> HIDE DEF c
<1> QED
  BY <1>1 DEF Led

\* What is followed stays followed when what is true of the tree stays true.
LEMMA FollowedStays ==
    ASSUME NEW g, NEW g2, NEW js, NEW js2, \A e, d : Honest(g, js, e, d) => Honest(g2, js2, e, d),
           NEW r, NEW j, Followed(g, js, r, j)
    PROVE  Followed(g2, js2, r, j)
<1>1. ASSUME NEW d, NEW name, NEW n, Leads(g, js, d, name, n)
      PROVE  Leads(g2, js2, d, name, n)
  BY <1>1 DEF Leads
<1>2. ASSUME NEW path, NEW m, NEW n, Led(g, js, path, m, n)
      PROVE  Led(g2, js2, path, m, n)
  BY <1>1, <1>2 DEF Led
<1>3. Seeks(g, js, r, j) => Seeks(g2, js2, r, j)
  BY <1>2 DEF Seeks
<1>4. Arrives(g, js, r, j) => Arrives(g2, js2, r, j)
  BY <1>2 DEF Arrives
<1> QED
  BY <1>2, <1>3, <1>4 DEF Followed

\* strtok takes the next name of the path.
LEMMA LeftHead ==
    ASSUME NEW path \in Paths, NEW r \in Paths, r # << >>, NEW m \in 0 .. Len(path), LeftOf(r, path, m)
    PROVE  /\ m \in 0 .. Len(path) - 1
           /\ Head(r) = path[m + 1] /\ LeftOf(Tail(r), path, m + 1)
<1>1. path \in Seq(Names) /\ r \in Seq(Names)
  BY PathsAreSeqs
<1>2. Len(r) = Len(path) - m /\ \A i \in 1 .. Len(r) : r[i] = path[m + i]
  BY DEF LeftOf
<1>3. Len(path) \in Nat /\ Len(r) \in Nat /\ Len(r) > 0
  BY <1>1
<1>4. m \in 0 .. Len(path) - 1
  BY <1>2, <1>3
<1>5. Head(r) = path[m + 1]
  <2>1. Head(r) = r[1] /\ 1 \in 1 .. Len(r)
    BY <1>1, <1>3
  <2> QED
    BY <1>2, <2>1
<1>6. Len(Tail(r)) = Len(r) - 1 /\ \A i \in 1 .. Len(r) - 1 : Tail(r)[i] = r[i + 1]
  BY <1>1, <1>3
<1>7. ASSUME NEW i \in 1 .. Len(r) - 1
      PROVE  Tail(r)[i] = path[(m + 1) + i]
  <2>1. i + 1 \in 1 .. Len(r) /\ m + (i + 1) = (m + 1) + i
    BY <1>3
  <2> QED
    BY <1>2, <1>6, <2>1
<1> QED
  BY <1>2, <1>3, <1>4, <1>5, <1>6, <1>7 DEF LeftOf

\* The entry that a search finds leads on.
LEMMA FoundLeads ==
    ASSUME NEW g, NEW js, NEW r, NEW j \in Job, Seeks(g, js, r, j),
           NEW n \in InodeNums, Leads(g, js, j.n, j.name, n)
    PROVE  Arrives(g, js, r, Told(j, n))
<1>1. PICK m \in 0 .. Len(j.path) - 1 :
          LeftOf(r, j.path, m + 1) /\ j.name = j.path[m + 1] /\ Led(g, js, j.path, m, j.n)
  BY DEF Seeks
<1>2. Told(j, n).path = j.path /\ Told(j, n).n = n
  BY SearchJobs
<1>3. Len(j.path) \in Nat
  BY JobFields, PathsAreSeqs
<1>4. m \in Nat /\ m + 1 \in 0 .. Len(j.path)
  BY <1>3
<1>5. Led(g, js, j.path, m + 1, n)
  BY <1>1, <1>4, LedOn
<1> QED
  BY <1>1, <1>2, <1>4, <1>5 DEF Arrives

\* The inodes that the names lead to on the disk.
LEMMA LedReached ==
    ASSUME NEW path, Len(path) \in Nat, NEW c, c[0] = Root,
           \A i \in 1 .. Len(path) : /\ c[i - 1] \in Dirs
                                     /\ \E e \in EntriesOf(c[i - 1]) : e.name = path[i] /\ e.inode = c[i]
    PROVE  c[Len(path)] \in Reached(path)
<1> DEFINE N == Len(path)
           named(dirs, name) == {e.inode : e \in {d \in UNION {EntriesOf(n) : n \in dirs \cap Dirs} :
                                                       d.name = name}}
           all == {Root} \cup {e.inode : e \in UNION {EntriesOf(n) : n \in Dirs}}
           Good == {p \in (0 .. N) \X SUBSET all : c[p[1]] \in p[2]}
           s0 == {Root}
           step == [p \in Good |-> named(p[2], path[p[1] + 1])]
           made == CHOOSE made : made = [i \in 0 .. N |-> IF i = 0 THEN s0 ELSE named(made[i - 1], path[i])]
<1>1. Reached(path) = made[N]
  BY DEF Reached
<1>2. N \in Nat
  OBVIOUS
<1>3. <<0, s0>> \in Good
  BY <1>2
<1>4. ASSUME NEW k \in 0 .. N - 1, NEW s, <<k, s>> \in Good
      PROVE  /\ <<k + 1, named(s, path[k + 1])>> \in Good
             /\ step[<<k, s>>] = named(s, path[k + 1])
  <2>1. k + 1 \in 1 .. N /\ k + 1 \in 0 .. N /\ (k + 1) - 1 = k
    BY <1>2
  <2>2. c[k] \in s /\ c[k] \in Dirs
    BY <1>4, <2>1
  <2>3. c[k + 1] \in named(s, path[k + 1])
    <3>1. PICK e \in EntriesOf(c[k]) : e.name = path[k + 1] /\ e.inode = c[k + 1]
      BY <2>1
    <3> QED
      BY <2>2, <3>1
  <2>4. named(s, path[k + 1]) \subseteq all
    OBVIOUS
  <2> HIDE DEF named, all
  <2> QED
    BY <1>4, <2>1, <2>3, <2>4
<1> HIDE DEF Good, step, named, N
<1>5. RoundsKeep(N, Good, step)
  BY <1>4 DEF RoundsKeep
<1> HIDE DEF s0
<1>6. PICK g : RunsLoop(g, N, Good, s0, step)
  BY <1>2, <1>3, <1>5, LoopRuns
<1>7. ASSUME NEW k \in 1 .. N
      PROVE  k - 1 \in 0 .. N - 1 /\ (k - 1) + 1 = k /\ k \in 0 .. N /\ k # 0
  BY <1>2
<1>8. ASSUME NEW k \in 1 .. N
      PROVE  g[k] = named(g[k - 1], path[k])
  BY ZenonT(60), <1>4, <1>6, <1>7 DEF RunsLoop
<1>9. g = [i \in 0 .. N |-> IF i = 0 THEN s0 ELSE named(g[i - 1], path[i])]
  <2>1. \A k \in 0 .. N : k = 0 \/ k \in 1 .. N
    BY <1>2
  <2>2. \A k \in 0 .. N : g[k] = IF k = 0 THEN s0 ELSE named(g[k - 1], path[k])
    BY <1>6, <1>8, <2>1 DEF RunsLoop
  <2> QED
    BY <1>6, <2>2 DEF RunsLoop
<1>10. made = [i \in 0 .. N |-> IF i = 0 THEN s0 ELSE named(made[i - 1], path[i])]
  BY <1>9
<1> HIDE DEF made
<1>11. <<0, made[0]>> \in Good
  BY <1>2, <1>3, <1>10
<1>12. ASSUME NEW k \in 1 .. N, <<k - 1, made[k - 1]>> \in Good
       PROVE  <<k, made[k]>> \in Good
  <2>1. made[k] = named(made[k - 1], path[k])
    BY <1>7, <1>10
  <2> QED
    BY <1>4, <1>7, <1>12, <2>1
<1>13. <<N, made[N]>> \in Good
  BY <1>2, <1>11, <1>12, LoopKeeps
<1> QED
  BY <1>1, <1>13 DEF Good, N
\* A search begins where the names so far lead to.
LEMMA OpenSeeks ==
    ASSUME Shape, NEW g, NEW p \in Workers, Followed(g, job, rest, job[p]), NEW i, Opening(p, i),
           i.op = "lookup"
    PROVE  Seeks(g, job, rest', i)
<1> DEFINE j == job[p]
<1>1. j \in Job /\ rest \in Paths /\ Idle \in Job
  BY IdleFits DEF Shape, JobFits
<1>2. ASSUME NEW r \in Requests, r.op = "lookup", rest' = Tail(r.path),
             i = [Idle EXCEPT !.op = "lookup", !.path = r.path, !.n = Root, !.name = Head(r.path)]
      PROVE  Seeks(g, job, rest', i)
  <2>1. r.path \in Paths /\ r.path # << >>
    BY <1>2, RequestFields
  <2> DEFINE path == r.path
             name == Head(r.path)
  <2> HIDE DEF Idle, path, name
  <2>2. i.path = path /\ i.n = Root /\ i.name = name
    BY <1>1, <1>2 DEF Job, path, name
  <2>3. path \in Seq(Names)
    BY <2>1, PathsAreSeqs DEF path
  <2>4. LeftOf(path, path, 0)
    <3>1. Len(path) \in Nat
      BY <2>3
    <3>2. \A k \in 1 .. Len(path) : path[k] = path[0 + k]
      OBVIOUS
    <3> QED
      BY <3>1, <3>2 DEF LeftOf
  <2>5. 0 \in 0 .. Len(path)
    BY <2>3
  <2>6. /\ 0 \in 0 .. Len(path) - 1
        /\ Head(path) = path[0 + 1] /\ LeftOf(Tail(path), path, 0 + 1)
    BY <2>1, <2>4, <2>5, LeftHead DEF path
  <2>7. rest' = Tail(path) /\ name = Head(path)
    BY <1>2 DEF path, name
  <2>8. Led(g, job, path, 0, Root)
    BY LedNowhere
  <2> QED
    BY <2>2, <2>6, <2>7, <2>8 DEF Seeks
<1>3. CASE j.pc = "token" /\ rest # << >> /\ rest' = Tail(rest) /\ i = [j EXCEPT !.name = Head(rest)]
  <2> DEFINE name == Head(rest)
  <2> HIDE DEF j, name
  <2>1. i.path = j.path /\ i.n = j.n /\ i.name = name /\ i.op = j.op
    BY <1>1, <1>3 DEF Job, name
  <2>2. Arrives(g, job, rest, j)
    BY <1>3, <2>1 DEF Followed, j
  <2>3. PICK m \in 0 .. Len(j.path) : LeftOf(rest, j.path, m) /\ Led(g, job, j.path, m, j.n)
    BY <2>2 DEF Arrives
  <2>4. /\ m \in 0 .. Len(j.path) - 1
        /\ Head(rest) = j.path[m + 1] /\ LeftOf(Tail(rest), j.path, m + 1)
    BY <1>1, <1>3, <2>3, JobFields, LeftHead
  <2> QED
    BY <1>3, <2>1, <2>3, <2>4 DEF Seeks, name
<1>4. ASSUME NEW r \in Requests,
             i = [Idle EXCEPT !.op = "create", !.n = r.dir, !.name = r.name, !.type = r.type]
      PROVE  FALSE
  <2>1. i.op = "create"
    BY <1>4 DEF Idle
  <2> QED
    BY <2>1
<1> QED
  BY <1>2, <1>3, <1>4 DEF Opening

\* An entry on a true page with the name that is looked for leads on.
LEMMA TrueLeads ==
    ASSUME NEW g, NEW js, NEW r, NEW j \in Job, Seeks(g, js, r, j), NEW page \in Page,
           NEW q \in Positions, Honest(g, js, page[q], j.n), page[q].name = j.name
    PROVE  Arrives(g, js, r, Told(j, page[q].inode)) /\ Told(j, page[q].inode).pc = "token"
<1> DEFINE n == page[q].inode
<1>1. n \in InodeNums
  BY EntryTyped
<1>2. Leads(g, js, j.n, j.name, n)
  BY DEF Leads
<1> HIDE DEF n
<1>3. Arrives(g, js, r, Told(j, n)) /\ Told(j, n).pc = "token"
  BY <1>1, <1>2, FoundLeads, SearchJobs
<1> QED
  BY <1>3 DEF n

\* How a look-up goes on.
LEMMA FollowMoves ==
    ASSUME Shape, NEW p \in Workers, NEW k, LeadsTo(p, k), JobFits(k), k.op = "lookup"
    PROVE  \/ SearchBegun(p, k) \/ PageSearched(p, k)
           \/ /\ rest' = rest /\ job[p].op = "lookup"
              /\ k.path = job[p].path /\ k.n = job[p].n /\ k.name = job[p].name
              /\ \/ job[p].pc \in SearchStages /\ k.pc \in SearchStages
                 \/ job[p].pc = "token" /\ rest = << >> /\ k.pc = "attrs"
<1> DEFINE j == job[p]
<1>1. j \in Job /\ StageOK(j) /\ StageOK(k)
  BY DEF Shape, JobFits
<1>2. k.pc \in {"count", "page", "load", "fill", "token", "attrs"}
  BY <1>1, StageFacts DEF StageOK
<1>3. /\ ~InodeChosen(j, k) /\ ~BlockChosen(j, k) /\ ~EntryPageRead(j, k) /\ ~ReadChecked(j, k)
      /\ ~Transferred(j, k)
  BY <1>2, StageAfterQuiet
<1>4. ~ReadStarted(p, k) /\ ~WriteStarted(p, k) /\ ~AttrsGiven(p, k) /\ ~Created(p, k)
  BY <1>2, StageAfterChange DEF Created
<1>5. ~GrowthTested(j, k) /\ ~SizeSet(p, k)
  <2> SUFFICES ASSUME GrowthTested(j, k) \/ SizeSet(p, k)
               PROVE  FALSE
    OBVIOUS
  <2>1. j.pc \in {"grow", "size"}
    BY DEF GrowthTested, SizeSet
  <2>2. j.op # "lookup"
    BY <1>1, <2>1, StageFacts DEF StageOK
  <2>3. k = [j EXCEPT !.pc = "size"] \/ k = [j EXCEPT !.pc = "attrs"]
    BY DEF GrowthTested, SizeSet
  <2> HIDE DEF j
  <2>4. k.op = j.op
    BY <1>1, <2>3 DEF Job
  <2> QED
    BY <2>2, <2>4
<1>6. CASE Quieted(p, k)
  <2>1. rest' = rest /\ QuietMove(j, k)
    BY <1>6 DEF Quieted
  <2>2. CASE Counted(j, k)
    <3> DEFINE num == NumOf(fs.inode_tab[j.n])
    <3>1. Missed(j).op = j.op /\ Idle.op = "none"
      BY <1>1, SearchJobs DEF Idle
    <3>2. j.pc = "count" /\ k = [j EXCEPT !.pc = "page", !.num = num]
      BY <2>2, <3>1 DEF Counted
    <3> HIDE DEF j, num
    <3>3. k.pc = "page" /\ k.op = j.op /\ k.path = j.path /\ k.n = j.n /\ k.name = j.name
      BY <1>1, <3>2 DEF Job
    <3> QED
      BY <2>1, <3>2, <3>3, StageFacts DEF j
  <2>3. CASE Missing(j, k)
    <3> DEFINE b == fs.inode_tab[j.n].blocks[j.k]
    <3>1. j.pc = "page" /\ k = [j EXCEPT !.pc = "load", !.block = b]
      BY <2>3 DEF Missing
    <3> HIDE DEF j, b
    <3>2. k.pc = "load" /\ k.op = j.op /\ k.path = j.path /\ k.n = j.n /\ k.name = j.name
      BY <1>1, <3>1 DEF Job
    <3> QED
      BY <2>1, <3>1, <3>2, StageFacts DEF j
  <2>4. CASE Loaded(j, k)
    <3> DEFINE page == DiskPage(j.block)
    <3>1. j.pc = "load" /\ k = [j EXCEPT !.pc = "fill", !.page = page]
      BY <2>4 DEF Loaded
    <3> HIDE DEF j, page
    <3>2. k.pc = "fill" /\ k.op = j.op /\ k.path = j.path /\ k.n = j.n /\ k.name = j.name
      BY <1>1, <3>1 DEF Job
    <3> QED
      BY <2>1, <3>1, <3>2, StageFacts DEF j
  <2>5. CASE Arrived(j, k)
    <3>1. j.pc = "token" /\ rest = << >> /\ k = [j EXCEPT !.pc = "attrs"]
      BY <2>5 DEF Arrived
    <3> HIDE DEF j
    <3>2. k.pc = "attrs" /\ k.op = j.op /\ k.path = j.path /\ k.n = j.n /\ k.name = j.name
      BY <1>1, <3>1 DEF Job
    <3> QED
      BY <2>1, <3>1, <3>2 DEF j
  <2> QED
    BY <1>3, <1>5, <2>1, <2>2, <2>3, <2>4, <2>5 DEF QuietMove
<1> QED
  BY <1>4, <1>5, <1>6 DEF LeadsTo

\* The look-up of the thread that takes a step goes on along its path.
LEMMA OwnFollows ==
    ASSUME Shape, NEW g, PagesTrue(fs, g, job), NEW p \in Workers, JobTrue(g, job, job[p]),
           Followed(g, job, rest, job[p]), NEW k, LeadsTo(p, k), JobFits(k)
    PROVE  Followed(g, job, rest', k)
<1> SUFFICES ASSUME k.op = "lookup"
             PROVE  Followed(g, job, rest', k)
  BY DEF Followed
<1> DEFINE j == job[p]
<1>1. j \in Job /\ JobFits(j) /\ StageOK(j) /\ fs \in FsStruct
  BY DEF Shape, JobFits
<1>2. Idle.op = "none"
  BY DEF Idle
<1>3. CASE SearchBegun(p, k)
  <2>1. PICK i : Opening(p, i) /\ BegunTo(fs, i, k)
    BY <1>3 DEF SearchBegun
  <2>2. i \in Job
    BY <2>1, OpeningFits
  <2>3. CASE \E s \in DSlots, q \in Positions :
                /\ i.op = "lookup" /\ fs.dir_cache[s].dir = i.n
                /\ fs.dir_cache[s].entries[q].name = i.name
                /\ k = Told(i, fs.dir_cache[s].entries[q].inode)
    <3>1. PICK s \in DSlots, q \in Positions :
                /\ i.op = "lookup" /\ fs.dir_cache[s].dir = i.n
                /\ fs.dir_cache[s].entries[q].name = i.name
                /\ k = Told(i, fs.dir_cache[s].entries[q].inode)
      BY <2>3
    <3> DEFINE page == fs.dir_cache[s].entries
    <3>2. Honest(g, job, page[q], i.n)
      BY <3>1 DEF PagesTrue
    <3>3. page \in Page
      BY <1>1, Fields, DirEntryFields DEF Page
    <3>4. Seeks(g, job, rest', i)
      BY <2>1, <3>1, OpenSeeks
    <3>5. page[q].name = i.name /\ k = Told(i, page[q].inode)
      BY <3>1
    <3> HIDE DEF page
    <3>6. Arrives(g, job, rest', k) /\ k.pc = "token"
      BY <2>2, <3>2, <3>3, <3>4, <3>5, TrueLeads
    <3> QED
      BY <3>6, StageFacts DEF Followed
  <2>4. CASE \E h \in 0 .. DirCacheSize : k = Begun(i, h)
    <3>0. PICK h \in 0 .. DirCacheSize : k = Begun(i, h)
      BY <2>4
    <3>1. k.pc = "count" /\ k.op = i.op /\ k.path = i.path /\ k.name = i.name /\ k.n = i.n
      BY <2>2, <3>0, SearchJobs
    <3>2. Seeks(g, job, rest', i)
      BY <2>1, <3>1, OpenSeeks
    <3>3. Seeks(g, job, rest', k)
      BY <3>1, <3>2 DEF Seeks
    <3> QED
      BY <3>1, <3>3 DEF Followed
  <2> QED
    BY <1>2, <2>1, <2>3, <2>4 DEF BegunTo
<1>4. CASE PageSearched(p, k)
  <2>1. rest' = rest /\ j.pc \in SearchStages
    BY <1>4, StageFacts DEF PageSearched, PageAtHand
  <2>2. PICK page \in Page : PageAtHand(p, page) /\ SearchedTo(page, j, k)
    BY <1>4 DEF PageSearched
  <2>3. \A r \in Positions : Honest(g, job, page[r], j.n)
    BY <2>2 DEF PageAtHand, PagesTrue, JobTrue
  <2>4. CASE j.op = "lookup" /\ \E q \in Positions : page[q].name = j.name /\ k = Told(j, page[q].inode)
    <3>1. PICK q \in Positions : page[q].name = j.name /\ k = Told(j, page[q].inode)
      BY <2>4
    <3>2. Seeks(g, job, rest, j)
      BY <2>1, <2>4 DEF Followed
    <3>3. Arrives(g, job, rest, k) /\ k.pc = "token"
      <4> HIDE DEF j
      <4> QED
        BY <1>1, <2>3, <3>1, <3>2, TrueLeads
    <3> QED
      BY <2>1, <3>3, StageFacts DEF Followed
  <2>5. CASE j.op # "lookup" /\ k = Missed(j)
    <3>1. k.op = j.op
      BY <1>1, <2>5, SearchJobs
    <3> QED
      BY <2>5, <3>1
  <2>6. CASE k = NextPage(j)
    <3>1. k.pc = "page" /\ k.op = j.op /\ k.path = j.path /\ k.name = j.name /\ k.n = j.n
      BY <1>1, <2>6, SearchJobs
    <3>2. Seeks(g, job, rest, j)
      BY <2>1, <3>1 DEF Followed
    <3>3. Seeks(g, job, rest', k)
      BY <2>1, <3>1, <3>2 DEF Seeks
    <3> QED
      BY <3>1, <3>3 DEF Followed
  <2> QED
    BY <1>2, <2>2, <2>4, <2>5, <2>6 DEF SearchedTo
<1>5. ASSUME rest' = rest, j.op = "lookup", k.path = j.path, k.n = j.n, k.name = j.name,
             j.pc \in SearchStages, k.pc \in SearchStages
      PROVE  Followed(g, job, rest', k)
  <2>1. Seeks(g, job, rest', k)
    BY <1>5 DEF Followed, Seeks
  <2>2. k.pc \notin {"token", "attrs"}
    BY <1>5, StageFacts
  <2> QED
    BY <2>1, <2>2 DEF Followed
<1>6. ASSUME rest' = rest, j.op = "lookup", k.path = j.path, k.n = j.n,
             j.pc = "token", rest = << >>, k.pc = "attrs"
      PROVE  Followed(g, job, rest', k)
  <2>1. PICK m \in 0 .. Len(j.path) : LeftOf(rest, j.path, m) /\ Led(g, job, j.path, m, j.n)
    BY <1>6 DEF Followed, Arrives
  <2>2. m = Len(j.path)
    <3>1. Len(j.path) \in Nat /\ Len(rest) = 0
      BY <1>1, <1>6, JobFields, PathsAreSeqs
    <3> QED
      BY <2>1, <3>1 DEF LeftOf
  <2> QED
    BY <1>6, <2>1, <2>2, StageFacts DEF Followed
<1> QED
  BY <1>3, <1>4, <1>5, <1>6, FollowMoves
\* The root is a directory on the disk.
LEMMA RootShown ==
    ASSUME Shape, NEW g, Core(g)
    PROVE  IsDir(fs, Root)
<1>1. FsInv(g) /\ Skeleton(fs, g, job) /\ \A q \in Workers : job[q] \in Job
  BY DEF Core, Skeleton, Shape, JobFits
<1>2. Root \in DirsIn(g) /\ Root \in g.inode_bmap
  <2>1. Root \in InodeNums
    BY Sizes DEF Root
  <2> QED
    BY <1>1, <2>1 DEF FsInv, KindInv, DirsIn
<1>3. CASE \A q \in Workers : job[q].pc \notin LateStages
  <2>1. Settled(fs, g)
    BY <1>1, <1>3 DEF Skeleton
  <2>2. Root \in DirsIn(fs) /\ Root \in fs.inode_bmap
    BY <1>1, <1>2, <2>1, SettledShows DEF Settled
  <2> QED
    BY <2>2 DEF IsDir, DirsIn
<1>4. ASSUME NEW q \in Workers, job[q].pc \in LateStages
      PROVE  IsDir(fs, Root)
  <2> DEFINE j == job[q]
  <2>1. j \in Job /\ Adds(fs, g, j) /\ j.pc \in LateStages
    BY <1>1, <1>4 DEF Skeleton
  <2> HIDE DEF j
  <2>2. DirsIn(fs) = DirsIn(g) \ {j.new}
    BY <1>1, <2>1, AddsShows
  <2>3. j.new # Root /\ (Root \in g.inode_bmap => Root \in fs.inode_bmap)
    BY <2>1 DEF Adds
  <2> QED
    BY <1>2, <2>2, <2>3 DEF IsDir, DirsIn
<1> QED
  BY <1>3, <1>4

\* The look-ups of other threads go on along their paths.
LEMMA OthersFollow ==
    ASSUME Shape, ~TokenRace, ~TokenRace', NEW g, Core(g), NEW p \in Workers, NEW q \in Workers \ {p},
           Followed(g, job, rest, job[q]), NEW k, LeadsTo(p, k), Becomes(p, k)
    PROVE  Followed(g, job, rest', job[q])
<1>1. job'[p] = k /\ job'[q] = job[q]
  BY JobAfter
<1>2. CASE rest' = rest
  BY <1>2
<1>3. CASE job[q].op # "lookup"
  BY <1>3 DEF Followed
<1>4. CASE job[q].op = "lookup" /\ job[q].pc = "attrs"
  BY <1>4, StageFacts DEF Followed
<1>5. ASSUME rest' # rest, job[q].op = "lookup", job[q].pc # "attrs"
      PROVE  FALSE
  <2>1. SearchBegun(p, k)
    BY <1>5 DEF LeadsTo, Quieted, PageSearched, ReadStarted, WriteStarted, SizeSet, AttrsGiven, Created
  <2>2. PICK i : Opening(p, i) /\ BegunTo(fs, i, k)
    BY <2>1 DEF SearchBegun
  <2>3. i \in Job
    BY <2>2, OpeningFits
  <2>4. ~(k.op = "lookup" /\ k.pc # "attrs")
    BY <1>1, <1>5 DEF TokenRace
  <2>5. ~(job[p].op = "lookup" /\ job[p].pc # "attrs")
    BY <1>5 DEF TokenRace
  <2>6. i.op = "lookup"
    <3>1. i.op # "create"
      <4>1. job[p].pc # "token"
        BY <2>5, StageOps DEF Shape
      <4> SUFFICES ASSUME i.op = "create"
                   PROVE  FALSE
        OBVIOUS
      <4>2. PICK r \in Requests : rest' = Tail(r.path)
                /\ i = [Idle EXCEPT !.op = "lookup", !.path = r.path, !.n = Root, !.name = Head(r.path)]
        BY <1>5, <2>2, <4>1 DEF Opening
      <4>3. i.op = "lookup"
        BY <4>2 DEF Idle
      <4> QED
        BY <4>3
    <3> QED
      BY <2>2, <3>1, OpeningFits
  <2>7. CASE job[p].pc = "token"
    <3>1. job[p].op = "lookup"
      BY <2>7, StageOps DEF Shape
    <3> QED
      BY <2>5, <2>7, <3>1
  <2>8. CASE job[p].pc # "token"
    <3>1. PICK r \in Requests : i = [Idle EXCEPT !.op = "lookup", !.path = r.path, !.n = Root, !.name = Head(r.path)]
      BY <1>5, <2>2, <2>8 DEF Opening
    <3>2. i.n = Root
      BY <3>1 DEF Idle
    <3>3. IsDir(fs, i.n)
      BY <3>2, RootShown
    <3>4. ASSUME NEW n, NEW h
          PROVE  /\ Told(i, n).op = "lookup" /\ Told(i, n).pc = "token"
                 /\ Begun(i, h).op = "lookup" /\ Begun(i, h).pc = "count"
      <4>1. i = [i EXCEPT !.pc = i.pc]
        BY <2>3 DEF Job
      <4> QED
        BY <2>3, <2>6 DEF Told, Begun, Searched, Job
    <3>5. (\E n : k = Told(i, n)) \/ (\E h : k = Begun(i, h))
      BY <2>2, <2>6, <3>3 DEF BegunTo
    <3>6. k.op = "lookup" /\ k.pc # "attrs"
      BY <3>4, <3>5
    <3> QED
      BY <2>4, <3>6
  <2> QED
    BY <2>7, <2>8
<1> QED
  BY <1>2, <1>3, <1>4, <1>5
\* Unless look-ups share the position of strtok, or pages may lie, every look-up follows its
\* own path in a tree that pages are true of.
FollowInv ==
    Without({"token", "entry", "slot"} \cup Shuffling) =>
        /\ ~TokenRace /\ ~SlotRace
        /\ \E g : TrueTree(g) /\ \A p \in Workers : Followed(g, job, rest, job[p])

\* The invariant holds initially.
LEMMA FollowInit == CInit => FollowInv
<1> SUFFICES ASSUME CInit
             PROVE  /\ ~TokenRace /\ ~SlotRace
                    /\ \E g : TrueTree(g) /\ \A p \in Workers : Followed(g, job, rest, job[p])
  BY DEF FollowInv
<1>1. LyingInv /\ Without({"entry", "slot"} \cup Shuffling)
  BY LyingInit, CInitFacts DEF Without
<1>2. ~SlotRace
  BY <1>1 DEF LyingInv
<1>3. PICK g : TrueTree(g)
  BY <1>1 DEF LyingInv
<1>4. \A q \in Workers : job[q].op = "none"
  BY CInitFacts DEF Idle
<1> QED
  BY <1>2, <1>3, <1>4 DEF TokenRace, Followed

\* Every step keeps the invariant.
LEMMA FollowNext ==
    ASSUME ShapeInv, SharingInv, CoreInv, FollowInv, [CNext]_cvars
    PROVE  FollowInv'
<1> DEFINE kinds == {"token", "entry", "slot"} \cup Shuffling
<1> SUFFICES ASSUME Without(kinds)'
             PROVE  /\ ~TokenRace' /\ ~SlotRace'
                    /\ \E g : TrueTree(g)' /\ \A q \in Workers : Followed(g, job', rest', job'[q])
  BY DEF FollowInv
<1>1. CASE UNCHANGED <<fs, job, rest, races>>
  <2>1. Without(kinds)
    BY <1>1 DEF Without
  <2>2. ~TokenRace /\ ~SlotRace
    BY <2>1 DEF FollowInv
  <2>3. PICK g : TrueTree(g) /\ \A q \in Workers : Followed(g, job, rest, job[q])
    BY <2>1 DEF FollowInv
  <2>4. TrueTree(g)' /\ \A q \in Workers : Followed(g, job', rest', job'[q])
    BY <1>1, <2>3 DEF TrueTree, Core
  <2> QED
    BY <1>1, <2>2, <2>4 DEF SlotRace, TokenRace
<1>2. CASE UNCHANGED cvars \/ CTick
  BY <1>1, <1>2 DEF cvars, CTick, Tick
<1>3. ASSUME NEW p \in Workers, Step(p)
      PROVE  /\ ~TokenRace' /\ ~SlotRace'
             /\ \E g : TrueTree(g)' /\ \A q \in Workers : Followed(g, job', rest', job'[q])
  <2>1. Without(kinds) /\ ~EntryRace(p) /\ ~SlotRace' /\ ~TokenRace'
    BY <1>3, RacesAfter
  <2>2. Without(Shuffling)'
    BY DEF Without
  <2>3. ~SlotRace /\ ~TokenRace
    BY <2>1 DEF FollowInv
  <2>4. PICK g : TrueTree(g) /\ \A q \in Workers : Followed(g, job, rest, job[q])
    BY <2>1 DEF FollowInv
  <2>5. /\ Shape /\ ~Overflow /\ Reserving /\ ~CreationRace /\ ~CreationRace' /\ ~PointerRace(p)
        /\ \E k : LeadsTo(p, k) /\ Becomes(p, k)
        /\ Shape'
    BY <1>3, <2>2, QuietNext
  <2>6. PICK k : LeadsTo(p, k) /\ Becomes(p, k)
    BY <2>5
  <2>7. \A q \in Workers : job'[q] = IF q = p THEN k ELSE job[q]
    BY <2>5, <2>6, JobAfter
  <2>8. ASSUME NEW q \in Workers
        PROVE  Followed(g, job, rest', job'[q])
    <3>1. CASE q = p
      <4>1. JobFits(k)
        BY <2>5, <2>7 DEF Shape
      <4>2. Followed(g, job, rest', k)
        BY <2>4, <2>5, <2>6, <4>1, OwnFollows DEF TrueTree
      <4> QED
        BY <2>7, <3>1, <4>2
    <3>2. CASE q # p
      <4>1. Followed(g, job, rest', job[q])
        BY <2>1, <2>3, <2>4, <2>5, <2>6, <3>2, OthersFollow DEF TrueTree
      <4> QED
        BY <2>7, <3>2, <4>1
    <3> QED
      BY <3>1, <3>2
  <2>9. PICK g2 : TrueTree(g2)' /\ \A e, d : Honest(g, job, e, d) => Honest(g2, job', e, d)
    BY <1>3, <2>1, <2>2, <2>3, <2>4, TrueNext
  <2>10. \A q \in Workers : Followed(g2, job', rest', job'[q])
    BY <2>8, <2>9, FollowedStays
  <2> QED
    BY <2>1, <2>9, <2>10
<1> QED
  BY <1>2, <1>3 DEF CNext

\* A look-up that ends with an inode has followed its own path on the disk, whenever no
\* creation is writing, unless another one moved the position of strtok or a cached page lies
\* (fs.c:617, 638).
THEOREM OnlyRacesMisleadLookups == CSpec => []StrayLookupNeedsRace
<1> DEFINE kinds == {"token", "entry", "slot"} \cup Shuffling
<1>1. ASSUME ShapeInv, CoreInv, FollowInv, Without(kinds),
             \A p \in Workers : job[p].pc \notin {"link", "extend"},
             NEW p \in Workers, job[p].op = "lookup", job[p].pc = "attrs"
      PROVE  job[p].n \in Reached(job[p].path)
  <2> DEFINE path == job[p].path
             N == Len(path)
  <2>1. PICK g : TrueTree(g) /\ \A q \in Workers : Followed(g, job, rest, job[q])
    BY <1>1 DEF FollowInv
  <2>2. \A q \in Workers : job[q] \in Job
    BY <1>1 DEF CoreInv, ShapeInv, Without, Shape, JobFits
  <2>3. FsInv(g) /\ Skeleton(fs, g, job)
    BY <2>1 DEF TrueTree, Core, Skeleton
  <2>4. path \in Seq(Names) /\ N \in Nat
    BY <1>1, <2>2, JobFields, PathsAreSeqs
  <2>5. PICK c \in [0 .. N -> InodeNums] :
            /\ c[0] = Root /\ c[N] = job[p].n
            /\ \A i \in 1 .. N : Leads(g, job, c[i - 1], path[i], c[i])
    BY <1>1, <2>1 DEF Followed, Led
  <2> HIDE DEF path, N
  <2>6. ASSUME NEW i \in 1 .. N
        PROVE  /\ c[i - 1] \in Dirs
               /\ \E e \in EntriesOf(c[i - 1]) : e.name = path[i] /\ e.inode = c[i]
    <3> DEFINE d == c[i - 1]
    <3> HIDE DEF d
    <3>1. PICK e : e.name = path[i] /\ e.inode = c[i] /\ Honest(g, job, e, d)
      BY <2>5 DEF Leads, d
    <3>2. e.name # NoName
      <4>1. path[i] \in Names
        BY <2>4 DEF N
      <4> QED
        BY <3>1, <4>1, DirectoriesAssumption
    <3>3. d \in DirsIn(fs) /\ e \in EntriesIn(fs, d)
      BY <1>1, <2>2, <2>3, <3>1, <3>2, HonestOnDisk
    <3> QED
      BY <3>1, <3>3, SameEntries DEF d
  <2>7. c[N] \in Reached(path)
    BY <2>4, <2>5, <2>6, LedReached DEF N
  <2> QED
    BY <2>5, <2>7 DEF path
<1>2. ShapeInv /\ CoreInv /\ FollowInv => StrayLookupNeedsRace
  BY <1>1 DEF StrayLookupNeedsRace
<1>3. ShapeInv /\ SharingInv /\ [CNext]_cvars => SharingInv'
  BY SharingNext
<1>4. ShapeInv /\ SharingInv /\ CoreInv /\ FollowInv /\ [CNext]_cvars => FollowInv'
  BY FollowNext
<1> QED
  BY ShapeIsKept, SharingInit, TreeIsThere, FollowInit, <1>2, <1>3, <1>4, PTL DEF CSpec
=============================================================================
