-------------------------- MODULE FileSystemProofs --------------------------
(***************************************************************************)
(* Theorems about FileSystem, for every size of its tables, blocks and     *)
(* caches.  Lemmas say what each function of snfs_server/fs.c does to the  *)
(* file system structure and that it keeps the inductive invariant, first  *)
(* those on inodes and on the blocks of files, then those on directories   *)
(* and their page cache (the search for a name, the walk down a path, the  *)
(* new entry, the listing); so do the handlers of snfs_server/snfs.c, and  *)
(* the properties follow.  A value g of the structure is reached from f if *)
(* it satisfies the invariant and no inode or directory entry of f is lost *)
(* in it; the comments say that a function "leads on" if what it returns   *)
(* is reached from what it was called with.  Three parts in the middle are *)
(* about structures that other threads have left, of which only the types  *)
(* are known.                                                              *)
(***************************************************************************)
EXTENDS FileSystem, InductionFacts, FiniteSetTheorems, TLAPS

-----------------------------------------------------------------------------
(* The inductive invariant, for a value f of the structure.                *)

CopiesIn(f, n) == {f.inode_tab[n]} \cup {f.inode_cache[i].inode : i \in CachedAt(f, n)}

\* A copy of an inode has blocks up to its size, each of them once.
Covered(x) ==
    /\ OffsetToBlocks(x.size) <= InodeNumBlks
    /\ \A i \in Indices : i < OffsetToBlocks(x.size) => x.blocks[i] # 0

Distinct(x) == \A i, j \in Indices : i # j /\ x.blocks[i] # 0 => x.blocks[i] # x.blocks[j]

\* Copies of different inodes have no block in common, and all are marked.
BlocksInv(f) ==
    /\ \A n, m \in InodeNums : n # m =>
          \A x \in CopiesIn(f, n), y \in CopiesIn(f, m) : BlocksOf(x) \cap BlocksOf(y) = {}
    /\ \A n \in InodeNums : \A x \in CopiesIn(f, n) :
          Covered(x) /\ Distinct(x) /\ BlocksOf(x) \subseteq f.blk_bmap

\* Exactly the inodes in use have a type.
KindInv(f) ==
    /\ {0, Root} \subseteq f.inode_bmap
    /\ f.inode_tab[0].type = "none"
    /\ f.inode_tab[Root].type = "dir"
    /\ \A n \in InodeNums \ {0} : n \in f.inode_bmap <=> f.inode_tab[n].type # "none"

DirsIn(f) == {n \in InodeNums : f.inode_tab[n].type = "dir"}
NumOf(x) == x.size \div DentrySize
PlaceIn(f, x, i) == f.page[x.blocks[i \div DirPageEntries]][i % DirPageEntries]
EntriesIn(f, n) == {PlaceIn(f, f.inode_tab[n], i) : i \in 0 .. NumOf(f.inode_tab[n]) - 1}

\* A directory has just the blocks that its size needs.  Blocks that are not in
\* use are blank, and so is the last page of a directory behind its last entry.
PagesInv(f) ==
    /\ \A b \in Blocks \ f.blk_bmap : f.page[b] = ZeroPage
    /\ \A d \in DirsIn(f) : LET x == f.inode_tab[d] IN
          /\ x.size = NumOf(x) * DentrySize
          /\ \A k \in Indices : x.blocks[k] # 0 => k * DirPageEntries < NumOf(x)
          /\ \A k \in Indices, p \in Positions :
                x.blocks[k] # 0 /\ k * DirPageEntries + p >= NumOf(x) =>
                    f.page[x.blocks[k]][p] = NoDentry

\* Every inode in use but 0 and the root is in one place of one directory.
TreeInv(f) ==
    /\ \A d \in DirsIn(f) : \A i \in 0 .. NumOf(f.inode_tab[d]) - 1 :
          LET e == PlaceIn(f, f.inode_tab[d], i) IN
              e.name \in Names /\ e.inode \in f.inode_bmap \ {0, Root}
    /\ \A d, c \in DirsIn(f) :
          \A i \in 0 .. NumOf(f.inode_tab[d]) - 1, j \in 0 .. NumOf(f.inode_tab[c]) - 1 :
              PlaceIn(f, f.inode_tab[d], i).inode = PlaceIn(f, f.inode_tab[c], j).inode
                  => d = c /\ i = j
    /\ \A n \in f.inode_bmap \ {0, Root} :
          \E d \in DirsIn(f) : \E i \in 0 .. NumOf(f.inode_tab[d]) - 1 :
              PlaceIn(f, f.inode_tab[d], i).inode = n

\* Copy x of a directory is an old version of y.
Behind(x, y) ==
    /\ x.size = NumOf(x) * DentrySize
    /\ x.size <= y.size
    /\ \A k \in Indices : x.blocks[k] # 0 => x.blocks[k] = y.blocks[k]

\* A slot of the inode cache has an inode in use, of the type it has in the
\* table; only copies of files are dirty, and those of directories are old.
SlotOK(f, e) ==
    /\ e.num \in f.inode_bmap
    /\ e.inode.type = f.inode_tab[e.num].type
    /\ e.dirty => e.inode.type = "file"
    /\ e.inode.type = "dir" => Behind(e.inode, f.inode_tab[e.num])

CacheInv(f) == \A i \in ISlots : SlotOK(f, f.inode_cache[i])

\* What a cached page says is in the directory.
DirCacheInv(f) ==
    \A i \in DSlots : LET e == f.dir_cache[i] IN
        \A p \in Positions : e.entries[p].name # NoName =>
            e.dir \in DirsIn(f) /\ e.entries[p] \in EntriesIn(f, e.dir)

FsInv(f) ==
    /\ f \in FsStruct
    /\ BlocksInv(f)
    /\ KindInv(f)
    /\ CacheInv(f)
    /\ PagesInv(f)
    /\ TreeInv(f)
    /\ DirCacheInv(f)

-----------------------------------------------------------------------------
(* Arithmetic: bytes, blocks and directory entries.                        *)

\* Quotient and remainder are numbers, and the remainder is smaller than the divisor.
LEMMA DivRange ==
    ASSUME NEW a \in Nat, NEW d \in Nat \ {0}
    PROVE  a \div d \in Nat /\ a % d \in 0 .. d - 1
BY SMT

\* A number is its quotient times the divisor, and the remainder.
LEMMA DivMod ==
    ASSUME NEW a \in Nat, NEW d \in Nat \ {0}
    PROVE  a = (a \div d) * d + (a % d)
BY DivRange, SMTT(30)

\* There is one way only to split a number like this.
LEMMA DivUnique ==
    ASSUME NEW q \in Nat, NEW d \in Nat \ {0}, NEW r \in 0 .. d - 1
    PROVE  (q * d + r) \div d = q /\ (q * d + r) % d = r
BY SMT

\* Products grow with their factor.
LEMMA MulMono ==
    ASSUME NEW q \in Nat, NEW d \in Nat, NEW p \in Nat, p <= q
    PROVE  p * d <= q * d
BY SMT

\* A larger factor adds at least once the other one.
LEMMA MulLess ==
    ASSUME NEW q \in Nat, NEW d \in Nat \ {0}, NEW p \in Nat, p < q
    PROVE  p * d + d <= q * d
BY SMT

\* Block i is among the blocks of s bytes exactly if it begins before byte s.
LEMMA CeilLess ==
    ASSUME NEW s \in Nat, NEW i \in Nat
    PROVE  /\ OffsetToBlocks(s) \in Nat
           /\ i < OffsetToBlocks(s) <=> i * BlockSize < s
<1> DEFINE B == BlockSize
           q == s \div B
           r == s % B
<1>1. B \in Nat \ {0}
  BY InodesAssumption
<1>2. q \in Nat /\ r \in 0 .. B - 1 /\ s = q * B + r
  BY <1>1, DivRange, DivMod
<1>3. OffsetToBlocks(s) = q + (IF r > 0 THEN 1 ELSE 0)
  BY DEF OffsetToBlocks
<1> HIDE DEF B, q, r
<1>4. CASE i < q
  <2>1. i * B + B <= q * B
    BY <1>1, <1>2, <1>4, MulLess
  <2>2. i * B \in Nat /\ q * B \in Nat
    BY <1>1, <1>2
  <2>3. i * B < s
    BY <1>1, <1>2, <2>1, <2>2
  <2> QED
    BY <1>2, <1>3, <1>4, <2>3 DEF B
<1>5. CASE i = q
  <2>1. i * B \in Nat
    BY <1>1
  <2>2. i * B < s <=> r > 0
    BY <1>1, <1>2, <1>5, <2>1
  <2> QED
    BY <1>2, <1>3, <1>5, <2>2 DEF B
<1>6. CASE i > q
  <2>1. q * B + B <= i * B
    BY <1>1, <1>2, <1>6, MulLess
  <2>2. i * B \in Nat /\ q * B \in Nat
    BY <1>1, <1>2
  <2>3. ~(i * B < s)
    BY <1>1, <1>2, <2>1, <2>2
  <2> QED
    BY <1>2, <1>3, <1>6, <2>3 DEF B
<1> QED
  BY <1>2, <1>4, <1>5, <1>6

\* More bytes need no fewer blocks.
LEMMA CeilMono ==
    ASSUME NEW s \in Nat, NEW t \in Nat, s <= t
    PROVE  OffsetToBlocks(s) <= OffsetToBlocks(t)
<1> DEFINE n == OffsetToBlocks(t)
<1>1. n \in Nat /\ OffsetToBlocks(s) \in Nat
  BY CeilLess
<1>2. ~(n < OffsetToBlocks(t))
  BY <1>1
<1> HIDE DEF n
<1>3. ~(n * BlockSize < t)
  BY <1>1, <1>2, CeilLess
<1>4. n * BlockSize \in Nat
  BY <1>1, InodesAssumption
<1>5. ~(n * BlockSize < s)
  BY <1>3, <1>4
<1>6. ~(n < OffsetToBlocks(s))
  BY <1>1, <1>5, CeilLess
<1> QED
  BY <1>1, <1>6 DEF n

\* A block is a whole number of directory entries.
LEMMA BlockIsPage ==
    /\ DentrySize \in Nat \ {0}
    /\ DirPageEntries \in Nat \ {0}
    /\ BlockSize \in Nat \ {0}
    /\ BlockSize = DentrySize * DirPageEntries
<1>1. BlockSize \in Nat \ {0} /\ DirPageEntries \in Nat \ {0} /\ BlockSize % DirPageEntries = 0
  BY InodesAssumption, DirectoriesAssumption
<1>2. /\ DentrySize \in Nat
      /\ BlockSize = DentrySize * DirPageEntries + (BlockSize % DirPageEntries)
  BY <1>1, DivRange, DivMod DEF DentrySize
<1>3. DentrySize * DirPageEntries \in Nat
  BY <1>1, <1>2
<1>4. BlockSize = DentrySize * DirPageEntries
  BY <1>1, <1>2, <1>3
<1>5. DentrySize # 0
  BY <1>1, <1>4
<1> QED
  BY <1>1, <1>2, <1>4, <1>5

\* Where entry n of a directory of n entries goes.
LEMMA EntrySlot ==
    ASSUME NEW n \in Nat
    PROVE  LET s == n * DentrySize IN
           /\ s \in Nat
           /\ s \div DentrySize = n
           /\ s \div BlockSize = n \div DirPageEntries
           /\ (s % BlockSize) \div DentrySize = n % DirPageEntries
           /\ s % BlockSize = 0 <=> n % DirPageEntries = 0
<1> DEFINE Z == DentrySize
           D == DirPageEntries
           B == BlockSize
           q == n \div D
           r == n % D
<1>1. Z \in Nat \ {0} /\ D \in Nat \ {0} /\ B \in Nat \ {0} /\ B = Z * D
  BY BlockIsPage
<1> HIDE DEF Z, D, B
<1>2. q \in Nat /\ r \in 0 .. D - 1 /\ n = q * D + r
  BY <1>1, DivRange, DivMod
<1> HIDE DEF q, r
<1>3. n * Z \in Nat /\ r * Z \in Nat /\ q * B \in Nat
  BY <1>1, <1>2
<1>4. n * Z = q * B + r * Z
  <2>1. q * B = (q * D) * Z
    BY <1>1, <1>2
  <2>2. n * Z = (q * D) * Z + r * Z
    BY <1>1, <1>2
  <2> QED
    BY <2>1, <2>2
<1>5. r * Z + Z <= B
  <2>1. r * Z + Z <= D * Z
    BY <1>1, <1>2, MulLess
  <2> QED
    BY <1>1, <2>1
<1>6. r * Z \in 0 .. B - 1
  BY <1>1, <1>3, <1>5
<1>7. (n * Z) \div B = q /\ (n * Z) % B = r * Z
  <2> DEFINE m == r * Z
  <2>1. m \in 0 .. B - 1
    BY <1>6
  <2> HIDE DEF m
  <2>2. (q * B + m) \div B = q /\ (q * B + m) % B = m
    BY <1>1, <1>2, <2>1, DivUnique
  <2> QED
    BY <1>4, <2>2 DEF m
<1>8. (n * Z + 0) \div Z = n /\ (r * Z + 0) \div Z = r
  <2>1. 0 \in 0 .. Z - 1 /\ r \in Nat
    BY <1>1, <1>2
  <2> QED
    BY <1>1, <2>1, DivUnique
<1>9. (n * Z) \div Z = n /\ (r * Z) \div Z = r
  BY <1>3, <1>8
<1>10. r * Z = 0 <=> r = 0
  <2>1. r # 0 => r * Z >= Z
    <3>1. r # 0 => 0 * Z + Z <= r * Z
      BY <1>1, <1>2, MulLess
    <3> QED
      BY <1>1, <1>3, <3>1
  <2>2. 0 * Z = 0
    BY <1>1
  <2> QED
    BY <1>1, <2>1, <2>2
<1> QED
  BY <1>3, <1>7, <1>9, <1>10 DEF Z, D, B, q, r

\* Entry i of a directory of n entries is in a block that the size covers.
LEMMA EntryBlock ==
    ASSUME NEW n \in Nat, NEW i \in 0 .. n - 1
    PROVE  /\ i \div DirPageEntries \in Nat
           /\ i % DirPageEntries \in Positions
           /\ i \div DirPageEntries < OffsetToBlocks(n * DentrySize)
<1> DEFINE Z == DentrySize
           D == DirPageEntries
           B == BlockSize
           q == i \div D
           r == i % D
<1>1. Z \in Nat \ {0} /\ D \in Nat \ {0} /\ B \in Nat \ {0} /\ B = Z * D
  BY BlockIsPage
<1> HIDE DEF Z, D, B
<1>2. i \in Nat
  OBVIOUS
<1>3. q \in Nat /\ r \in 0 .. D - 1 /\ i = q * D + r
  BY <1>1, <1>2, DivRange, DivMod
<1> HIDE DEF q, r
<1>4. q * D \in Nat /\ q * D < n
  BY <1>1, <1>3
<1>5. (q * D) * Z + Z <= n * Z
  BY <1>1, <1>4, MulLess
<1>6. q * B = (q * D) * Z
  BY <1>1, <1>3
<1>7. n * Z \in Nat /\ q * B \in Nat /\ (q * D) * Z \in Nat
  BY <1>1, <1>3, <1>4
<1>8. q * B < n * Z
  BY <1>1, <1>5, <1>6, <1>7
<1>9. q < OffsetToBlocks(n * Z)
  BY <1>3, <1>7, <1>8, CeilLess DEF B
<1> QED
  BY <1>3, <1>9 DEF Z, D, B, q, r, Positions

-----------------------------------------------------------------------------
(* The structure and its fields.                                           *)

\* The fields of the structure have their types.
LEMMA Fields ==
    ASSUME NEW f \in FsStruct
    PROVE  /\ f.inode_tab \in [InodeNums -> Inode]
           /\ f.inode_bmap \in SUBSET InodeNums
           /\ f.blk_bmap \in SUBSET Blocks
           /\ f.page \in [Blocks -> Page]
           /\ f.inode_cache \in [ISlots -> InodeEntry]
           /\ f.dir_cache \in [DSlots -> DirEntry]
BY DEF FsStruct

\* The fields of an inode have their types.
LEMMA InodeFields ==
    ASSUME NEW x \in Inode
    PROVE  /\ x.type \in {"none", "dir", "file"}
           /\ x.size \in Nat
           /\ x.blocks \in [Indices -> Blocks \cup {0}]
BY DEF Inode

\* The fields of a slot of the inode cache have their types.
LEMMA InodeEntryFields ==
    ASSUME NEW e \in InodeEntry
    PROVE  e.num \in InodeNums /\ e.inode \in Inode /\ e.dirty \in BOOLEAN /\ e.last \in Nat
BY DEF InodeEntry

\* The fields of a slot of the directory cache have their types.
LEMMA DirEntryFields ==
    ASSUME NEW e \in DirEntry
    PROVE  /\ e.dir \in InodeNums
           /\ e.block \in Blocks \cup {0}
           /\ e.entries \in [Positions -> Dentry]
           /\ e.last \in Nat
BY DEF DirEntry, Page

\* The fields of a directory entry have their types.
LEMMA DentryFields ==
    ASSUME NEW e \in Dentry
    PROVE  e.name \in Names \cup {NoName} /\ e.inode \in InodeNums
BY DEF Dentry

\* No index set holds the values that stand for none of it: block 0 is no data block,
\* the caches have slots, and the table is behind the last slot of the inode cache.
LEMMA Sizes ==
    /\ 0 \in InodeNums /\ Root \in InodeNums /\ InodeNums \subseteq Nat
    /\ Blocks \subseteq Nat \ {0}
    /\ Indices \subseteq Nat
    /\ ISlots \subseteq Nat /\ ISlots # {} /\ InodeCacheSize \notin ISlots
    /\ DSlots \subseteq Nat /\ DSlots # {} /\ DirCacheSize \notin DSlots
    /\ Positions \subseteq Nat
<1>1. 0 \in ISlots /\ 0 \in DSlots
  BY InodesAssumption, DirectoriesAssumption DEF ISlots, DSlots
<1>2. /\ 0 \in InodeNums /\ Root \in InodeNums /\ InodeNums \subseteq Nat
      /\ Blocks \subseteq Nat \ {0}
      /\ Indices \subseteq Nat
  BY InodesAssumption DEF InodeNums, Root, Blocks, Indices
<1>3. /\ ISlots \subseteq Nat /\ InodeCacheSize \notin ISlots
      /\ DSlots \subseteq Nat /\ DirCacheSize \notin DSlots
      /\ Positions \subseteq Nat
  BY InodesAssumption, DirectoriesAssumption DEF ISlots, DSlots, Positions
<1> QED
  BY <1>1, <1>2, <1>3

\* fsi_bmap_find_free, and every scan for the first that fits.
LEMMA LowestIn ==
    ASSUME NEW S, S \subseteq Nat, S # {}
    PROVE  Lowest(S) \in S /\ \A y \in S : Lowest(S) <= y
BY NatMin DEF Lowest

\* There is a slot to replace.
LEMMA LruSlotIn ==
    ASSUME NEW cache, NEW S, S \subseteq Nat, S # {}, \A i \in S : cache[i].last \in Nat
    PROVE  LruSlot(cache, S) \in S
<1> DEFINE T == {cache[i].last : i \in S}
<1>1. T \subseteq Nat /\ T # {}
  OBVIOUS
<1> HIDE DEF T
<1>2. PICK m \in T : \A y \in T : m <= y
  BY <1>1, NatMin
<1> DEFINE U == {i \in S : cache[i].last = m}
<1>3. U \subseteq Nat /\ U # {}
  BY <1>2 DEF T
<1> HIDE DEF U
<1>4. PICK i \in U : \A j \in U : i <= j
  BY <1>3, NatMin
<1>5. i \in S /\ cache[i].last = m
  BY <1>4 DEF U
<1>6. ASSUME NEW j \in S
      PROVE  \/ cache[i].last < cache[j].last
             \/ cache[i].last = cache[j].last /\ i <= j
  <2>1. cache[j].last \in T
    BY DEF T
  <2>2. m <= cache[j].last /\ m \in Nat /\ cache[j].last \in Nat
    BY <1>1, <1>2, <2>1
  <2>3. CASE cache[j].last = m
    BY <1>4, <1>5, <2>3 DEF U
  <2>4. CASE cache[j].last # m
    BY <1>5, <2>2, <2>4
  <2> QED
    BY <2>3, <2>4
<1> QED
  BY <1>5, <1>6 DEF LruSlot

\* find_inode_in_cache gives a slot that has the inode.
LEMMA CachedIn ==
    ASSUME NEW f \in FsStruct, NEW n, CachedAt(f, n) # {}
    PROVE  /\ Lowest(CachedAt(f, n)) \in ISlots
           /\ f.inode_cache[Lowest(CachedAt(f, n))].num = n
<1>1. CachedAt(f, n) \subseteq Nat
  BY Sizes DEF CachedAt
<1> QED
  BY <1>1, LowestIn DEF CachedAt

\* A touch changes the access time of a slot, and nothing else.
LEMMA TouchFields ==
    ASSUME NEW f \in FsStruct, NEW n \in InodeNums, NEW t \in Nat, CachedAt(f, n) # {}
    PROVE  LET g == Touch(f, n, t) IN
           /\ g \in FsStruct
           /\ g.inode_tab = f.inode_tab /\ g.inode_bmap = f.inode_bmap
           /\ g.blk_bmap = f.blk_bmap /\ g.page = f.page /\ g.dir_cache = f.dir_cache
           /\ \A i \in ISlots : /\ g.inode_cache[i].num = f.inode_cache[i].num
                                /\ g.inode_cache[i].inode = f.inode_cache[i].inode
                                /\ g.inode_cache[i].dirty = f.inode_cache[i].dirty
<1> DEFINE v == Lowest(CachedAt(f, n))
           e == [f.inode_cache[v] EXCEPT !.last = t]
           c == [f.inode_cache EXCEPT ![v] = e]
<1>1. v \in ISlots
  BY CachedIn
<1>2. f.inode_cache \in [ISlots -> InodeEntry]
  BY Fields
<1>3. Touch(f, n, t) = [f EXCEPT !.inode_cache = c]
  BY DEF Touch
<1> HIDE DEF v
<1>4. /\ e \in InodeEntry
      /\ e.num = f.inode_cache[v].num
      /\ e.inode = f.inode_cache[v].inode
      /\ e.dirty = f.inode_cache[v].dirty
  BY <1>1, <1>2 DEF InodeEntry
<1> HIDE DEF e
<1>5. c \in [ISlots -> InodeEntry]
  BY <1>1, <1>2, <1>4
<1>6. \A i \in ISlots : c[i] = IF i = v THEN e ELSE f.inode_cache[i]
  BY <1>1, <1>2
<1> HIDE DEF c
<1>7. /\ Touch(f, n, t) \in FsStruct
      /\ Touch(f, n, t).inode_cache = c
      /\ Touch(f, n, t).inode_tab = f.inode_tab
      /\ Touch(f, n, t).inode_bmap = f.inode_bmap
      /\ Touch(f, n, t).blk_bmap = f.blk_bmap
      /\ Touch(f, n, t).page = f.page
      /\ Touch(f, n, t).dir_cache = f.dir_cache
  BY <1>3, <1>5 DEF FsStruct
<1> QED
  BY <1>4, <1>6, <1>7

\* Slot v got inode n after what was in it went back to the table if it was dirty.
AddedAt(f, g, n, d, v) ==
    /\ g.inode_tab = IF f.inode_cache[v].dirty
                     THEN [f.inode_tab EXCEPT ![f.inode_cache[v].num] = f.inode_cache[v].inode]
                     ELSE f.inode_tab
    /\ g.inode_cache[v].num = n
    /\ g.inode_cache[v].inode = g.inode_tab[n]
    /\ g.inode_cache[v].dirty = d
    /\ \A i \in ISlots \ {v} : g.inode_cache[i] = f.inode_cache[i]

\* add_inode_to_cache writes a dirty victim back and fills its slot.
LEMMA AddInodeFields ==
    ASSUME NEW f \in FsStruct, NEW n \in InodeNums, NEW d \in BOOLEAN, NEW t \in Nat
    PROVE  LET g == AddInode(f, n, d, t) IN
           /\ g \in FsStruct
           /\ g.inode_bmap = f.inode_bmap /\ g.blk_bmap = f.blk_bmap
           /\ g.page = f.page /\ g.dir_cache = f.dir_cache
           /\ \E v \in ISlots : AddedAt(f, g, n, d, v)
<1> DEFINE v == LruSlot(f.inode_cache, ISlots)
           old == f.inode_cache[v]
           tab == IF old.dirty THEN [f.inode_tab EXCEPT ![old.num] = old.inode] ELSE f.inode_tab
           e == [num |-> n, inode |-> tab[n], dirty |-> d, last |-> t]
           c == [f.inode_cache EXCEPT ![v] = e]
           g == AddInode(f, n, d, t)
<1>1. f.inode_cache \in [ISlots -> InodeEntry] /\ f.inode_tab \in [InodeNums -> Inode]
  BY Fields
<1>2. v \in ISlots
  <2>1. \A i \in ISlots : f.inode_cache[i].last \in Nat
    BY <1>1, InodeEntryFields
  <2> QED
    BY <2>1, Sizes, LruSlotIn
<1>3. g = [f EXCEPT !.inode_tab = tab, !.inode_cache = c]
  BY DEF AddInode
<1> HIDE DEF v
<1>4. old \in InodeEntry
  BY <1>1, <1>2
<1>5. tab \in [InodeNums -> Inode]
  BY <1>1, <1>4, InodeEntryFields
<1>6. tab = IF f.inode_cache[v].dirty
            THEN [f.inode_tab EXCEPT ![f.inode_cache[v].num] = f.inode_cache[v].inode]
            ELSE f.inode_tab
  OBVIOUS
<1> HIDE DEF tab
<1>7. e \in InodeEntry /\ e.num = n /\ e.inode = tab[n] /\ e.dirty = d
  BY <1>5 DEF InodeEntry
<1> HIDE DEF e
<1>8. /\ c \in [ISlots -> InodeEntry]
      /\ c[v] = e
      /\ \A i \in ISlots \ {v} : c[i] = f.inode_cache[i]
  BY <1>1, <1>2, <1>7
<1> HIDE DEF c, g
<1>9. /\ g \in FsStruct /\ g.inode_tab = tab /\ g.inode_cache = c
      /\ g.inode_bmap = f.inode_bmap /\ g.blk_bmap = f.blk_bmap
      /\ g.page = f.page /\ g.dir_cache = f.dir_cache
  BY <1>3, <1>5, <1>8 DEF FsStruct
<1> QED
  BY ZenonT(60), <1>2, <1>6, <1>7, <1>8, <1>9 DEF g, AddedAt

\* A copy is replaced by x: the one in the table, or the one in a slot.
LEMMA StoreFields ==
    ASSUME NEW f \in FsStruct, NEW n \in InodeNums, NEW at \in ISlots \cup {TableRef}, NEW x \in Inode
    PROVE  LET g == Store(f, at, n, x) IN
           /\ g \in FsStruct
           /\ g.inode_bmap = f.inode_bmap /\ g.blk_bmap = f.blk_bmap
           /\ g.page = f.page /\ g.dir_cache = f.dir_cache
           /\ at = TableRef => /\ g.inode_tab = [f.inode_tab EXCEPT ![n] = x]
                               /\ g.inode_cache = f.inode_cache
           /\ at # TableRef => /\ g.inode_tab = f.inode_tab
                               /\ g.inode_cache[at].num = f.inode_cache[at].num
                               /\ g.inode_cache[at].dirty = f.inode_cache[at].dirty
                               /\ g.inode_cache[at].inode = x
                               /\ \A i \in ISlots \ {at} : g.inode_cache[i] = f.inode_cache[i]
           /\ Deref(g, at, n) = x
<1> DEFINE g == Store(f, at, n, x)
<1>1. f.inode_cache \in [ISlots -> InodeEntry] /\ f.inode_tab \in [InodeNums -> Inode]
  BY Fields
<1>2. TableRef \notin ISlots
  BY Sizes DEF TableRef
<1>3. CASE at = TableRef
  <2> DEFINE tab == [f.inode_tab EXCEPT ![n] = x]
  <2>1. g = [f EXCEPT !.inode_tab = tab]
    BY <1>3 DEF Store
  <2>2. tab \in [InodeNums -> Inode] /\ tab[n] = x
    BY <1>1
  <2>3. tab = [f.inode_tab EXCEPT ![n] = x]
    OBVIOUS
  <2> HIDE DEF tab, g
  <2>4. /\ g \in FsStruct /\ g.inode_tab = tab /\ g.inode_cache = f.inode_cache
        /\ g.inode_bmap = f.inode_bmap /\ g.blk_bmap = f.blk_bmap
        /\ g.page = f.page /\ g.dir_cache = f.dir_cache
    BY <2>1, <2>2 DEF FsStruct
  <2>5. Deref(g, at, n) = x
    BY <1>3, <2>2, <2>4 DEF Deref
  <2> QED
    BY <1>3, <2>3, <2>4, <2>5 DEF g
<1>4. CASE at # TableRef
  <2> DEFINE e == [f.inode_cache[at] EXCEPT !.inode = x]
             c == [f.inode_cache EXCEPT ![at] = e]
  <2>1. at \in ISlots
    BY <1>4
  <2>2. g = [f EXCEPT !.inode_cache = c]
    BY <1>4 DEF Store
  <2>3. /\ e \in InodeEntry /\ e.inode = x
        /\ e.num = f.inode_cache[at].num /\ e.dirty = f.inode_cache[at].dirty
    BY <1>1, <2>1 DEF InodeEntry
  <2> HIDE DEF e
  <2>4. /\ c \in [ISlots -> InodeEntry] /\ c[at] = e
        /\ \A i \in ISlots \ {at} : c[i] = f.inode_cache[i]
    BY <1>1, <2>1, <2>3
  <2> HIDE DEF c, g
  <2>5. /\ g \in FsStruct /\ g.inode_cache = c /\ g.inode_tab = f.inode_tab
        /\ g.inode_bmap = f.inode_bmap /\ g.blk_bmap = f.blk_bmap
        /\ g.page = f.page /\ g.dir_cache = f.dir_cache
    BY <2>2, <2>4 DEF FsStruct
  <2>6. Deref(g, at, n) = x
    BY <1>4, <2>3, <2>4, <2>5 DEF Deref
  <2> QED
    BY <1>4, <2>3, <2>4, <2>5, <2>6 DEF g
<1> QED
  BY <1>3, <1>4

\* Marking a slot as dirty changes nothing else.
LEMMA MarkDirtyFields ==
    ASSUME NEW f \in FsStruct, NEW at \in ISlots \cup {TableRef}
    PROVE  LET g == MarkDirty(f, at) IN
           /\ g \in FsStruct
           /\ g.inode_tab = f.inode_tab /\ g.inode_bmap = f.inode_bmap
           /\ g.blk_bmap = f.blk_bmap /\ g.page = f.page /\ g.dir_cache = f.dir_cache
           /\ \A i \in ISlots : /\ g.inode_cache[i].num = f.inode_cache[i].num
                                /\ g.inode_cache[i].inode = f.inode_cache[i].inode
                                /\ i # at => g.inode_cache[i].dirty = f.inode_cache[i].dirty
<1> DEFINE g == MarkDirty(f, at)
<1>1. f.inode_cache \in [ISlots -> InodeEntry]
  BY Fields
<1>2. CASE at = TableRef
  BY <1>2 DEF MarkDirty
<1>3. CASE at # TableRef
  <2> DEFINE e == [f.inode_cache[at] EXCEPT !.dirty = TRUE]
             c == [f.inode_cache EXCEPT ![at] = e]
  <2>1. at \in ISlots
    BY <1>3
  <2>2. g = [f EXCEPT !.inode_cache = c]
    BY <1>3 DEF MarkDirty
  <2>3. e \in InodeEntry /\ e.num = f.inode_cache[at].num /\ e.inode = f.inode_cache[at].inode
    BY <1>1, <2>1 DEF InodeEntry
  <2> HIDE DEF e
  <2>4. /\ c \in [ISlots -> InodeEntry]
        /\ \A i \in ISlots : c[i] = IF i = at THEN e ELSE f.inode_cache[i]
    BY <1>1, <2>1, <2>3
  <2> HIDE DEF c, g
  <2>5. /\ g \in FsStruct /\ g.inode_cache = c /\ g.inode_tab = f.inode_tab
        /\ g.inode_bmap = f.inode_bmap /\ g.blk_bmap = f.blk_bmap
        /\ g.page = f.page /\ g.dir_cache = f.dir_cache
    BY <2>2, <2>4 DEF FsStruct
  <2> QED
    BY <2>3, <2>4, <2>5 DEF g
<1> QED
  BY <1>2, <1>3

-----------------------------------------------------------------------------
(* What is changed in the directory cache, and only there.                 *)

SameInodes(f, g) ==
    /\ g \in FsStruct
    /\ g.inode_tab = f.inode_tab /\ g.inode_bmap = f.inode_bmap
    /\ g.blk_bmap = f.blk_bmap /\ g.page = f.page /\ g.inode_cache = f.inode_cache

\* A change to a slot of the directory cache.
LEMMA SetDirSlot ==
    ASSUME NEW f \in FsStruct, NEW v \in DSlots, NEW e \in DirEntry
    PROVE  LET g == [f EXCEPT !.dir_cache[v] = e] IN
           /\ SameInodes(f, g)
           /\ g.dir_cache[v] = e
           /\ \A i \in DSlots \ {v} : g.dir_cache[i] = f.dir_cache[i]
<1> DEFINE c == [f.dir_cache EXCEPT ![v] = e]
           g == [f EXCEPT !.dir_cache[v] = e]
<1>1. f.dir_cache \in [DSlots -> DirEntry]
  BY Fields
<1>2. g = [f EXCEPT !.dir_cache = c]
  OBVIOUS
<1>3. /\ c \in [DSlots -> DirEntry] /\ c[v] = e
      /\ \A i \in DSlots \ {v} : c[i] = f.dir_cache[i]
  BY <1>1
<1> HIDE DEF c, g
<1>4. /\ g \in FsStruct /\ g.dir_cache = c /\ g.inode_tab = f.inode_tab
      /\ g.inode_bmap = f.inode_bmap /\ g.blk_bmap = f.blk_bmap
      /\ g.page = f.page /\ g.inode_cache = f.inode_cache
  BY <1>2, <1>3 DEF FsStruct
<1> QED
  BY <1>3, <1>4 DEF SameInodes, g

\* A page that was read from the disk replaces the one in a slot.
LEMMA FillPageFields ==
    ASSUME NEW f \in FsStruct, NEW d \in InodeNums, NEW b \in Blocks, NEW t \in Nat
    PROVE  LET g == FillPage(f, d, b, f.page[b], t) IN
           /\ SameInodes(f, g)
           /\ \E v \in DSlots : /\ g.dir_cache[v].dir = d
                                /\ g.dir_cache[v].block = b
                                /\ g.dir_cache[v].entries = f.page[b]
                                /\ \A i \in DSlots \ {v} : g.dir_cache[i] = f.dir_cache[i]
<1> DEFINE v == LruSlot(f.dir_cache, DSlots)
           e == [dir |-> d, block |-> b, entries |-> f.page[b], last |-> t]
<1>1. v \in DSlots
  <2>1. \A i \in DSlots : f.dir_cache[i].last \in Nat
    BY Fields, DirEntryFields
  <2> QED
    BY <2>1, Sizes, LruSlotIn
<1>2. FillPage(f, d, b, f.page[b], t) = [f EXCEPT !.dir_cache[v] = e]
  BY DEF FillPage
<1> HIDE DEF v
<1>3. e \in DirEntry /\ e.dir = d /\ e.block = b /\ e.entries = f.page[b]
  <2>1. f.page[b] \in Page
    BY Fields
  <2> QED
    BY <2>1 DEF DirEntry
<1> HIDE DEF e
<1> QED
  BY <1>1, <1>2, <1>3, SetDirSlot

\* The slot that is found for a page has that page.
LEMMA PageSlotIn ==
    ASSUME NEW f \in FsStruct, NEW d, NEW b, SlotsOfPage(f, d, b) # {}
    PROVE  /\ PageSlot(f, d, b) \in DSlots
           /\ f.dir_cache[PageSlot(f, d, b)].dir = d
           /\ f.dir_cache[PageSlot(f, d, b)].block = b
<1>1. SlotsOfPage(f, d, b) \subseteq Nat
  BY Sizes DEF SlotsOfPage, SlotsOfDir
<1>2. PageSlot(f, d, b) \in SlotsOfPage(f, d, b)
  BY <1>1, LowestIn DEF PageSlot
<1> QED
  BY <1>2 DEF SlotsOfPage, SlotsOfDir

\* Only the time of the last access of a slot is changed.
LEMMA SetLast ==
    ASSUME NEW f \in FsStruct, NEW v \in DSlots, NEW t \in Nat
    PROVE  LET g == [f EXCEPT !.dir_cache[v].last = t] IN
           /\ SameInodes(f, g)
           /\ \A i \in DSlots : /\ g.dir_cache[i].dir = f.dir_cache[i].dir
                                /\ g.dir_cache[i].block = f.dir_cache[i].block
                                /\ g.dir_cache[i].entries = f.dir_cache[i].entries
<1> DEFINE e == [f.dir_cache[v] EXCEPT !.last = t]
<1>1. f.dir_cache[v] \in DirEntry
  BY Fields
<1>2. /\ e \in DirEntry /\ e.dir = f.dir_cache[v].dir
      /\ e.block = f.dir_cache[v].block /\ e.entries = f.dir_cache[v].entries
  BY <1>1 DEF DirEntry
<1>3. [f EXCEPT !.dir_cache[v].last = t] = [f EXCEPT !.dir_cache[v] = e]
  OBVIOUS
<1> HIDE DEF e
<1>4. LET g == [f EXCEPT !.dir_cache[v] = e] IN
           /\ SameInodes(f, g)
           /\ g.dir_cache[v] = e
           /\ \A i \in DSlots \ {v} : g.dir_cache[i] = f.dir_cache[i]
  BY <1>2, SetDirSlot
<1> QED
  BY <1>2, <1>3, <1>4

\* Remembering an entry writes it into one place of the slot at most.
LEMMA RememberFields ==
    ASSUME NEW f \in FsStruct, NEW v, NEW e \in Dentry, Remember(f, v, e) # f
    PROVE  LET g == Remember(f, v, e) IN
           /\ v \in DSlots
           /\ SameInodes(f, g)
           /\ g.dir_cache[v].dir = f.dir_cache[v].dir
           /\ \A p \in Positions : \/ g.dir_cache[v].entries[p] = f.dir_cache[v].entries[p]
                                   \/ g.dir_cache[v].entries[p] = e
           /\ \A i \in DSlots \ {v} : g.dir_cache[i] = f.dir_cache[i]
<1> DEFINE empty == Matches(f.dir_cache[v].entries, DirPageEntries, NoName)
           p0 == Lowest(empty)
           x == [f.dir_cache[v] EXCEPT !.entries[p0] = e]
           g == Remember(f, v, e)
<1>1. v \in DSlots /\ empty # {} /\ g = [f EXCEPT !.dir_cache[v].entries[p0] = e]
  BY DEF Remember
<1>2. p0 \in Positions
  <2>1. empty \subseteq Positions
    BY DEF Matches, Positions
  <2> QED
    BY <1>1, <2>1, Sizes, LowestIn
<1>3. g = [f EXCEPT !.dir_cache[v] = x]
  BY <1>1
<1> HIDE DEF p0, g
<1>4. f.dir_cache[v] \in DirEntry
  BY <1>1, Fields
<1>5. /\ x \in DirEntry /\ x.dir = f.dir_cache[v].dir
      /\ \A p \in Positions : x.entries[p] = IF p = p0 THEN e ELSE f.dir_cache[v].entries[p]
  BY <1>2, <1>4 DEF DirEntry, Page
<1> HIDE DEF x
<1>6. /\ SameInodes(f, g)
      /\ g.dir_cache[v] = x
      /\ \A i \in DSlots \ {v} : g.dir_cache[i] = f.dir_cache[i]
  <2>1. v \in DSlots /\ x \in DirEntry
    BY <1>1, <1>5
  <2>2. LET h == [f EXCEPT !.dir_cache[v] = x] IN
        /\ SameInodes(f, h)
        /\ h.dir_cache[v] = x
        /\ \A i \in DSlots \ {v} : h.dir_cache[i] = f.dir_cache[i]
    BY <2>1, SetDirSlot
  <2> QED
    BY <1>3, <2>2
<1> QED
  BY <1>1, <1>5, <1>6 DEF g

-----------------------------------------------------------------------------
(* Which parts of the invariant a change can disturb.                      *)

\* Reading, writing and copying files leave the directories alone.
FileStep(f, g) ==
    /\ g \in FsStruct
    /\ g.page = f.page /\ g.inode_bmap = f.inode_bmap /\ g.dir_cache = f.dir_cache
    /\ f.blk_bmap \subseteq g.blk_bmap
    /\ \A n \in InodeNums :
          /\ g.inode_tab[n].type = f.inode_tab[n].type
          /\ f.inode_tab[n].type = "dir" => g.inode_tab[n] = f.inode_tab[n]

\* A step that only changes files leaves all directories as they were.
LEMMA FileStepDirs ==
    ASSUME NEW f, NEW g, FileStep(f, g)
    PROVE  /\ DirsIn(g) = DirsIn(f)
           /\ \A d \in DirsIn(f) : /\ g.inode_tab[d] = f.inode_tab[d]
                                   /\ EntriesIn(g, d) = EntriesIn(f, d)
                                   /\ \A i : PlaceIn(g, g.inode_tab[d], i) = PlaceIn(f, f.inode_tab[d], i)
<1>1. DirsIn(g) = DirsIn(f)
  BY DEF FileStep, DirsIn
<1>2. ASSUME NEW d \in DirsIn(f)
      PROVE  g.inode_tab[d] = f.inode_tab[d] /\ g.page = f.page
  BY DEF FileStep, DirsIn
<1>3. ASSUME NEW d \in DirsIn(f), NEW i
      PROVE  PlaceIn(g, g.inode_tab[d], i) = PlaceIn(f, f.inode_tab[d], i)
  BY <1>2 DEF PlaceIn
<1>4. ASSUME NEW d \in DirsIn(f)
      PROVE  EntriesIn(g, d) = EntriesIn(f, d)
  BY <1>2, <1>3 DEF EntriesIn
<1> QED
  BY <1>1, <1>2, <1>3, <1>4

\* Such a step keeps all parts of the invariant that are about directories.
LEMMA FileStepKeeps ==
    ASSUME NEW f, NEW g, FsInv(f), FileStep(f, g)
    PROVE  /\ KindInv(g) /\ PagesInv(g) /\ TreeInv(g) /\ DirCacheInv(g)
           /\ \A e \in InodeEntry : SlotOK(f, e) => SlotOK(g, e)
<1>1. KindInv(g)
  <2>1. 0 \in InodeNums /\ Root \in InodeNums
    BY Sizes
  <2> QED
    BY <2>1 DEF FsInv, KindInv, FileStep
<1>2. PagesInv(g)
  <2>1. \A b \in Blocks \ g.blk_bmap : g.page[b] = ZeroPage
    BY DEF FsInv, PagesInv, FileStep
  <2>2. g.page = f.page
    BY DEF FileStep
  <2> QED
    BY <2>1, <2>2, FileStepDirs DEF FsInv, PagesInv
<1>3. TreeInv(g)
  <2>1. g.inode_bmap = f.inode_bmap
    BY DEF FileStep
  <2>2. /\ \A d \in DirsIn(g) : \A i \in 0 .. NumOf(g.inode_tab[d]) - 1 :
              /\ PlaceIn(g, g.inode_tab[d], i).name \in Names
              /\ PlaceIn(g, g.inode_tab[d], i).inode \in g.inode_bmap \ {0, Root}
    BY <2>1, FileStepDirs DEF FsInv, TreeInv
  <2>3. \A d, c \in DirsIn(g) :
          \A i \in 0 .. NumOf(g.inode_tab[d]) - 1, j \in 0 .. NumOf(g.inode_tab[c]) - 1 :
              PlaceIn(g, g.inode_tab[d], i).inode = PlaceIn(g, g.inode_tab[c], j).inode
                  => d = c /\ i = j
    BY FileStepDirs DEF FsInv, TreeInv
  <2>4. ASSUME NEW n \in g.inode_bmap \ {0, Root}
        PROVE  \E d \in DirsIn(g) : \E i \in 0 .. NumOf(g.inode_tab[d]) - 1 :
                   PlaceIn(g, g.inode_tab[d], i).inode = n
    <3>1. PICK d \in DirsIn(f) : \E i \in 0 .. NumOf(f.inode_tab[d]) - 1 :
              PlaceIn(f, f.inode_tab[d], i).inode = n
      BY <2>1 DEF FsInv, TreeInv
    <3>2. PICK i \in 0 .. NumOf(f.inode_tab[d]) - 1 : PlaceIn(f, f.inode_tab[d], i).inode = n
      BY <3>1
    <3>3. d \in DirsIn(g) /\ g.inode_tab[d] = f.inode_tab[d]
      BY FileStepDirs
    <3>4. PlaceIn(g, g.inode_tab[d], i).inode = n
      BY <3>2, FileStepDirs
    <3> QED
      BY <3>2, <3>3, <3>4
  <2> QED
    BY <2>2, <2>3, <2>4 DEF TreeInv
<1>4. DirCacheInv(g)
  <2>1. g.dir_cache = f.dir_cache
    BY DEF FileStep
  <2> QED
    BY <2>1, FileStepDirs DEF FsInv, DirCacheInv
<1>5. ASSUME NEW e \in InodeEntry, SlotOK(f, e)
      PROVE  SlotOK(g, e)
  <2>1. e.num \in InodeNums
    BY InodeEntryFields
  <2>2. e.num \in g.inode_bmap /\ e.inode.type = g.inode_tab[e.num].type
    BY <1>5, <2>1 DEF SlotOK, FileStep
  <2>3. e.inode.type = "dir" => g.inode_tab[e.num] = f.inode_tab[e.num]
    BY <1>5, <2>1 DEF SlotOK, FileStep
  <2> QED
    BY <1>5, <2>2, <2>3 DEF SlotOK
<1> QED
  BY <1>1, <1>2, <1>3, <1>4, <1>5

\* One copy of inode n may have become x, and others have no blocks.
LEMMA BlocksKept ==
    ASSUME NEW f, NEW g, BlocksInv(f), f.blk_bmap \subseteq g.blk_bmap,
           NEW n, NEW x,
           \A m \in InodeNums : \A y \in CopiesIn(g, m) :
               \/ y \in CopiesIn(f, m)
               \/ m = n /\ y = x /\ Covered(x) /\ Distinct(x) /\ BlocksOf(x) \subseteq g.blk_bmap
               \/ Covered(y) /\ Distinct(y) /\ BlocksOf(y) = {},
           \A m \in InodeNums \ {n} : \A y \in CopiesIn(f, m) : BlocksOf(x) \cap BlocksOf(y) = {}
    PROVE  BlocksInv(g)
<1>1. ASSUME NEW m \in InodeNums, NEW y \in CopiesIn(g, m)
      PROVE  Covered(y) /\ Distinct(y) /\ BlocksOf(y) \subseteq g.blk_bmap
  <2>1. CASE y \in CopiesIn(f, m)
    BY <2>1 DEF BlocksInv
  <2>2. CASE y \notin CopiesIn(f, m)
    BY <2>2
  <2> QED
    BY <2>1, <2>2
<1>2. ASSUME NEW m \in InodeNums, NEW k \in InodeNums, m # k,
             NEW y \in CopiesIn(g, m), NEW z \in CopiesIn(g, k)
      PROVE  BlocksOf(y) \cap BlocksOf(z) = {}
  <2>1. CASE y \in CopiesIn(f, m) /\ z \in CopiesIn(f, k)
    BY <1>2, <2>1 DEF BlocksInv
  <2>2. CASE BlocksOf(y) = {} \/ BlocksOf(z) = {}
    BY <2>2
  <2>3. CASE y \in CopiesIn(f, m) /\ k = n /\ z = x
    BY <1>2, <2>3
  <2>4. CASE m = n /\ y = x /\ z \in CopiesIn(f, k)
    BY <1>2, <2>4
  <2> QED
    BY <1>2, <2>1, <2>2, <2>3, <2>4
<1> QED
  BY <1>1, <1>2 DEF BlocksInv

\* Blocks stay unshared when copies of inodes only disappear.
LEMMA FewerCopiesKept ==
    ASSUME NEW f, NEW g, BlocksInv(f), f.blk_bmap \subseteq g.blk_bmap,
           \A m \in InodeNums : CopiesIn(g, m) \subseteq CopiesIn(f, m)
    PROVE  BlocksInv(g)
BY DEF BlocksInv

\* What is in use stays in use and keeps its type, and directories only grow.
Grows(f, g) ==
    \A n \in f.inode_bmap :
        /\ n \in g.inode_bmap
        /\ g.inode_tab[n].type = f.inode_tab[n].type
        /\ f.inode_tab[n].type = "dir" => g.inode_tab[n].size >= f.inode_tab[n].size

\* No entry on any page has a name and no inode.
Named(page) == \A i \in Positions : page[i].name # NoName => page[i].inode # 0
PagesNamed(f) == \A b \in Blocks : Named(f.page[b])

Reaches(f, g) == /\ FsInv(g) /\ Grows(f, g)
                 /\ PagesNamed(f) => PagesNamed(g)

\* Doing nothing leads on from a good state.
LEMMA ReachesItself ==
    ASSUME NEW f, FsInv(f)
    PROVE  Reaches(f, f)
<1>1. ASSUME NEW n \in f.inode_bmap
      PROVE  f.inode_tab[n].size \in Nat
  BY Fields, InodeFields DEF FsInv
<1> QED
  BY <1>1 DEF Reaches, Grows

\* Two steps that lead on lead on together.
LEMMA ReachesOn ==
    ASSUME NEW f, NEW g, NEW h, FsInv(f), Reaches(f, g), Reaches(g, h)
    PROVE  Reaches(f, h)
<1>1. ASSUME NEW n \in f.inode_bmap
      PROVE  /\ n \in h.inode_bmap
             /\ h.inode_tab[n].type = f.inode_tab[n].type
             /\ f.inode_tab[n].type = "dir" => h.inode_tab[n].size >= f.inode_tab[n].size
  <2>1. /\ n \in g.inode_bmap
        /\ g.inode_tab[n].type = f.inode_tab[n].type
        /\ f.inode_tab[n].type = "dir" => g.inode_tab[n].size >= f.inode_tab[n].size
    BY DEF Reaches, Grows
  <2>2. /\ n \in h.inode_bmap
        /\ h.inode_tab[n].type = g.inode_tab[n].type
        /\ g.inode_tab[n].type = "dir" => h.inode_tab[n].size >= g.inode_tab[n].size
    BY <2>1 DEF Reaches, Grows
  <2>3. n \in InodeNums /\ f \in FsStruct /\ g \in FsStruct /\ h \in FsStruct
    BY <2>1, <2>2, Fields DEF FsInv, Reaches
  <2>4. /\ f.inode_tab[n].size \in Nat
        /\ g.inode_tab[n].size \in Nat
        /\ h.inode_tab[n].size \in Nat
    BY <2>3, Fields, InodeFields
  <2> QED
    BY <2>1, <2>2, <2>4
<1> QED
  BY <1>1 DEF Reaches, Grows

\* A step that leaves the directories alone reaches a good structure when it
\* keeps the blocks apart and the slots of the inode cache right.
LEMMA FileStepReaches ==
    ASSUME NEW f, NEW g, FsInv(f), FileStep(f, g), BlocksInv(g),
           \A i \in ISlots : SlotOK(f, g.inode_cache[i])
    PROVE  Reaches(f, g)
<1>1. g \in FsStruct
  BY DEF FileStep
<1>2. CacheInv(g)
  <2>1. \A i \in ISlots : g.inode_cache[i] \in InodeEntry
    BY <1>1, Fields
  <2> QED
    BY <2>1, FileStepKeeps DEF CacheInv
<1>3. FsInv(g)
  BY <1>1, <1>2, FileStepKeeps DEF FsInv
<1>4. ASSUME NEW n \in f.inode_bmap
      PROVE  /\ n \in g.inode_bmap
             /\ g.inode_tab[n].type = f.inode_tab[n].type
             /\ f.inode_tab[n].type = "dir" => g.inode_tab[n].size >= f.inode_tab[n].size
  <2>1. n \in InodeNums /\ f.inode_tab[n].size \in Nat
    BY Fields, InodeFields DEF FsInv
  <2> QED
    BY <2>1 DEF FileStep
<1>5. g.page = f.page
  BY DEF FileStep
<1> QED
  BY <1>3, <1>4, <1>5 DEF Reaches, Grows, PagesNamed

\* A change of the directory cache.
LEMMA SameInodesReaches ==
    ASSUME NEW f, NEW g, FsInv(f), SameInodes(f, g), DirCacheInv(g)
    PROVE  Reaches(f, g)
<1>1. /\ g \in FsStruct /\ f \in FsStruct
      /\ g.inode_tab = f.inode_tab /\ g.inode_bmap = f.inode_bmap
      /\ g.blk_bmap = f.blk_bmap /\ g.page = f.page /\ g.inode_cache = f.inode_cache
  BY DEF SameInodes, FsInv
<1>2. BlocksInv(g)
  BY <1>1 DEF FsInv, BlocksInv, CopiesIn, CachedAt
<1>3. KindInv(g) /\ CacheInv(g)
  BY <1>1 DEF FsInv, KindInv, CacheInv, SlotOK
<1>4. PagesInv(g)
  BY <1>1 DEF FsInv, PagesInv, DirsIn
<1>5. TreeInv(g)
  <2>1. DirsIn(g) = DirsIn(f)
    BY <1>1 DEF DirsIn
  <2>2. \A x, i : PlaceIn(g, x, i) = PlaceIn(f, x, i)
    BY <1>1 DEF PlaceIn
  <2> QED
    BY <1>1, <2>1, <2>2 DEF FsInv, TreeInv
<1>6. \A n \in f.inode_bmap : f.inode_tab[n].size \in Nat
  BY <1>1, Fields, InodeFields
<1> QED
  BY <1>1, <1>2, <1>3, <1>4, <1>5, <1>6 DEF Reaches, Grows, FsInv, PagesNamed

-----------------------------------------------------------------------------
(* The inode cache: copies are moved between the table and the slots.      *)

\* A directory of the table is no older than itself.
LEMMA BehindItself ==
    ASSUME NEW f, FsInv(f), NEW d \in DirsIn(f)
    PROVE  Behind(f.inode_tab[d], f.inode_tab[d])
<1>1. f.inode_tab[d].size = NumOf(f.inode_tab[d]) * DentrySize
  BY DEF FsInv, PagesInv
<1>2. f.inode_tab[d].size \in Nat
  BY Fields, InodeFields DEF FsInv, DirsIn
<1> QED
  BY <1>1, <1>2 DEF Behind

\* Every copy of an inode is covered by blocks, of the type in the table, and old if it is of
\* a directory.
LEMMA CopyFacts ==
    ASSUME NEW f, FsInv(f), NEW n \in InodeNums, NEW x \in CopiesIn(f, n)
    PROVE  /\ x \in Inode
           /\ x.type = f.inode_tab[n].type
           /\ Covered(x) /\ Distinct(x) /\ BlocksOf(x) \subseteq f.blk_bmap
           /\ x.type = "dir" => n \in DirsIn(f) /\ Behind(x, f.inode_tab[n])
<1>1. Covered(x) /\ Distinct(x) /\ BlocksOf(x) \subseteq f.blk_bmap
  BY DEF FsInv, BlocksInv
<1>2. CASE x = f.inode_tab[n]
  <2>1. x \in Inode
    BY <1>2, Fields DEF FsInv
  <2>2. x.type = "dir" => n \in DirsIn(f)
    BY <1>2 DEF DirsIn
  <2> QED
    BY <1>1, <1>2, <2>1, <2>2, BehindItself
<1>3. CASE x # f.inode_tab[n]
  <2>1. PICK i \in CachedAt(f, n) : x = f.inode_cache[i].inode
    BY <1>3 DEF CopiesIn
  <2>2. i \in ISlots /\ f.inode_cache[i].num = n
    BY <2>1 DEF CachedAt
  <2>3. SlotOK(f, f.inode_cache[i])
    BY <2>2 DEF FsInv, CacheInv
  <2>4. x \in Inode
    BY <2>1, <2>2, Fields, InodeEntryFields DEF FsInv
  <2>5. x.type = f.inode_tab[n].type /\ (x.type = "dir" => Behind(x, f.inode_tab[n]))
    BY <2>1, <2>2, <2>3 DEF SlotOK
  <2>6. x.type = "dir" => n \in DirsIn(f)
    BY <2>5 DEF DirsIn
  <2> QED
    BY <1>1, <2>4, <2>5, <2>6
<1> QED
  BY <1>2, <1>3

\* No inode gets a copy that it did not have.
OnlyMoves(f, g) ==
    /\ FileStep(f, g)
    /\ g.blk_bmap = f.blk_bmap
    /\ \A m \in InodeNums : CopiesIn(g, m) \subseteq CopiesIn(f, m)

\* Moving copies between table and cache leads on.
LEMMA OnlyMovesReaches ==
    ASSUME NEW f, NEW g, FsInv(f), OnlyMoves(f, g),
           \A i \in ISlots : SlotOK(f, g.inode_cache[i])
    PROVE  Reaches(f, g)
<1>1. BlocksInv(f) /\ f.blk_bmap \subseteq g.blk_bmap
  BY DEF FsInv, OnlyMoves
<1>2. BlocksInv(g)
  BY <1>1, FewerCopiesKept DEF OnlyMoves
<1> QED
  BY <1>2, FileStepReaches DEF OnlyMoves

\* A change of the slots that keeps numbers and inodes, and marks only files.
LEMMA SlotsKept ==
    ASSUME NEW f, NEW g, FsInv(f), g \in FsStruct,
           g.inode_tab = f.inode_tab, g.inode_bmap = f.inode_bmap,
           g.blk_bmap = f.blk_bmap, g.page = f.page, g.dir_cache = f.dir_cache,
           \A i \in ISlots :
               /\ g.inode_cache[i].num = f.inode_cache[i].num
               /\ g.inode_cache[i].inode = f.inode_cache[i].inode
               /\ \/ g.inode_cache[i].dirty = f.inode_cache[i].dirty
                  \/ f.inode_cache[i].inode.type = "file"
    PROVE  OnlyMoves(f, g) /\ Reaches(f, g)
<1>1. FileStep(f, g)
  BY DEF FileStep
<1>2. \A m \in InodeNums : CopiesIn(g, m) = CopiesIn(f, m)
  <2>1. \A m \in InodeNums : CachedAt(g, m) = CachedAt(f, m)
    BY DEF CachedAt
  <2>2. \A m \in InodeNums : \A i \in CachedAt(f, m) : g.inode_cache[i].inode = f.inode_cache[i].inode
    BY DEF CachedAt
  <2> QED
    BY <2>1, <2>2 DEF CopiesIn
<1>3. OnlyMoves(f, g)
  BY <1>1, <1>2 DEF OnlyMoves
<1>4. ASSUME NEW i \in ISlots
      PROVE  SlotOK(f, g.inode_cache[i])
  <2>1. SlotOK(f, f.inode_cache[i])
    BY DEF FsInv, CacheInv
  <2> QED
    BY <2>1 DEF SlotOK
<1> QED
  BY <1>3, <1>4, OnlyMovesReaches

\* A touch leads on.
LEMMA TouchKeeps ==
    ASSUME NEW f, FsInv(f), NEW n \in InodeNums, NEW t \in Nat, CachedAt(f, n) # {}
    PROVE  LET g == Touch(f, n, t) IN
           /\ OnlyMoves(f, g) /\ Reaches(f, g)
           /\ \A i \in ISlots : g.inode_cache[i].num = f.inode_cache[i].num
<1> DEFINE g == Touch(f, n, t)
<1>1. f \in FsStruct
  BY DEF FsInv
<1>2. /\ g \in FsStruct
      /\ g.inode_tab = f.inode_tab /\ g.inode_bmap = f.inode_bmap
      /\ g.blk_bmap = f.blk_bmap /\ g.page = f.page /\ g.dir_cache = f.dir_cache
      /\ \A i \in ISlots : /\ g.inode_cache[i].num = f.inode_cache[i].num
                           /\ g.inode_cache[i].inode = f.inode_cache[i].inode
                           /\ g.inode_cache[i].dirty = f.inode_cache[i].dirty
  BY <1>1, TouchFields
<1> HIDE DEF g
<1>3. OnlyMoves(f, g) /\ Reaches(f, g)
  BY <1>2, SlotsKept
<1> QED
  BY <1>2, <1>3 DEF g

\* The write-back of the victim puts a copy of a file into the table.
LEMMA AddInodeKeeps ==
    ASSUME NEW f, FsInv(f), NEW n \in f.inode_bmap, NEW d \in BOOLEAN, NEW t \in Nat,
           d => f.inode_tab[n].type = "file"
    PROVE  LET g == AddInode(f, n, d, t) IN OnlyMoves(f, g) /\ Reaches(f, g)
<1> DEFINE g == AddInode(f, n, d, t)
<1>1. f \in FsStruct /\ n \in InodeNums
  BY Fields DEF FsInv
<1>2. /\ g \in FsStruct
      /\ g.inode_bmap = f.inode_bmap /\ g.blk_bmap = f.blk_bmap
      /\ g.page = f.page /\ g.dir_cache = f.dir_cache
      /\ \E v \in ISlots : AddedAt(f, g, n, d, v)
  BY <1>1, AddInodeFields
<1> HIDE DEF g
<1>3. PICK v \in ISlots : AddedAt(f, g, n, d, v)
  BY <1>2
<1> DEFINE old == f.inode_cache[v]
<1>4. SlotOK(f, old) /\ old.num \in InodeNums
  BY <1>1, Fields, InodeEntryFields DEF FsInv, CacheInv
<1>5. f.inode_tab \in [InodeNums -> Inode]
  BY <1>1, Fields
<1>6. ASSUME NEW m \in InodeNums
      PROVE  \/ g.inode_tab[m] = f.inode_tab[m]
             \/ old.dirty /\ m = old.num /\ g.inode_tab[m] = old.inode
  BY <1>3, <1>4, <1>5 DEF AddedAt
<1> HIDE DEF old
<1>7. ASSUME NEW m \in InodeNums
      PROVE  /\ g.inode_tab[m].type = f.inode_tab[m].type
             /\ f.inode_tab[m].type = "dir" => g.inode_tab[m] = f.inode_tab[m]
  BY <1>4, <1>6 DEF SlotOK
<1>8. FileStep(f, g)
  BY <1>2, <1>7 DEF FileStep
<1>9. ASSUME NEW m \in InodeNums, NEW y \in CopiesIn(g, m)
      PROVE  y \in CopiesIn(f, m)
  <2>1. g.inode_tab[m] \in CopiesIn(f, m)
    <3>1. CASE g.inode_tab[m] = f.inode_tab[m]
      BY <3>1 DEF CopiesIn
    <3>2. CASE m = old.num /\ g.inode_tab[m] = old.inode
      <4>1. v \in CachedAt(f, m) /\ g.inode_tab[m] = f.inode_cache[v].inode
        BY <3>2 DEF old, CachedAt
      <4> QED
        BY <4>1 DEF CopiesIn
    <3> QED
      BY <1>6, <3>1, <3>2
  <2>2. CASE y = g.inode_tab[m]
    BY <2>1, <2>2
  <2>3. CASE y # g.inode_tab[m]
    <3>1. PICK i \in CachedAt(g, m) : y = g.inode_cache[i].inode
      BY <2>3 DEF CopiesIn
    <3>2. i \in ISlots /\ g.inode_cache[i].num = m
      BY <3>1 DEF CachedAt
    <3>3. i # v
      BY <1>3, <2>3, <3>1, <3>2 DEF AddedAt
    <3>4. i \in CachedAt(f, m) /\ y = f.inode_cache[i].inode
      BY <1>3, <3>1, <3>2, <3>3 DEF AddedAt, CachedAt
    <3> QED
      BY <3>4 DEF CopiesIn
  <2> QED
    BY <2>2, <2>3
<1>10. OnlyMoves(f, g)
  BY <1>2, <1>8, <1>9 DEF OnlyMoves
<1>11. ASSUME NEW i \in ISlots
       PROVE  SlotOK(f, g.inode_cache[i])
  <2>1. CASE i # v
    BY <1>3, <2>1 DEF AddedAt, FsInv, CacheInv
  <2>2. CASE i = v
    <3>1. /\ g.inode_cache[i].num = n
          /\ g.inode_cache[i].inode = g.inode_tab[n]
          /\ g.inode_cache[i].dirty = d
      BY <1>3, <2>2 DEF AddedAt
    <3>2. g.inode_tab[n].type = f.inode_tab[n].type
      BY <1>1, <1>7
    <3>3. f.inode_tab[n].type = "dir" => Behind(g.inode_tab[n], f.inode_tab[n])
      BY <1>1, <1>7, BehindItself DEF DirsIn
    <3> QED
      BY <3>1, <3>2, <3>3 DEF SlotOK
  <2> QED
    BY <2>1, <2>2
<1>12. OnlyMoves(f, g) /\ Reaches(f, g)
  BY <1>10, <1>11, OnlyMovesReaches
<1> QED
  BY <1>12 DEF g

\* Where a pointer to inode n may lead.
PointsTo(f, at, n) ==
    at \in ISlots \cup {TableRef} /\ (at # TableRef => f.inode_cache[at].num = n)

\* A pointer to an inode leads to a copy of it.
LEMMA DerefIn ==
    ASSUME NEW f, FsInv(f), NEW n \in InodeNums, NEW at, PointsTo(f, at, n)
    PROVE  Deref(f, at, n) \in CopiesIn(f, n) /\ Deref(f, at, n) \in Inode
<1>1. Deref(f, at, n) \in CopiesIn(f, n)
  <2>1. CASE at = TableRef
    BY <2>1 DEF Deref, CopiesIn
  <2>2. CASE at # TableRef
    <3>1. at \in CachedAt(f, n)
      BY <2>2 DEF PointsTo, CachedAt
    <3> QED
      BY <2>2, <3>1 DEF Deref, CopiesIn
  <2> QED
    BY <2>1, <2>2
<1> QED
  BY <1>1, CopyFacts

\* The access to an inode at the beginning of every handler.
LEMMA AccessKeeps ==
    ASSUME NEW f, FsInv(f), NEW n \in InodeNums, NEW t \in Nat
    PROVE  LET acc == Access(f, n, t) IN
           /\ OnlyMoves(f, acc.fs) /\ Reaches(f, acc.fs)
           /\ PointsTo(acc.fs, acc.at, n)
           /\ acc.ok \in BOOLEAN
           /\ acc.ok <=> n \in f.inode_bmap
<1>1. CASE CachedAt(f, n) # {}
  <2> DEFINE v == Lowest(CachedAt(f, n))
             g == Touch(f, n, t)
  <2>1. f \in FsStruct
    BY DEF FsInv
  <2>2. v \in ISlots /\ f.inode_cache[v].num = n
    BY <1>1, <2>1, CachedIn
  <2>3. SlotOK(f, f.inode_cache[v])
    BY <2>2 DEF FsInv, CacheInv
  <2>4. n \in f.inode_bmap
    BY <2>2, <2>3 DEF SlotOK
  <2>5. /\ OnlyMoves(f, g) /\ Reaches(f, g)
        /\ \A i \in ISlots : g.inode_cache[i].num = f.inode_cache[i].num
    BY <1>1, TouchKeeps
  <2>6. Access(f, n, t) = [ok |-> TRUE, fs |-> g, at |-> v]
    BY <1>1 DEF Access
  <2> HIDE DEF g, v
  <2>7. PointsTo(g, v, n)
    BY <2>2, <2>5 DEF PointsTo
  <2> QED
    BY <2>4, <2>5, <2>6, <2>7
<1>2. CASE CachedAt(f, n) = {} /\ n \in f.inode_bmap
  <2> DEFINE g == AddInode(f, n, FALSE, t)
  <2>1. OnlyMoves(f, g) /\ Reaches(f, g)
    BY <1>2, AddInodeKeeps
  <2>2. Access(f, n, t) = [ok |-> TRUE, fs |-> g, at |-> TableRef]
    BY <1>2 DEF Access
  <2> HIDE DEF g
  <2>3. PointsTo(g, TableRef, n)
    BY DEF PointsTo
  <2> QED
    BY <1>2, <2>1, <2>2, <2>3
<1>3. CASE CachedAt(f, n) = {} /\ n \notin f.inode_bmap
  <2>1. Access(f, n, t) = [ok |-> FALSE, fs |-> f, at |-> TableRef]
    BY <1>3 DEF Access
  <2>2. PointsTo(f, TableRef, n)
    BY DEF PointsTo
  <2>3. OnlyMoves(f, f)
    BY DEF OnlyMoves, FileStep, FsInv
  <2> QED
    BY <1>3, <2>1, <2>2, <2>3, ReachesItself
<1> QED
  BY <1>1, <1>2, <1>3

-----------------------------------------------------------------------------
(* Blocks for files.                                                       *)

\* No change is a step that only changes files.
LEMMA FileStepItself ==
    ASSUME NEW f \in FsStruct
    PROVE  FileStep(f, f)
BY DEF FileStep

\* Two steps that only change files are one.
LEMMA FileStepOn ==
    ASSUME NEW f, NEW g, NEW h, FileStep(f, g), FileStep(g, h)
    PROVE  FileStep(f, h)
BY DEF FileStep

\* More blocks are marked as used, and nothing else.
MoreBlocks(f, h) ==
    /\ h \in FsStruct
    /\ h.inode_tab = f.inode_tab /\ h.inode_bmap = f.inode_bmap /\ h.page = f.page
    /\ h.inode_cache = f.inode_cache /\ h.dir_cache = f.dir_cache
    /\ f.blk_bmap \subseteq h.blk_bmap

\* A copy of a file is replaced by one that has blocks of its own and new ones.
LEMMA StoreKeeps ==
    ASSUME NEW f, FsInv(f), NEW h, MoreBlocks(f, h), NEW n \in InodeNums,
           f.inode_tab[n].type = "file", NEW at, PointsTo(f, at, n),
           NEW x \in Inode, x.type = "file", Covered(x), Distinct(x),
           BlocksOf(x) \subseteq h.blk_bmap,
           \A b \in BlocksOf(x) : b \in BlocksOf(Deref(f, at, n)) \/ b \notin f.blk_bmap
    PROVE  LET g == Store(h, at, n, x) IN
           /\ FileStep(f, g) /\ Reaches(f, g)
           /\ g.blk_bmap = h.blk_bmap
           /\ PointsTo(g, at, n)
           /\ Deref(g, at, n) = x
<1> DEFINE g == Store(h, at, n, x)
           old == Deref(f, at, n)
<1>1. h \in FsStruct /\ at \in ISlots \cup {TableRef}
  BY DEF MoreBlocks, PointsTo
<1>2. /\ g \in FsStruct
      /\ g.inode_bmap = h.inode_bmap /\ g.blk_bmap = h.blk_bmap
      /\ g.page = h.page /\ g.dir_cache = h.dir_cache
      /\ at = TableRef => /\ g.inode_tab = [h.inode_tab EXCEPT ![n] = x]
                          /\ g.inode_cache = h.inode_cache
      /\ at # TableRef => /\ g.inode_tab = h.inode_tab
                          /\ g.inode_cache[at].num = h.inode_cache[at].num
                          /\ g.inode_cache[at].dirty = h.inode_cache[at].dirty
                          /\ g.inode_cache[at].inode = x
                          /\ \A i \in ISlots \ {at} : g.inode_cache[i] = h.inode_cache[i]
      /\ Deref(g, at, n) = x
  BY <1>1, StoreFields
<1> HIDE DEF g
<1>3. /\ h.inode_tab = f.inode_tab /\ h.inode_bmap = f.inode_bmap /\ h.page = f.page
      /\ h.inode_cache = f.inode_cache /\ h.dir_cache = f.dir_cache
      /\ f.blk_bmap \subseteq h.blk_bmap
  BY DEF MoreBlocks
<1>4. f.inode_tab \in [InodeNums -> Inode]
  BY Fields DEF FsInv
<1>5. ASSUME NEW m \in InodeNums
      PROVE  g.inode_tab[m] = IF at = TableRef /\ m = n THEN x ELSE f.inode_tab[m]
  BY <1>1, <1>2, <1>3, <1>4
<1>6. ASSUME NEW i \in ISlots
      PROVE  /\ i # at => g.inode_cache[i] = f.inode_cache[i]
             /\ i = at => /\ g.inode_cache[i].num = n
                          /\ g.inode_cache[i].dirty = f.inode_cache[i].dirty
                          /\ g.inode_cache[i].inode = x
  <2>1. TableRef \notin ISlots
    BY Sizes DEF TableRef
  <2> QED
    BY <1>2, <1>3, <2>1 DEF PointsTo
<1>7. FileStep(f, g)
  BY <1>2, <1>3, <1>5 DEF FileStep
<1>8. ASSUME NEW m \in InodeNums, NEW y \in CopiesIn(g, m)
      PROVE  y \in CopiesIn(f, m) \/ (m = n /\ y = x)
  <2>1. CASE y = g.inode_tab[m]
    <3>1. f.inode_tab[m] \in CopiesIn(f, m)
      BY DEF CopiesIn
    <3> QED
      BY <1>5, <2>1, <3>1
  <2>2. CASE y # g.inode_tab[m]
    <3>1. PICK i \in CachedAt(g, m) : y = g.inode_cache[i].inode
      BY <2>2 DEF CopiesIn
    <3>2. i \in ISlots /\ g.inode_cache[i].num = m
      BY <3>1 DEF CachedAt
    <3>3. CASE i = at
      BY <1>6, <3>1, <3>2, <3>3
    <3>4. CASE i # at
      <4>1. i \in CachedAt(f, m) /\ y = f.inode_cache[i].inode
        BY <1>6, <3>1, <3>2, <3>4 DEF CachedAt
      <4>2. y \in CopiesIn(f, m)
        BY <4>1 DEF CopiesIn
      <4> QED
        BY <4>2
    <3> QED
      BY <3>3, <3>4
  <2> QED
    BY <2>1, <2>2
<1>9. ASSUME NEW m \in InodeNums \ {n}, NEW y \in CopiesIn(f, m)
      PROVE  BlocksOf(x) \cap BlocksOf(y) = {}
  <2>1. BlocksOf(y) \subseteq f.blk_bmap
    BY CopyFacts
  <2>2. old \in CopiesIn(f, n)
    BY DerefIn
  <2>3. BlocksOf(old) \cap BlocksOf(y) = {}
    BY <2>2 DEF FsInv, BlocksInv
  <2> QED
    BY <2>1, <2>3
<1>10. BlocksInv(g)
  <2>1. BlocksInv(f) /\ f.blk_bmap \subseteq g.blk_bmap
    BY <1>2, <1>3 DEF FsInv
  <2>2. \A m \in InodeNums : \A y \in CopiesIn(g, m) :
            \/ y \in CopiesIn(f, m)
            \/ m = n /\ y = x /\ Covered(x) /\ Distinct(x) /\ BlocksOf(x) \subseteq g.blk_bmap
    BY <1>2, <1>8
  <2> QED
    BY <1>9, <2>1, <2>2, BlocksKept
<1>11. ASSUME NEW i \in ISlots
       PROVE  SlotOK(f, g.inode_cache[i])
  <2>1. SlotOK(f, f.inode_cache[i])
    BY DEF FsInv, CacheInv
  <2>2. CASE i # at
    BY <1>6, <2>1, <2>2
  <2>3. CASE i = at
    <3>1. f.inode_cache[i].num = n
      BY <2>3, Sizes DEF PointsTo, TableRef
    <3> QED
      BY <1>6, <2>1, <2>3, <3>1 DEF SlotOK
  <2> QED
    BY <2>2, <2>3
<1>12. Reaches(f, g)
  BY <1>7, <1>10, <1>11, FileStepReaches
<1>13. PointsTo(g, at, n)
  BY <1>6 DEF PointsTo
<1> QED
  BY <1>2, <1>7, <1>12, <1>13 DEF g

\* Of all inodes and copies only the one of inode n in the table differs.
OnlyTable(f, g, n) ==
    g.inode_cache = f.inode_cache /\ \A m \in InodeNums \ {n} : g.inode_tab[m] = f.inode_tab[m]

\* The inode behind a pointer gets a block that was free.
LEMMA AllocateOneKeeps ==
    ASSUME NEW f, FsInv(f), NEW n \in InodeNums, f.inode_tab[n].type = "file",
           NEW at, PointsTo(f, at, n), FreeBlocks(f) # {}, NEW i \in Indices
    PROVE  LET g == AllocateOne(f, at, n, i)
               b == Lowest(FreeBlocks(f))
           IN
           /\ FileStep(f, g) /\ Reaches(f, g)
           /\ PointsTo(g, at, n)
           /\ b \in Blocks \ f.blk_bmap
           /\ at = TableRef => OnlyTable(f, g, n)
           /\ Deref(g, at, n).size = Deref(f, at, n).size
           /\ \A j \in Indices :
                 Deref(g, at, n).blocks[j] = IF j = i THEN b ELSE Deref(f, at, n).blocks[j]
<1> DEFINE b == Lowest(FreeBlocks(f))
           old == Deref(f, at, n)
           x == [old EXCEPT !.blocks[i] = b]
           B == f.blk_bmap \cup {b}
           h == [f EXCEPT !.blk_bmap = B]
           g == AllocateOne(f, at, n, i)
<1>1. b \in Blocks \ f.blk_bmap
  <2>1. FreeBlocks(f) \subseteq Nat
    BY Sizes DEF FreeBlocks
  <2>2. Lowest(FreeBlocks(f)) \in FreeBlocks(f)
    BY <2>1, LowestIn
  <2> QED
    BY <2>2 DEF FreeBlocks
<1>2. f \in FsStruct /\ f.blk_bmap \subseteq Blocks
  BY Fields DEF FsInv
<1>3. old \in CopiesIn(f, n) /\ old \in Inode
  BY DerefIn
<1>4. old.type = "file" /\ Covered(old) /\ Distinct(old) /\ BlocksOf(old) \subseteq f.blk_bmap
  BY <1>3, CopyFacts
<1>5. Deref(h, at, n) = old
  <2>1. h.inode_tab = f.inode_tab /\ h.inode_cache = f.inode_cache
    BY <1>2 DEF FsStruct
  <2> QED
    BY <2>1 DEF Deref
<1>6. g = Store(h, at, n, x)
  BY DEF AllocateOne
<1> HIDE DEF b, old, g
<1>7. B \subseteq Blocks
  BY <1>1, <1>2
<1> HIDE DEF B
<1>8. MoreBlocks(f, h) /\ h.blk_bmap = B
  BY <1>2, <1>7 DEF FsStruct, MoreBlocks, B
<1> HIDE DEF h
<1>9. /\ x \in Inode /\ x.type = "file" /\ x.size = old.size
      /\ \A j \in Indices : x.blocks[j] = IF j = i THEN b ELSE old.blocks[j]
  BY <1>1, <1>3, <1>4 DEF Inode
<1> HIDE DEF x
<1>10. b # 0
  BY <1>1, Sizes
<1>11. Covered(x)
  BY <1>4, <1>9, <1>10 DEF Covered
<1>12. \A j \in Indices : old.blocks[j] # 0 => old.blocks[j] # b
  BY <1>1, <1>4 DEF BlocksOf
<1>13. Distinct(x)
  BY <1>4, <1>9, <1>12 DEF Distinct
<1>14. BlocksOf(x) \subseteq BlocksOf(old) \cup {b}
  BY <1>9 DEF BlocksOf
<1>15. BlocksOf(x) \subseteq h.blk_bmap
  BY <1>4, <1>8, <1>14 DEF B
<1>16. \A c \in BlocksOf(x) : c \in BlocksOf(Deref(f, at, n)) \/ c \notin f.blk_bmap
  BY <1>1, <1>14 DEF old
<1>17. LET g1 == Store(h, at, n, x) IN
       /\ FileStep(f, g1) /\ Reaches(f, g1)
       /\ PointsTo(g1, at, n)
       /\ Deref(g1, at, n) = x
  BY <1>8, <1>9, <1>11, <1>13, <1>15, <1>16, StoreKeeps
<1>18. ASSUME at = TableRef
       PROVE  OnlyTable(f, g, n)
  <2>1. g = [h EXCEPT !.inode_tab[n] = x]
    BY <1>6, <1>18 DEF Store
  <2>2. h \in FsStruct /\ h.inode_tab = f.inode_tab /\ h.inode_cache = f.inode_cache
    BY <1>8 DEF MoreBlocks
  <2>3. g.inode_cache = h.inode_cache /\ g.inode_tab = [h.inode_tab EXCEPT ![n] = x]
    BY <2>1, <2>2 DEF FsStruct
  <2>4. f.inode_tab \in [InodeNums -> Inode]
    BY <1>2, Fields
  <2> QED
    BY <2>2, <2>3, <2>4 DEF OnlyTable
<1> QED
  BY <1>1, <1>6, <1>9, <1>17, <1>18 DEF b, old, g

\* One round of the allocation loop.
AllocNext(before, at, n, i) ==
    IF ~before.ok \/ FreeBlocks(before.fs) = {} THEN [before EXCEPT !.ok = FALSE]
    ELSE [ok |-> TRUE, fs |-> AllocateOne(before.fs, at, n, i)]

\* After k rounds the inode has blocks first .. first+k-1 as well, unless the
\* disk is full, and they were free when the loop began.
Allocated(f0, at, n, first, k, s) ==
    LET old == Deref(f0, at, n)
        new == Deref(s.fs, at, n)
    IN /\ FileStep(f0, s.fs) /\ Reaches(f0, s.fs)
       /\ PointsTo(s.fs, at, n)
       /\ at = TableRef => OnlyTable(f0, s.fs, n)
       /\ new.size = old.size
       /\ \A b \in BlocksOf(new) : b \in BlocksOf(old) \/ b \notin f0.blk_bmap
       /\ s.ok => \A j \in Indices : \/ old.blocks[j] # 0
                                     \/ first <= j /\ j < first + k
                                     => new.blocks[j] # 0

\* A round of the allocation loop leads on.
LEMMA AllocNextKeeps ==
    ASSUME NEW f0, FsInv(f0), NEW n \in InodeNums, f0.inode_tab[n].type = "file",
           NEW at, PointsTo(f0, at, n), NEW first \in Nat, NEW k \in Nat, first + k \in Indices,
           NEW s \in [ok : BOOLEAN, fs : FsStruct], Allocated(f0, at, n, first, k, s)
    PROVE  LET r == AllocNext(s, at, n, first + k) IN
           r \in [ok : BOOLEAN, fs : FsStruct] /\ Allocated(f0, at, n, first, k + 1, r)
<1> DEFINE i == first + k
           r == AllocNext(s, at, n, i)
           old == Deref(f0, at, n)
           new == Deref(s.fs, at, n)
<1>1. /\ FileStep(f0, s.fs) /\ Reaches(f0, s.fs)
      /\ PointsTo(s.fs, at, n)
      /\ at = TableRef => OnlyTable(f0, s.fs, n)
      /\ new.size = old.size
      /\ \A b \in BlocksOf(new) : b \in BlocksOf(old) \/ b \notin f0.blk_bmap
      /\ s.ok => \A j \in Indices : old.blocks[j] # 0 \/ (first <= j /\ j < first + k) => new.blocks[j] # 0
  BY DEF Allocated
<1>2. CASE ~s.ok \/ FreeBlocks(s.fs) = {}
  <2>1. r = [s EXCEPT !.ok = FALSE]
    BY <1>2 DEF AllocNext
  <2>2. r \in [ok : BOOLEAN, fs : FsStruct] /\ r.ok = FALSE /\ r.fs = s.fs
    BY <2>1
  <2> HIDE DEF r
  <2>3. Allocated(f0, at, n, first, k + 1, r)
    BY <1>1, <2>2 DEF Allocated
  <2> QED
    BY <2>2, <2>3 DEF r
<1>3. CASE s.ok /\ FreeBlocks(s.fs) # {}
  <2> DEFINE g == AllocateOne(s.fs, at, n, i)
             b0 == Lowest(FreeBlocks(s.fs))
             nxt == Deref(g, at, n)
  <2>1. FsInv(s.fs) /\ s.fs.inode_tab[n].type = "file" /\ i \in Indices
    BY <1>1 DEF Reaches, FileStep
  <2>2. LET h == AllocateOne(s.fs, at, n, i)
            b == Lowest(FreeBlocks(s.fs))
        IN
        /\ FileStep(s.fs, h) /\ Reaches(s.fs, h)
        /\ PointsTo(h, at, n)
        /\ b \in Blocks \ s.fs.blk_bmap
        /\ at = TableRef => OnlyTable(s.fs, h, n)
        /\ Deref(h, at, n).size = Deref(s.fs, at, n).size
        /\ \A j \in Indices :
              Deref(h, at, n).blocks[j] = IF j = i THEN b ELSE Deref(s.fs, at, n).blocks[j]
    BY <1>1, <1>3, <2>1, AllocateOneKeeps
  <2>3. r = [ok |-> TRUE, fs |-> g]
    BY <1>3 DEF AllocNext
  <2>4. /\ FileStep(s.fs, g) /\ Reaches(s.fs, g)
        /\ PointsTo(g, at, n)
        /\ b0 \in Blocks \ s.fs.blk_bmap
        /\ at = TableRef => OnlyTable(s.fs, g, n)
        /\ nxt.size = new.size
        /\ \A j \in Indices : nxt.blocks[j] = IF j = i THEN b0 ELSE new.blocks[j]
    BY <2>2
  <2> HIDE DEF g, r, b0
  <2>5. r \in [ok : BOOLEAN, fs : FsStruct] /\ r.ok = TRUE /\ r.fs = g
    BY <2>3, <2>4 DEF FileStep
  <2>6. FileStep(f0, g) /\ Reaches(f0, g)
    BY <1>1, <2>4, FileStepOn, ReachesOn
  <2> HIDE DEF nxt, new, old
  <2>7. nxt.size = old.size
    BY <1>1, <2>4
  <2>8. b0 # 0 /\ b0 \notin f0.blk_bmap
    BY <1>1, <2>4, Sizes DEF FileStep
  <2>9. \A b \in BlocksOf(nxt) : b \in BlocksOf(new) \/ b = b0
    BY <2>4 DEF BlocksOf
  <2>10. \A b \in BlocksOf(nxt) : b \in BlocksOf(old) \/ b \notin f0.blk_bmap
    BY <1>1, <2>8, <2>9
  <2>11. ASSUME NEW j \in Indices, old.blocks[j] # 0 \/ (first <= j /\ j < first + (k + 1))
         PROVE  nxt.blocks[j] # 0
    <3>1. CASE j = i
      BY <2>4, <2>8, <3>1
    <3>2. CASE j # i
      <4>1. j \in Nat
        BY Sizes
      <4>2. old.blocks[j] # 0 \/ (first <= j /\ j < first + k)
        BY <2>11, <3>2, <4>1
      <4> QED
        BY <1>1, <1>3, <2>4, <3>2, <4>2
    <3> QED
      BY <3>1, <3>2
  <2>12. at = TableRef => OnlyTable(f0, g, n)
    BY <1>1, <2>4 DEF OnlyTable
  <2>13. Allocated(f0, at, n, first, k + 1, r)
    BY <2>4, <2>5, <2>6, <2>7, <2>10, <2>11, <2>12 DEF Allocated, nxt, old
  <2> QED
    BY <2>5, <2>13 DEF r
<1> QED
  BY <1>2, <1>3

\* The allocation loop leads on, and gives the inode the blocks it asked for
\* or reports that it could not.
LEMMA AllocateKeeps ==
    ASSUME NEW f0, FsInv(f0), NEW n \in InodeNums, f0.inode_tab[n].type = "file",
           NEW at, PointsTo(f0, at, n), NEW first \in Nat, NEW count \in Nat,
           first + count <= InodeNumBlks
    PROVE  LET s == Allocate(f0, at, n, first, count) IN
           s \in [ok : BOOLEAN, fs : FsStruct] /\ Allocated(f0, at, n, first, count, s)
<1> DEFINE S == [ok : BOOLEAN, fs : FsStruct]
           Good == {p \in (0 .. count) \X S : Allocated(f0, at, n, first, p[1], p[2])}
           s0 == [ok |-> TRUE, fs |-> f0]
           step == [p \in Good |-> AllocNext(p[2], at, n, first + p[1])]
           alloc == CHOOSE alloc : alloc = [k \in 0 .. count |->
                        IF k = 0 THEN s0 ELSE AllocNext(alloc[k - 1], at, n, first + k - 1)]
<1>1. <<0, s0>> \in Good
  <2>1. s0 \in S /\ s0.fs = f0 /\ s0.ok
    BY DEF FsInv
  <2>2. FileStep(f0, f0) /\ Reaches(f0, f0)
    BY FileStepItself, ReachesItself DEF FsInv
  <2>3. \A j \in Indices : ~(first <= j /\ j < first + 0)
    BY Sizes
  <2> HIDE DEF s0
  <2>4. Allocated(f0, at, n, first, 0, s0)
    BY <2>1, <2>2, <2>3 DEF Allocated, OnlyTable
  <2> QED
    BY <2>1, <2>4
<1>2. ASSUME NEW k \in 0 .. count - 1, NEW s, <<k, s>> \in Good
      PROVE  /\ <<k + 1, AllocNext(s, at, n, first + k)>> \in Good
             /\ step[<<k, s>>] = AllocNext(s, at, n, first + k)
  <2>1. s \in S /\ Allocated(f0, at, n, first, k, s)
    BY <1>2
  <2>2. k \in Nat /\ first + k \in Indices /\ k + 1 \in 0 .. count
    BY InodesAssumption DEF Indices
  <2>3. AllocNext(s, at, n, first + k) \in S
        /\ Allocated(f0, at, n, first, k + 1, AllocNext(s, at, n, first + k))
    BY <2>1, <2>2, AllocNextKeeps
  <2> QED
    BY <1>2, <2>2, <2>3
<1> HIDE DEF Good, step, s0
<1>3. RoundsKeep(count, Good, step)
  BY <1>2 DEF RoundsKeep
<1>4. PICK g : RunsLoop(g, count, Good, s0, step)
  BY <1>1, <1>3, LoopRuns
<1>5. ASSUME NEW k \in 1 .. count
      PROVE  k - 1 \in 0 .. count - 1 /\ first + (k - 1) = first + k - 1 /\ (k - 1) + 1 = k
  OBVIOUS
<1>6. ASSUME NEW k \in 1 .. count
      PROVE  g[k] = AllocNext(g[k - 1], at, n, first + k - 1)
  BY <1>2, <1>4, <1>5 DEF RunsLoop
<1>7. g = [k \in 0 .. count |-> IF k = 0 THEN s0 ELSE AllocNext(g[k - 1], at, n, first + k - 1)]
  <2>1. \A k \in 0 .. count : k = 0 \/ k \in 1 .. count
    OBVIOUS
  <2>2. \A k \in 0 .. count :
           g[k] = IF k = 0 THEN s0 ELSE AllocNext(g[k - 1], at, n, first + k - 1)
    BY <1>4, <1>6, <2>1 DEF RunsLoop
  <2> QED
    BY <1>4, <2>2 DEF RunsLoop
<1>8. Allocate(f0, at, n, first, count) = alloc[count]
  BY DEF Allocate, AllocNext, s0
<1>9. alloc = [k \in 0 .. count |-> IF k = 0 THEN s0 ELSE AllocNext(alloc[k - 1], at, n, first + k - 1)]
  BY <1>7
<1> HIDE DEF alloc
<1>10. <<0, alloc[0]>> \in Good
  BY <1>1, <1>9
<1>11. ASSUME NEW k \in 1 .. count, <<k - 1, alloc[k - 1]>> \in Good
       PROVE  <<k, alloc[k]>> \in Good
  <2>1. k \in 0 .. count /\ k # 0
    OBVIOUS
  <2>2. alloc[k] = AllocNext(alloc[k - 1], at, n, first + k - 1)
    BY <1>9, <2>1
  <2> QED
    BY <1>2, <1>5, <1>11, <2>2
<1>12. <<count, alloc[count]>> \in Good
  BY <1>10, <1>11, LoopKeeps
<1>13. alloc[count] \in S /\ Allocated(f0, at, n, first, count, alloc[count])
  BY <1>12 DEF Good
<1> QED
  BY <1>8, <1>13

-----------------------------------------------------------------------------
(* Writing, from the reservation of blocks to the new size.                *)

\* An inode with a type is in use.
LEMMA InUse ==
    ASSUME NEW f, FsInv(f), NEW n \in InodeNums, f.inode_tab[n].type # "none"
    PROVE  n \in f.inode_bmap /\ n # 0
BY DEF FsInv, KindInv

\* Marking the copy of a file as dirty leads on.
LEMMA MarkDirtyKeeps ==
    ASSUME NEW f, FsInv(f), NEW n \in InodeNums, f.inode_tab[n].type = "file",
           NEW at, PointsTo(f, at, n)
    PROVE  LET g == MarkDirty(f, at) IN
           /\ OnlyMoves(f, g) /\ Reaches(f, g)
           /\ PointsTo(g, at, n)
           /\ Deref(g, at, n) = Deref(f, at, n)
<1> DEFINE g == MarkDirty(f, at)
<1>1. f \in FsStruct /\ at \in ISlots \cup {TableRef}
  BY DEF FsInv, PointsTo
<1>2. /\ g \in FsStruct
      /\ g.inode_tab = f.inode_tab /\ g.inode_bmap = f.inode_bmap
      /\ g.blk_bmap = f.blk_bmap /\ g.page = f.page /\ g.dir_cache = f.dir_cache
      /\ \A i \in ISlots : /\ g.inode_cache[i].num = f.inode_cache[i].num
                           /\ g.inode_cache[i].inode = f.inode_cache[i].inode
                           /\ i # at => g.inode_cache[i].dirty = f.inode_cache[i].dirty
  BY <1>1, MarkDirtyFields
<1> HIDE DEF g
<1>3. ASSUME NEW i \in ISlots, i = at
      PROVE  f.inode_cache[i].inode.type = "file"
  <2>1. f.inode_cache[i].num = n
    BY <1>3, Sizes DEF PointsTo, TableRef
  <2>2. SlotOK(f, f.inode_cache[i])
    BY DEF FsInv, CacheInv
  <2> QED
    BY <2>1, <2>2 DEF SlotOK
<1>4. OnlyMoves(f, g) /\ Reaches(f, g)
  <2>1. \A i \in ISlots :
               /\ g.inode_cache[i].num = f.inode_cache[i].num
               /\ g.inode_cache[i].inode = f.inode_cache[i].inode
               /\ \/ g.inode_cache[i].dirty = f.inode_cache[i].dirty
                  \/ f.inode_cache[i].inode.type = "file"
    BY <1>2, <1>3
  <2> QED
    BY <1>2, <2>1, SlotsKept
<1>5. PointsTo(g, at, n) /\ Deref(g, at, n) = Deref(f, at, n)
  BY <1>2 DEF PointsTo, Deref
<1> QED
  BY <1>4, <1>5 DEF g

\* The new size needs no block that the inode does not have.
Fits(x, size) ==
    /\ OffsetToBlocks(size) <= InodeNumBlks
    /\ \A i \in Indices : i < OffsetToBlocks(size) => x.blocks[i] # 0

\* A copy of a file gets another size.
LEMMA ResizeKeeps ==
    ASSUME NEW f, FsInv(f), NEW n \in InodeNums, f.inode_tab[n].type = "file",
           NEW at, PointsTo(f, at, n), NEW size \in Nat, Fits(Deref(f, at, n), size),
           NEW x \in Inode, x.size = size, x.type = "file", x.blocks = Deref(f, at, n).blocks
    PROVE  LET g == Store(f, at, n, x) IN
           FileStep(f, g) /\ Reaches(f, g) /\ PointsTo(g, at, n)
<1> DEFINE old == Deref(f, at, n)
<1>1. old \in CopiesIn(f, n)
  BY DerefIn
<1>2. Distinct(old) /\ BlocksOf(old) \subseteq f.blk_bmap
  BY <1>1, CopyFacts
<1> HIDE DEF old
<1>3. Covered(x) /\ Distinct(x) /\ BlocksOf(x) = BlocksOf(old)
  BY <1>2 DEF old, Covered, Fits, Distinct, BlocksOf
<1>4. MoreBlocks(f, f)
  BY DEF MoreBlocks, FsInv
<1>5. BlocksOf(x) \subseteq f.blk_bmap /\ \A b \in BlocksOf(x) : b \in BlocksOf(Deref(f, at, n)) \/ b \notin f.blk_bmap
  BY <1>2, <1>3 DEF old
<1>6. LET g == Store(f, at, n, x) IN
      /\ FileStep(f, g) /\ Reaches(f, g)
      /\ PointsTo(g, at, n)
  BY <1>3, <1>4, <1>5, StoreKeeps
<1> QED
  BY <1>6

\* Setting the size leads on, if there are blocks up to it.
LEMMA GrowKeeps ==
    ASSUME NEW f, FsInv(f), NEW n \in InodeNums, f.inode_tab[n].type = "file",
           NEW at, PointsTo(f, at, n), NEW size \in Nat, Fits(Deref(f, at, n), size), now \in Nat
    PROVE  FileStep(f, Grow(f, at, n, size)) /\ Reaches(f, Grow(f, at, n, size))
<1>1. CASE size <= Deref(f, at, n).size
  BY <1>1, ReachesItself, FileStepItself DEF Grow, FsInv
<1>2. CASE ~(size <= Deref(f, at, n).size)
  <2> DEFINE old == Deref(f, at, n)
             x == [old EXCEPT !.size = size]
             g == Store(f, at, n, x)
             h == IF at = TableRef THEN AddInode(g, n, TRUE, now) ELSE MarkDirty(g, at)
  <2>1. Grow(f, at, n, size) = h
    BY <1>2 DEF Grow, SetSize
  <2>2. old \in Inode /\ old.type = "file"
    BY DerefIn, CopyFacts
  <2>3. x \in Inode /\ x.size = size /\ x.type = "file" /\ x.blocks = old.blocks
    BY <2>2 DEF Inode
  <2> HIDE DEF x
  <2>4. FileStep(f, g) /\ Reaches(f, g) /\ PointsTo(g, at, n)
    <3>1. x.blocks = Deref(f, at, n).blocks
      BY <2>3
    <3>2. LET h1 == Store(f, at, n, x) IN
          FileStep(f, h1) /\ Reaches(f, h1) /\ PointsTo(h1, at, n)
      BY <2>3, <3>1, ResizeKeeps
    <3> QED
      BY <3>2
  <2> HIDE DEF g
  <2>5. FsInv(g) /\ g.inode_tab[n].type = "file"
    BY <2>4 DEF Reaches, FileStep
  <2>6. n \in g.inode_bmap
    BY <2>5, InUse
  <2>7. FileStep(g, h) /\ Reaches(g, h)
    <3>1. CASE at = TableRef
      <4>1. LET k == AddInode(g, n, TRUE, now) IN OnlyMoves(g, k) /\ Reaches(g, k)
        BY <2>5, <2>6, AddInodeKeeps
      <4> QED
        BY <3>1, <4>1 DEF OnlyMoves
    <3>2. CASE at # TableRef
      <4>1. LET k == MarkDirty(g, at) IN OnlyMoves(g, k) /\ Reaches(g, k)
        BY <2>4, <2>5, MarkDirtyKeeps
      <4> QED
        BY <3>2, <4>1 DEF OnlyMoves
    <3> QED
      BY <3>1, <3>2
  <2> HIDE DEF h
  <2>8. FileStep(f, h) /\ Reaches(f, h)
    BY <2>4, <2>7, FileStepOn, ReachesOn
  <2> QED
    BY <2>1, <2>8
<1> QED
  BY <1>1, <1>2

\* What a step of a write leaves behind when it began with f.
Reserved(f, at, n, g) ==
    /\ FileStep(f, g) /\ Reaches(f, g)
    /\ PointsTo(g, at, n)
    /\ \A b \in BlocksOf(Deref(g, at, n)) : b \in BlocksOf(Deref(f, at, n)) \/ b \notin f.blk_bmap

\* The reservation of blocks in fs_write leads on, and if it succeeds there are blocks up to
\* the end of the write.
LEMMA ReserveKeeps ==
    ASSUME NEW acc, FsInv(acc.fs), NEW n \in InodeNums, acc.fs.inode_tab[n].type = "file",
           PointsTo(acc.fs, acc.at, n), NEW off \in Nat, NEW cnt \in Nat
    PROVE  LET r == Reserve(acc, n, off, cnt) IN
           /\ Reserved(acc.fs, acc.at, n, r.fs)
           /\ r.ok => Fits(Deref(r.fs, acc.at, n), off + cnt)
<1> DEFINE f == acc.fs
           at == acc.at
           old == Deref(f, at, n)
           used == OffsetToBlocks(old.size)
           need == OffsetToBlocks(off + cnt)
           req == MaxOf(need, used) - used
           al == Allocate(f, at, n, used, req)
           r == Reserve(acc, n, off, cnt)
<1>1. old \in Inode /\ Covered(old)
  BY DerefIn, CopyFacts
<1>2. used \in Nat /\ used <= InodeNumBlks /\ \A i \in Indices : i < used => old.blocks[i] # 0
  BY <1>1, CeilLess, InodeFields DEF Covered
<1>3. need \in Nat
  BY CeilLess
<1>4. req \in Nat /\ used + req = MaxOf(need, used) /\ need <= MaxOf(need, used)
  BY <1>2, <1>3 DEF MaxOf
<1>5. r = IF req > InodeNumBlks - used THEN [ok |-> FALSE, fs |-> f]
          ELSE IF req = 0 \/ ~al.ok THEN al
          ELSE [ok |-> TRUE, fs |-> MarkDirty(al.fs, at)]
  BY DEF Reserve
<1> HIDE DEF need, used, req, r
<1>6. CASE req > InodeNumBlks - used
  <2>1. r.ok = FALSE /\ r.fs = f
    BY <1>5, <1>6
  <2>2. Reserved(f, at, n, f)
    BY ReachesItself, FileStepItself DEF Reserved, FsInv
  <2> QED
    BY <2>1, <2>2 DEF r
<1>7. CASE ~(req > InodeNumBlks - used)
  <2>1. used + req <= InodeNumBlks
    BY <1>2, <1>4, <1>7, InodesAssumption
  <2>2. LET s == Allocate(f, at, n, used, req) IN
        s \in [ok : BOOLEAN, fs : FsStruct] /\ Allocated(f, at, n, used, req, s)
    BY <1>2, <1>4, <2>1, AllocateKeeps
  <2> HIDE DEF al
  <2>3. al \in [ok : BOOLEAN, fs : FsStruct] /\ Allocated(f, at, n, used, req, al)
    BY <2>2 DEF al
  <2> DEFINE new == Deref(al.fs, at, n)
  <2>4. Reserved(f, at, n, al.fs)
    BY <2>3 DEF Allocated, Reserved
  <2>5. al.ok => Fits(new, off + cnt)
    <3>1. need <= InodeNumBlks
      BY <1>2, <1>3, <1>4, <2>1, InodesAssumption DEF MaxOf
    <3>2. ASSUME al.ok, NEW i \in Indices, i < need
          PROVE  new.blocks[i] # 0
      <4>1. i \in Nat /\ i < used + req
        BY <1>2, <1>3, <1>4, <3>2, Sizes DEF MaxOf
      <4>2. old.blocks[i] # 0 \/ (used <= i /\ i < used + req)
        BY <1>2, <4>1
      <4> QED
        BY <2>3, <3>2, <4>2 DEF Allocated
    <3> QED
      BY <3>1, <3>2 DEF Fits, need
  <2>6. CASE req = 0 \/ ~al.ok
    <3>1. r = al
      BY <1>5, <1>7, <2>6
    <3> QED
      BY <2>4, <2>5, <3>1 DEF r
  <2>7. CASE ~(req = 0 \/ ~al.ok)
    <3> DEFINE g == MarkDirty(al.fs, at)
    <3>1. r = [ok |-> TRUE, fs |-> g]
      BY <1>5, <1>7, <2>7
    <3>2. FsInv(al.fs) /\ al.fs.inode_tab[n].type = "file" /\ PointsTo(al.fs, at, n)
      BY <2>4 DEF Reserved, Reaches, FileStep
    <3>3. LET k == MarkDirty(al.fs, at) IN
          /\ OnlyMoves(al.fs, k) /\ Reaches(al.fs, k)
          /\ PointsTo(k, at, n)
          /\ Deref(k, at, n) = Deref(al.fs, at, n)
      BY <3>2, MarkDirtyKeeps
    <3>4. FileStep(al.fs, g) /\ Reaches(al.fs, g) /\ PointsTo(g, at, n) /\ Deref(g, at, n) = new
      BY <3>3 DEF OnlyMoves
    <3> HIDE DEF g
    <3>5. FileStep(f, g) /\ Reaches(f, g)
      BY <2>4, <3>4, FileStepOn, ReachesOn DEF Reserved
    <3>6. Reserved(f, at, n, g) /\ Fits(Deref(g, at, n), off + cnt)
      BY <2>4, <2>5, <2>7, <3>4, <3>5 DEF Reserved
    <3>7. r.fs = g
      BY <3>1
    <3> QED
      BY <3>6, <3>7 DEF r
  <2> QED
    BY <2>6, <2>7
<1> QED
  BY <1>6, <1>7

\* The blocks that a transfer below the size touches.
LEMMA BlocksAtIn ==
    ASSUME NEW x, NEW off \in Nat, NEW cnt \in Nat, Fits(x, off + cnt)
    PROVE  BlocksAt(x, off, cnt) \subseteq BlocksOf(x)
<1>1. ASSUME NEW j \in Indices, j * BlockSize < off + cnt
      PROVE  x.blocks[j] \in BlocksOf(x)
  <2>1. j \in Nat /\ off + cnt \in Nat
    BY Sizes
  <2>2. j < OffsetToBlocks(off + cnt)
    BY <1>1, <2>1, CeilLess
  <2> QED
    BY <2>2 DEF Fits, BlocksOf
<1> QED
  BY <1>1 DEF BlocksAt

\* A write, and the blocks it replaces bytes in.
LEMMA WriteFileKeeps ==
    ASSUME NEW acc, FsInv(acc.fs), NEW n \in InodeNums, PointsTo(acc.fs, acc.at, n),
           NEW off \in Nat, NEW cnt \in Nat, now \in Nat
    PROVE  LET w == WriteFile(acc, n, off, cnt) IN
           /\ FileStep(acc.fs, w.fs) /\ Reaches(acc.fs, w.fs)
           /\ w.ok => \A b \in w.blocks :
                 b # 0 /\ (b \in BlocksOf(Deref(acc.fs, acc.at, n)) \/ b \notin acc.fs.blk_bmap)
<1> DEFINE f == acc.fs
           at == acc.at
           old == Deref(f, at, n)
           w == WriteFile(acc, n, off, cnt)
           o == MinOf(off, old.size)
           r == Reserve(acc, n, o, cnt)
<1>1. old \in Inode /\ old \in CopiesIn(f, n)
  BY DerefIn
<1>2. CASE ~acc.ok \/ old.type # "file"
  <2>1. w = [ok |-> FALSE, fs |-> f, blocks |-> {}]
    BY <1>2 DEF WriteFile
  <2>2. w.ok = FALSE /\ w.fs = f
    BY <2>1
  <2> HIDE DEF w
  <2>3. FileStep(f, w.fs) /\ Reaches(f, w.fs)
    BY <2>2, ReachesItself, FileStepItself DEF FsInv
  <2> QED
    BY <2>2, <2>3 DEF w
<1>3. CASE acc.ok /\ old.type = "file"
  <2>1. f.inode_tab[n].type = "file"
    BY <1>1, <1>3, CopyFacts
  <2>2. o \in Nat
    BY <1>1, InodeFields DEF MinOf
  <2>3. w = IF ~r.ok THEN [ok |-> FALSE, fs |-> r.fs, blocks |-> {}]
            ELSE [ok |-> TRUE, fs |-> Grow(r.fs, at, n, o + cnt),
                  blocks |-> BlocksAt(Deref(r.fs, at, n), o, cnt)]
    BY <1>3 DEF WriteFile, WriteAt, WriteReserved
  <2> HIDE DEF o
  <2>4. LET q == Reserve(acc, n, o, cnt) IN
        /\ Reserved(acc.fs, acc.at, n, q.fs)
        /\ q.ok => Fits(Deref(q.fs, acc.at, n), o + cnt)
    BY <2>1, <2>2, ReserveKeeps
  <2> HIDE DEF r, w
  <2>5. Reserved(f, at, n, r.fs) /\ (r.ok => Fits(Deref(r.fs, at, n), o + cnt))
    BY <2>4 DEF r
  <2>6. CASE ~r.ok
    <3>1. w.ok = FALSE /\ w.fs = r.fs
      BY <2>3, <2>6
    <3> QED
      BY <2>5, <3>1 DEF Reserved, w
  <2>7. CASE r.ok
    <3> DEFINE g == Grow(r.fs, at, n, o + cnt)
               new == Deref(r.fs, at, n)
    <3>1. w.fs = g /\ w.blocks = BlocksAt(new, o, cnt)
      BY <2>3, <2>7
    <3>2. FsInv(r.fs) /\ r.fs.inode_tab[n].type = "file" /\ PointsTo(r.fs, at, n)
      BY <2>1, <2>5 DEF Reserved, Reaches, FileStep
    <3>3. o + cnt \in Nat /\ Fits(new, o + cnt)
      BY <2>2, <2>5, <2>7
    <3>4. FileStep(r.fs, g) /\ Reaches(r.fs, g)
      BY <3>2, <3>3, GrowKeeps
    <3> HIDE DEF g
    <3>5. FileStep(f, g) /\ Reaches(f, g)
      BY <2>5, <3>4, FileStepOn, ReachesOn DEF Reserved
    <3>6. w.blocks \subseteq BlocksOf(new)
      BY <2>2, <3>1, <3>3, BlocksAtIn
    <3>7. \A b \in w.blocks : b # 0 /\ (b \in BlocksOf(old) \/ b \notin f.blk_bmap)
      BY <2>5, <3>6 DEF Reserved, BlocksOf
    <3> QED
      BY <3>1, <3>5, <3>7 DEF w
  <2> QED
    BY <2>6, <2>7
<1> QED
  BY <1>2, <1>3

-----------------------------------------------------------------------------
(* Attributes, and the blocks of a copy.                                   *)

\* fs_get_attrs leads on; of an inode in use it gives the type, and only for inode 0 it
\* ends the server.
LEMMA GetAttrsKeeps ==
    ASSUME NEW f, FsInv(f), NEW n, NEW t \in Nat
    PROVE  LET a == GetAttrs(f, n, t) IN
           /\ FileStep(f, a.fs) /\ Reaches(f, a.fs)
           /\ n \in f.inode_bmap \ {0} => a.st = "ok"
           /\ a.st = "ok" => n \in f.inode_bmap /\ a.inode.type = f.inode_tab[n].type
           /\ a.st = "exit" => n = 0
<1> DEFINE a == GetAttrs(f, n, t)
           acc == Access(f, n, t)
           inode == Deref(acc.fs, acc.at, n)
<1>1. CASE n \notin InodeNums
  <2>1. a.st = "error" /\ a.fs = f
    BY <1>1 DEF GetAttrs
  <2>2. n \notin f.inode_bmap
    BY <1>1, Fields DEF FsInv
  <2>3. FileStep(f, f) /\ Reaches(f, f)
    BY ReachesItself, FileStepItself DEF FsInv
  <2> QED
    BY <2>1, <2>2, <2>3
<1>2. CASE n \in InodeNums
  <2>1. a = [st |-> IF ~acc.ok THEN "error" ELSE IF inode.type = "none" THEN "exit" ELSE "ok",
             fs |-> acc.fs, inode |-> inode]
    BY <1>2 DEF GetAttrs, Attrs
  <2>2. LET q == Access(f, n, t) IN
        /\ OnlyMoves(f, q.fs) /\ Reaches(f, q.fs)
        /\ PointsTo(q.fs, q.at, n)
        /\ q.ok \in BOOLEAN
        /\ q.ok <=> n \in f.inode_bmap
    BY <1>2, AccessKeeps
  <2>3. FileStep(f, acc.fs) /\ Reaches(f, acc.fs) /\ FsInv(acc.fs) /\ PointsTo(acc.fs, acc.at, n)
        /\ (acc.ok <=> n \in f.inode_bmap)
    BY <2>2 DEF OnlyMoves, Reaches
  <2>4. inode.type = acc.fs.inode_tab[n].type
    BY <1>2, <2>3, DerefIn, CopyFacts
  <2>5. inode.type = f.inode_tab[n].type
    BY <1>2, <2>3, <2>4 DEF FileStep
  <2> HIDE DEF acc, inode, a
  <2>6. /\ a.fs = acc.fs /\ a.inode = inode
        /\ a.st = IF ~acc.ok THEN "error" ELSE IF inode.type = "none" THEN "exit" ELSE "ok"
    BY <2>1
  <2>7. n \in f.inode_bmap \ {0} => inode.type # "none"
    BY <1>2, <2>5 DEF FsInv, KindInv
  <2>8. a.st = "exit" => n = 0
    BY <2>3, <2>6, <2>7
  <2>9. n \in f.inode_bmap \ {0} => a.st = "ok"
    BY <2>3, <2>6, <2>7
  <2>10. a.st = "ok" => n \in f.inode_bmap /\ a.inode.type = f.inode_tab[n].type
    BY <2>3, <2>5, <2>6
  <2> QED
    BY <2>3, <2>6, <2>8, <2>9, <2>10 DEF a
<1> QED
  BY <1>1, <1>2

\* Whatever inode a pointer leads to by now, it is covered.
LEMMA DerefCovered ==
    ASSUME NEW f, FsInv(f), NEW n \in InodeNums, NEW at \in ISlots \cup {TableRef}
    PROVE  Deref(f, at, n) \in Inode /\ Covered(Deref(f, at, n))
<1> DEFINE m == IF at = TableRef THEN n ELSE f.inode_cache[at].num
<1>1. m \in InodeNums
  BY Fields, InodeEntryFields DEF FsInv
<1>2. PointsTo(f, at, m) /\ Deref(f, at, n) = Deref(f, at, m)
  BY DEF PointsTo, Deref
<1> HIDE DEF m
<1>3. Deref(f, at, m) \in CopiesIn(f, m)
  BY <1>1, <1>2, DerefIn
<1> QED
  BY <1>1, <1>2, <1>3, CopyFacts

\* The blocks of a copied file are its own, although the size of the source is read through
\* a pointer that may by now lead to another inode.
LEMMA CopyBlocksKeeps ==
    ASSUME NEW f, FsInv(f), NEW src \in InodeNums, NEW at \in ISlots \cup {TableRef},
           NEW new \in InodeNums, f.inode_tab[new].type = "file"
    PROVE  LET c == CopyBlocks(f, at, src, new) IN FileStep(f, c.fs) /\ Reaches(f, c.fs)
<1> DEFINE from == Deref(f, at, src)
           al == Allocate(f, TableRef, new, 0, OffsetToBlocks(from.size))
           size == Deref(al.fs, at, src).size
           c == CopyBlocks(f, at, src, new)
           old == al.fs.inode_tab[new]
           x == [old EXCEPT !.size = size, !.type = "file"]
           g == Store(al.fs, TableRef, new, x)
<1>1. from \in Inode /\ Covered(from)
  BY DerefCovered
<1>2. c = IF ~al.ok THEN al ELSE [ok |-> TRUE, fs |-> g]
  BY DEF CopyBlocks, Store
<1>3. PointsTo(f, TableRef, new)
  BY DEF PointsTo
<1>4. OffsetToBlocks(from.size) \in Nat /\ 0 + OffsetToBlocks(from.size) <= InodeNumBlks /\ 0 \in Nat
  BY <1>1, InodeFields, CeilLess DEF Covered
<1>5. LET s == Allocate(f, TableRef, new, 0, OffsetToBlocks(from.size)) IN
      s \in [ok : BOOLEAN, fs : FsStruct] /\ Allocated(f, TableRef, new, 0, OffsetToBlocks(from.size), s)
  <2> DEFINE k == OffsetToBlocks(from.size)
  <2>1. k \in Nat /\ 0 + k <= InodeNumBlks /\ 0 \in Nat
    BY <1>4
  <2> HIDE DEF k
  <2>2. LET s == Allocate(f, TableRef, new, 0, k) IN
        s \in [ok : BOOLEAN, fs : FsStruct] /\ Allocated(f, TableRef, new, 0, k, s)
    BY <1>3, <2>1, AllocateKeeps
  <2> QED
    BY <2>2 DEF k
<1>6. al \in [ok : BOOLEAN, fs : FsStruct] /\ Allocated(f, TableRef, new, 0, OffsetToBlocks(from.size), al)
  BY <1>5
<1> HIDE DEF al, c
<1>7. FileStep(f, al.fs) /\ Reaches(f, al.fs) /\ OnlyTable(f, al.fs, new)
      /\ Deref(al.fs, TableRef, new).size = Deref(f, TableRef, new).size
  BY <1>6 DEF Allocated
<1>8. size = from.size
  <2>1. old.size = f.inode_tab[new].size
    BY <1>7 DEF Deref
  <2> QED
    BY <1>7, <2>1 DEF OnlyTable, Deref
<1>9. FsInv(al.fs) /\ al.fs.inode_tab[new].type = "file"
  BY <1>7 DEF Reaches, FileStep
<1>10. old \in Inode
  BY <1>9, Fields DEF FsInv
<1>11. x \in Inode /\ x.size = from.size /\ x.type = "file" /\ x.blocks = old.blocks
  BY <1>1, <1>8, <1>10 DEF Inode
<1>12. CASE ~al.ok
  BY <1>2, <1>7, <1>12 DEF c
<1>13. CASE al.ok
  <2>1. Fits(Deref(al.fs, TableRef, new), from.size)
    <3>1. ASSUME NEW i \in Indices, i < OffsetToBlocks(from.size)
          PROVE  old.blocks[i] # 0
      <4>1. 0 <= i /\ i < 0 + OffsetToBlocks(from.size)
        BY <1>4, <3>1, Sizes
      <4> QED
        BY <1>6, <1>13, <4>1 DEF Allocated, Deref
    <3> QED
      BY <1>1, <3>1 DEF Fits, Covered, Deref
  <2>2. PointsTo(al.fs, TableRef, new) /\ x.blocks = Deref(al.fs, TableRef, new).blocks
    BY <1>11 DEF PointsTo, Deref
  <2>3. from.size \in Nat
    BY <1>1, InodeFields
  <2> HIDE DEF x, from, size
  <2>4. LET h == Store(al.fs, TableRef, new, x) IN
        FileStep(al.fs, h) /\ Reaches(al.fs, h) /\ PointsTo(h, TableRef, new)
    BY <1>9, <1>11, <2>1, <2>2, <2>3, ResizeKeeps
  <2>5. FileStep(f, g) /\ Reaches(f, g)
    BY <1>7, <2>4, FileStepOn, ReachesOn
  <2> HIDE DEF g
  <2>6. c.fs = g
    BY <1>2, <1>13
  <2> QED
    BY <2>5, <2>6 DEF c
<1> QED
  BY <1>12, <1>13

\* The last part of fs_copy, with the new inode added to the cache first.
LEMMA CopyDataKeeps ==
    ASSUME NEW acc, FsInv(acc.fs), NEW n \in InodeNums, PointsTo(acc.fs, acc.at, n),
           NEW new \in InodeNums, acc.fs.inode_tab[new].type = "file", now \in Nat
    PROVE  Reaches(acc.fs, CopyData(acc, n, new).fs)
<1> DEFINE f == acc.fs
           g == AddInode(f, new, TRUE, now)
           c == CopyBlocks(g, acc.at, n, new)
<1>1. new \in f.inode_bmap
  BY InUse
<1>2. LET h == AddInode(f, new, TRUE, now) IN OnlyMoves(f, h) /\ Reaches(f, h)
  BY <1>1, AddInodeKeeps
<1>3. FsInv(g) /\ Reaches(f, g) /\ g.inode_tab[new].type = "file"
  BY <1>2 DEF Reaches, OnlyMoves, FileStep
<1>4. CopyData(acc, n, new).fs = c.fs
  BY DEF CopyData, CopyAnswer
<1> HIDE DEF g
<1>5. acc.at \in ISlots \cup {TableRef}
  BY DEF PointsTo
<1>6. LET d == CopyBlocks(g, acc.at, n, new) IN FileStep(g, d.fs) /\ Reaches(g, d.fs)
  BY <1>3, <1>5, CopyBlocksKeeps
<1> QED
  BY <1>3, <1>4, <1>6, ReachesOn

-----------------------------------------------------------------------------
(* What the functions do, whatever state other threads have left.          *)

\* Only copies of inodes are changed, and no block becomes free.
OnlyInodes(f, g) ==
    /\ g \in FsStruct
    /\ g.inode_bmap = f.inode_bmap /\ g.page = f.page /\ g.dir_cache = f.dir_cache
    /\ f.blk_bmap \subseteq g.blk_bmap

\* No inode, number or dirty mark is changed.
SlotsAlike(f, g) ==
    /\ g.inode_tab = f.inode_tab
    /\ \A i \in ISlots : /\ g.inode_cache[i].num = f.inode_cache[i].num
                         /\ g.inode_cache[i].inode = f.inode_cache[i].inode
                         /\ g.inode_cache[i].dirty = f.inode_cache[i].dirty

\* The access to inode n in whatever structure: a touch, a clean copy from the table, or nothing.
LEMMA AccessEffect ==
    ASSUME NEW f \in FsStruct, NEW n \in InodeNums, NEW t \in Nat
    PROVE  LET acc == Access(f, n, t) IN
           /\ OnlyInodes(f, acc.fs) /\ acc.fs.blk_bmap = f.blk_bmap
           /\ acc.at \in ISlots \cup {TableRef}
           /\ acc.at # TableRef => f.inode_cache[acc.at].num = n /\ acc.fs.inode_cache[acc.at].num = n
           /\ acc.ok \in BOOLEAN
           /\ acc.ok <=> CachedAt(f, n) # {} \/ n \in f.inode_bmap
           /\ \/ SlotsAlike(f, acc.fs) /\ (acc.ok => acc.at # TableRef)
              \/ /\ CachedAt(f, n) = {} /\ n \in f.inode_bmap /\ acc.at = TableRef
                 /\ \E v \in ISlots : AddedAt(f, acc.fs, n, FALSE, v)
<1>1. CASE CachedAt(f, n) # {}
  <2> DEFINE v == Lowest(CachedAt(f, n))
             g == Touch(f, n, t)
  <2>1. v \in ISlots /\ f.inode_cache[v].num = n /\ v # TableRef
    BY <1>1, CachedIn, Sizes DEF TableRef
  <2>2. /\ g \in FsStruct
        /\ g.inode_tab = f.inode_tab /\ g.inode_bmap = f.inode_bmap
        /\ g.blk_bmap = f.blk_bmap /\ g.page = f.page /\ g.dir_cache = f.dir_cache
        /\ \A i \in ISlots : /\ g.inode_cache[i].num = f.inode_cache[i].num
                             /\ g.inode_cache[i].inode = f.inode_cache[i].inode
                             /\ g.inode_cache[i].dirty = f.inode_cache[i].dirty
    BY <1>1, TouchFields
  <2>3. Access(f, n, t) = [ok |-> TRUE, fs |-> g, at |-> v]
    BY <1>1 DEF Access
  <2> HIDE DEF g, v
  <2>4. OnlyInodes(f, g) /\ SlotsAlike(f, g) /\ g.blk_bmap = f.blk_bmap
        /\ (v # TableRef => f.inode_cache[v].num = n /\ g.inode_cache[v].num = n)
    BY <2>1, <2>2 DEF OnlyInodes, SlotsAlike
  <2> DEFINE acc == Access(f, n, t)
  <2>5. acc.ok = TRUE /\ acc.fs = g /\ acc.at = v
    BY <2>3
  <2> HIDE DEF acc
  <2> QED
    BY <1>1, <2>1, <2>4, <2>5 DEF acc
<1>2. CASE CachedAt(f, n) = {} /\ n \in f.inode_bmap
  <2> DEFINE g == AddInode(f, n, FALSE, t)
  <2>1. /\ g \in FsStruct
        /\ g.inode_bmap = f.inode_bmap /\ g.blk_bmap = f.blk_bmap
        /\ g.page = f.page /\ g.dir_cache = f.dir_cache
        /\ \E v \in ISlots : AddedAt(f, g, n, FALSE, v)
    BY AddInodeFields
  <2>2. Access(f, n, t) = [ok |-> TRUE, fs |-> g, at |-> TableRef]
    BY <1>2 DEF Access
  <2> HIDE DEF g
  <2>3. OnlyInodes(f, g)
    BY <2>1 DEF OnlyInodes
  <2> DEFINE acc == Access(f, n, t)
  <2>4. acc.ok = TRUE /\ acc.fs = g /\ acc.at = TableRef
    BY <2>2
  <2> HIDE DEF acc
  <2> QED
    BY <1>2, <2>1, <2>3, <2>4 DEF acc
<1>3. CASE CachedAt(f, n) = {} /\ n \notin f.inode_bmap
  <2>1. Access(f, n, t) = [ok |-> FALSE, fs |-> f, at |-> TableRef]
    BY <1>3 DEF Access
  <2>2. OnlyInodes(f, f) /\ SlotsAlike(f, f)
    BY DEF OnlyInodes, SlotsAlike
  <2> QED
    BY <1>3, <2>1, <2>2
<1> QED
  BY <1>1, <1>2, <1>3

\* Of all copies only the one behind the pointer differs; its slot is still that inode's.
OnlyBehind(f, g, at, n) ==
    /\ at = TableRef => /\ g.inode_cache = f.inode_cache
                        /\ \A m \in InodeNums \ {n} : g.inode_tab[m] = f.inode_tab[m]
    /\ at # TableRef => /\ g.inode_tab = f.inode_tab
                        /\ g.inode_cache[at].num = f.inode_cache[at].num
                        /\ \A i \in ISlots \ {at} : g.inode_cache[i] = f.inode_cache[i]

\* The inode behind a pointer got blocks from first to last that were free.
Allotted(f, g, at, n, first, last) ==
    LET old == Deref(f, at, n)
        new == Deref(g, at, n)
    IN /\ OnlyInodes(f, g) /\ OnlyBehind(f, g, at, n)
       /\ new.type = old.type /\ new.size = old.size
       /\ \A j \in Indices :
             \/ new.blocks[j] = old.blocks[j]
             \/ first <= j /\ j < last /\ new.blocks[j] \in g.blk_bmap \ f.blk_bmap
       /\ Distinct(old) /\ BlocksOf(old) \subseteq f.blk_bmap => Distinct(new)

\* A pointer leads to an inode.
LEMMA DerefTyped ==
    ASSUME NEW f \in FsStruct, NEW n \in InodeNums, NEW at \in ISlots \cup {TableRef}
    PROVE  Deref(f, at, n) \in Inode
BY Fields, InodeEntryFields DEF Deref

\* One block is allotted.
LEMMA AllocateOneEffect ==
    ASSUME NEW f \in FsStruct, NEW n \in InodeNums, NEW at \in ISlots \cup {TableRef},
           FreeBlocks(f) # {}, NEW i \in Indices
    PROVE  LET g == AllocateOne(f, at, n, i)
               b == Lowest(FreeBlocks(f))
               old == Deref(f, at, n)
               new == Deref(g, at, n)
           IN
           /\ OnlyInodes(f, g) /\ OnlyBehind(f, g, at, n)
           /\ at # TableRef => g.inode_cache[at].dirty = f.inode_cache[at].dirty
           /\ b \in Blocks \ f.blk_bmap /\ g.blk_bmap = f.blk_bmap \cup {b}
           /\ new.type = old.type /\ new.size = old.size
           /\ \A j \in Indices : new.blocks[j] = IF j = i THEN b ELSE old.blocks[j]
<1> DEFINE b == Lowest(FreeBlocks(f))
           old == Deref(f, at, n)
           x == [old EXCEPT !.blocks[i] = b]
           B == f.blk_bmap \cup {b}
           h == [f EXCEPT !.blk_bmap = B]
           g == AllocateOne(f, at, n, i)
<1>1. b \in Blocks \ f.blk_bmap
  <2>1. FreeBlocks(f) \subseteq Nat
    BY Sizes DEF FreeBlocks
  <2>2. Lowest(FreeBlocks(f)) \in FreeBlocks(f)
    BY <2>1, LowestIn
  <2> QED
    BY <2>2 DEF FreeBlocks
<1>2. f.blk_bmap \subseteq Blocks
  BY Fields
<1>3. old \in Inode
  BY DerefTyped
<1>4. g = Store(h, at, n, x)
  BY DEF AllocateOne
<1> HIDE DEF b, old, g
<1>5. B \subseteq Blocks /\ f.blk_bmap \subseteq B
  BY <1>1, <1>2
<1>6. B = f.blk_bmap \cup {b}
  OBVIOUS
<1> HIDE DEF B
<1>7. h \in FsStruct /\ h.blk_bmap = B /\ h.inode_tab = f.inode_tab /\ h.inode_cache = f.inode_cache
      /\ h.inode_bmap = f.inode_bmap /\ h.page = f.page /\ h.dir_cache = f.dir_cache
  BY <1>5 DEF FsStruct
<1> HIDE DEF h
<1>8. /\ x \in Inode /\ x.type = old.type /\ x.size = old.size
      /\ \A j \in Indices : x.blocks[j] = IF j = i THEN b ELSE old.blocks[j]
  BY <1>1, <1>3 DEF Inode
<1> HIDE DEF x
<1>9. /\ g \in FsStruct
      /\ g.inode_bmap = h.inode_bmap /\ g.blk_bmap = h.blk_bmap
      /\ g.page = h.page /\ g.dir_cache = h.dir_cache
      /\ at = TableRef => /\ g.inode_tab = [h.inode_tab EXCEPT ![n] = x]
                          /\ g.inode_cache = h.inode_cache
      /\ at # TableRef => /\ g.inode_tab = h.inode_tab
                          /\ g.inode_cache[at].num = h.inode_cache[at].num
                          /\ g.inode_cache[at].dirty = h.inode_cache[at].dirty
                          /\ g.inode_cache[at].inode = x
                          /\ \A j \in ISlots \ {at} : g.inode_cache[j] = h.inode_cache[j]
      /\ Deref(g, at, n) = x
  BY <1>4, <1>7, <1>8, StoreFields
<1>10. f.inode_tab \in [InodeNums -> Inode]
  BY Fields
<1>11. OnlyInodes(f, g)
  BY <1>5, <1>7, <1>9 DEF OnlyInodes
<1>12. OnlyBehind(f, g, at, n)
  BY <1>7, <1>9, <1>10 DEF OnlyBehind
<1> QED
  BY <1>1, <1>6, <1>7, <1>8, <1>9, <1>11, <1>12 DEF b, old, g

\* Nothing happens to the inode.
LEMMA AllottedNothing ==
    ASSUME NEW f \in FsStruct, NEW at, NEW n, NEW first, NEW last
    PROVE  Allotted(f, f, at, n, first, last)
BY DEF Allotted, OnlyInodes, OnlyBehind

\* What k rounds of the allocation loop do: blocks from first on, all of them unless the disk is full.
AllottedTo(f0, at, n, first, k, s) ==
    /\ Allotted(f0, s.fs, at, n, first, first + k)
    /\ at # TableRef => s.fs.inode_cache[at].dirty = f0.inode_cache[at].dirty
    /\ s.ok => \A j \in Indices : first <= j /\ j < first + k =>
                  Deref(s.fs, at, n).blocks[j] \in s.fs.blk_bmap \ f0.blk_bmap

\* Two changes behind the pointer are one.
LEMMA OnlyBehindOn ==
    ASSUME NEW f, NEW g, NEW h, NEW at \in ISlots \cup {TableRef}, NEW n,
           OnlyBehind(f, g, at, n), OnlyBehind(g, h, at, n)
    PROVE  OnlyBehind(f, h, at, n)
BY DEF OnlyBehind

\* Two changes that leave everything but the inodes alone, one after the other.
LEMMA OnlyInodesOn ==
    ASSUME NEW f, NEW g, NEW h, OnlyInodes(f, g), OnlyInodes(g, h)
    PROVE  OnlyInodes(f, h)
BY DEF OnlyInodes

\* One more block is allotted.
LEMMA AllottedOn ==
    ASSUME NEW f0 \in FsStruct, NEW n \in InodeNums, NEW at \in ISlots \cup {TableRef},
           NEW first \in Nat, NEW k \in Nat, first + k \in Indices,
           NEW f, Allotted(f0, f, at, n, first, first + k), FreeBlocks(f) # {}
    PROVE  LET g == AllocateOne(f, at, n, first + k) IN
           /\ Allotted(f0, g, at, n, first, first + (k + 1))
           /\ at # TableRef => g.inode_cache[at].dirty = f.inode_cache[at].dirty
           /\ f.blk_bmap \subseteq g.blk_bmap
           /\ \A j \in Indices :
                 Deref(g, at, n).blocks[j] = IF j = first + k THEN Lowest(FreeBlocks(f))
                                             ELSE Deref(f, at, n).blocks[j]
           /\ Lowest(FreeBlocks(f)) \in g.blk_bmap \ f0.blk_bmap
<1> DEFINE i == first + k
           g == AllocateOne(f, at, n, i)
           b == Lowest(FreeBlocks(f))
           old == Deref(f0, at, n)
           mid == Deref(f, at, n)
           new == Deref(g, at, n)
           e == first + k + 1
<1>1. /\ f \in FsStruct /\ OnlyInodes(f0, f) /\ OnlyBehind(f0, f, at, n)
      /\ mid.type = old.type /\ mid.size = old.size
      /\ \A j \in Indices :
            \/ mid.blocks[j] = old.blocks[j]
            \/ first <= j /\ j < i /\ mid.blocks[j] \in f.blk_bmap \ f0.blk_bmap
      /\ Distinct(old) /\ BlocksOf(old) \subseteq f0.blk_bmap => Distinct(mid)
      /\ f0.blk_bmap \subseteq f.blk_bmap
  BY DEF Allotted, OnlyInodes
<1>2. /\ OnlyInodes(f, g) /\ OnlyBehind(f, g, at, n)
      /\ at # TableRef => g.inode_cache[at].dirty = f.inode_cache[at].dirty
      /\ b \in Blocks \ f.blk_bmap /\ g.blk_bmap = f.blk_bmap \cup {b}
      /\ new.type = mid.type /\ new.size = mid.size
      /\ \A j \in Indices : new.blocks[j] = IF j = i THEN b ELSE mid.blocks[j]
  BY <1>1, AllocateOneEffect
<1>3. i \in Indices /\ first + (k + 1) = i + 1 /\ first <= i /\ i < i + 1 /\ i \in Nat
  OBVIOUS
<1> HIDE DEF i, g, b, old, mid, new
<1>4. b # 0 /\ b \in g.blk_bmap /\ b \notin f0.blk_bmap
  BY <1>1, <1>2, Sizes
<1>5. OnlyInodes(f0, g) /\ OnlyBehind(f0, g, at, n)
  BY <1>1, <1>2, OnlyBehindOn, OnlyInodesOn
<1>6. ASSUME NEW j \in Indices
      PROVE  \/ new.blocks[j] = old.blocks[j]
             \/ first <= j /\ j < i + 1 /\ new.blocks[j] \in g.blk_bmap \ f0.blk_bmap
  <2>1. CASE j = i
    BY <1>2, <1>3, <1>4, <2>1
  <2>2. CASE j # i
    <3>1. j \in Nat
      BY Sizes
    <3>2. new.blocks[j] = mid.blocks[j] /\ (j < i => j < i + 1)
      BY <1>2, <1>3, <2>2, <3>1
    <3>3. f.blk_bmap \subseteq g.blk_bmap
      BY <1>2
    <3> QED
      BY <1>1, <3>2, <3>3
  <2> QED
    BY <2>1, <2>2
<1>7. ASSUME Distinct(old), BlocksOf(old) \subseteq f0.blk_bmap
      PROVE  Distinct(new)
  <2>1. Distinct(mid)
    BY <1>1, <1>7
  <2>2. \A j \in Indices : mid.blocks[j] = 0 \/ mid.blocks[j] \in f.blk_bmap
    BY <1>1, <1>7 DEF BlocksOf
  <2>3. \A j \in Indices : mid.blocks[j] # b
    BY <1>2, <1>4, <2>2
  <2> QED
    BY <1>2, <2>1, <2>3 DEF Distinct
<1>8. Allotted(f0, g, at, n, first, i + 1)
  BY <1>1, <1>2, <1>5, <1>6, <1>7 DEF Allotted, old, mid, new
<1> QED
  BY <1>2, <1>3, <1>4, <1>8 DEF i, g, b, old, mid, new

\* A round of the allocation loop.
LEMMA AllocNextEffect ==
    ASSUME NEW f0 \in FsStruct, NEW n \in InodeNums, NEW at \in ISlots \cup {TableRef},
           NEW first \in Nat, NEW k \in Nat, first + k \in Indices,
           NEW s \in [ok : BOOLEAN, fs : FsStruct], AllottedTo(f0, at, n, first, k, s)
    PROVE  LET r == AllocNext(s, at, n, first + k) IN
           r \in [ok : BOOLEAN, fs : FsStruct] /\ AllottedTo(f0, at, n, first, k + 1, r)
<1> DEFINE i == first + k
           r == AllocNext(s, at, n, i)
           f == s.fs
           old == Deref(f0, at, n)
           mid == Deref(f, at, n)
<1>1. /\ Allotted(f0, f, at, n, first, i)
      /\ at # TableRef => f.inode_cache[at].dirty = f0.inode_cache[at].dirty
      /\ s.ok => \A j \in Indices : first <= j /\ j < i => mid.blocks[j] \in f.blk_bmap \ f0.blk_bmap
  BY DEF AllottedTo
<1>2. CASE ~s.ok \/ FreeBlocks(f) = {}
  <2>1. r = [s EXCEPT !.ok = FALSE]
    BY <1>2 DEF AllocNext
  <2>2. r \in [ok : BOOLEAN, fs : FsStruct] /\ r.ok = FALSE /\ r.fs = f
    BY <2>1
  <2>3. \A j \in Indices : j < i => j < first + (k + 1)
    BY Sizes
  <2> HIDE DEF r
  <2>4. Allotted(f0, f, at, n, first, first + (k + 1))
    BY <1>1, <2>3 DEF Allotted
  <2>5. AllottedTo(f0, at, n, first, k + 1, r)
    BY <1>1, <2>2, <2>4 DEF AllottedTo
  <2> QED
    BY <2>2, <2>5 DEF r
<1>3. CASE s.ok /\ FreeBlocks(f) # {}
  <2> DEFINE g == AllocateOne(f, at, n, i)
             b == Lowest(FreeBlocks(f))
             new == Deref(g, at, n)
  <2>1. r = [ok |-> TRUE, fs |-> g]
    BY <1>3 DEF AllocNext
  <2>2. /\ Allotted(f0, g, at, n, first, first + (k + 1))
        /\ at # TableRef => g.inode_cache[at].dirty = f.inode_cache[at].dirty
        /\ f.blk_bmap \subseteq g.blk_bmap
        /\ \A j \in Indices : new.blocks[j] = IF j = i THEN b ELSE mid.blocks[j]
        /\ b \in g.blk_bmap \ f0.blk_bmap
    BY <1>1, <1>3, AllottedOn
  <2>3. i \in Nat /\ first + (k + 1) = i + 1
    OBVIOUS
  <2> HIDE DEF i, g, b, r, new, mid
  <2>4. g \in FsStruct
    BY <2>2 DEF Allotted, OnlyInodes
  <2>5. r \in [ok : BOOLEAN, fs : FsStruct] /\ r.ok = TRUE /\ r.fs = g
    BY <2>1, <2>4
  <2>6. ASSUME NEW j \in Indices, first <= j, j < i + 1
        PROVE  new.blocks[j] \in g.blk_bmap \ f0.blk_bmap
    <3>1. j \in Nat
      BY Sizes
    <3>2. j = i \/ j < i
      BY <2>3, <2>6, <3>1
    <3> QED
      BY <1>1, <1>3, <2>2, <2>6, <3>2
  <2>7. AllottedTo(f0, at, n, first, k + 1, r)
    BY <1>1, <2>2, <2>3, <2>5, <2>6 DEF AllottedTo, new
  <2> QED
    BY <2>5, <2>7 DEF r, i
<1> QED
  BY <1>2, <1>3

\* The whole loop.
LEMMA AllocateEffect ==
    ASSUME NEW f0 \in FsStruct, NEW n \in InodeNums, NEW at \in ISlots \cup {TableRef},
           NEW first \in Nat, NEW count \in Nat, first + count <= InodeNumBlks
    PROVE  LET s == Allocate(f0, at, n, first, count) IN
           s \in [ok : BOOLEAN, fs : FsStruct] /\ AllottedTo(f0, at, n, first, count, s)
<1> DEFINE S == [ok : BOOLEAN, fs : FsStruct]
           Good == {p \in (0 .. count) \X S : AllottedTo(f0, at, n, first, p[1], p[2])}
           s0 == [ok |-> TRUE, fs |-> f0]
           step == [p \in Good |-> AllocNext(p[2], at, n, first + p[1])]
           alloc == CHOOSE alloc : alloc = [k \in 0 .. count |->
                        IF k = 0 THEN s0 ELSE AllocNext(alloc[k - 1], at, n, first + k - 1)]
<1>1. <<0, s0>> \in Good
  <2>1. s0 \in S /\ s0.fs = f0 /\ s0.ok
    OBVIOUS
  <2>2. \A j \in Indices : ~(first <= j /\ j < first + 0)
    BY Sizes
  <2> HIDE DEF s0
  <2>3. AllottedTo(f0, at, n, first, 0, s0)
    BY <2>1, <2>2, AllottedNothing DEF AllottedTo
  <2> QED
    BY <2>1, <2>3
<1>2. ASSUME NEW k \in 0 .. count - 1, NEW s, <<k, s>> \in Good
      PROVE  /\ <<k + 1, AllocNext(s, at, n, first + k)>> \in Good
             /\ step[<<k, s>>] = AllocNext(s, at, n, first + k)
  <2>1. s \in S /\ AllottedTo(f0, at, n, first, k, s)
    BY <1>2
  <2>2. k \in Nat /\ first + k \in Indices /\ k + 1 \in 0 .. count
    BY InodesAssumption DEF Indices
  <2>3. AllocNext(s, at, n, first + k) \in S
        /\ AllottedTo(f0, at, n, first, k + 1, AllocNext(s, at, n, first + k))
    BY <2>1, <2>2, AllocNextEffect
  <2> QED
    BY <1>2, <2>2, <2>3
<1> HIDE DEF Good, step, s0
<1>3. RoundsKeep(count, Good, step)
  BY <1>2 DEF RoundsKeep
<1>4. PICK g : RunsLoop(g, count, Good, s0, step)
  BY <1>1, <1>3, LoopRuns
<1>5. ASSUME NEW k \in 1 .. count
      PROVE  k - 1 \in 0 .. count - 1 /\ first + (k - 1) = first + k - 1 /\ (k - 1) + 1 = k
  OBVIOUS
<1>6. ASSUME NEW k \in 1 .. count
      PROVE  g[k] = AllocNext(g[k - 1], at, n, first + k - 1)
  BY <1>2, <1>4, <1>5 DEF RunsLoop
<1>7. g = [k \in 0 .. count |-> IF k = 0 THEN s0 ELSE AllocNext(g[k - 1], at, n, first + k - 1)]
  <2>1. \A k \in 0 .. count : k = 0 \/ k \in 1 .. count
    OBVIOUS
  <2>2. \A k \in 0 .. count :
           g[k] = IF k = 0 THEN s0 ELSE AllocNext(g[k - 1], at, n, first + k - 1)
    BY <1>4, <1>6, <2>1 DEF RunsLoop
  <2> QED
    BY <1>4, <2>2 DEF RunsLoop
<1>8. Allocate(f0, at, n, first, count) = alloc[count]
  BY DEF Allocate, AllocNext, s0
<1>9. alloc = [k \in 0 .. count |-> IF k = 0 THEN s0 ELSE AllocNext(alloc[k - 1], at, n, first + k - 1)]
  BY <1>7
<1> HIDE DEF alloc
<1>10. <<0, alloc[0]>> \in Good
  BY <1>1, <1>9
<1>11. ASSUME NEW k \in 1 .. count, <<k - 1, alloc[k - 1]>> \in Good
       PROVE  <<k, alloc[k]>> \in Good
  <2>1. k \in 0 .. count /\ k # 0
    OBVIOUS
  <2>2. alloc[k] = AllocNext(alloc[k - 1], at, n, first + k - 1)
    BY <1>9, <2>1
  <2> QED
    BY <1>2, <1>5, <1>11, <2>2
<1>12. <<count, alloc[count]>> \in Good
  BY <1>10, <1>11, LoopKeeps
<1>13. alloc[count] \in S /\ AllottedTo(f0, at, n, first, count, alloc[count])
  BY <1>12 DEF Good
<1> QED
  BY <1>8, <1>13

\* A slot that is marked is dirty.
LEMMA MarkDirtyMarks ==
    ASSUME NEW f \in FsStruct, NEW at \in ISlots
    PROVE  MarkDirty(f, at).inode_cache[at].dirty = TRUE
<1> DEFINE c == [f.inode_cache EXCEPT ![at].dirty = TRUE]
<1>1. f.inode_cache \in [ISlots -> InodeEntry]
  BY Fields
<1>2. f.inode_cache[at] \in InodeEntry
  BY <1>1
<1>3. c[at] = [f.inode_cache[at] EXCEPT !.dirty = TRUE]
  BY <1>1
<1>4. c[at].dirty = TRUE
  BY <1>2, <1>3 DEF InodeEntry
<1>5. at # TableRef
  BY Sizes DEF TableRef
<1>6. MarkDirty(f, at) = [f EXCEPT !.inode_cache = c]
  BY <1>5 DEF MarkDirty
<1> HIDE DEF c
<1> QED
  BY <1>4, <1>6 DEF FsStruct

\* The reservation of blocks: those that bytes up to off + cnt need, or fewer if it fails.
LEMMA ReserveEffect ==
    ASSUME NEW acc, acc.fs \in FsStruct, NEW n \in InodeNums, acc.at \in ISlots \cup {TableRef},
           NEW off \in Nat, NEW cnt \in Nat
    PROVE  LET f == acc.fs
               at == acc.at
               r == Reserve(acc, n, off, cnt)
               used == OffsetToBlocks(Deref(f, at, n).size)
               need == OffsetToBlocks(off + cnt)
           IN
           /\ r.ok \in BOOLEAN
           /\ Allotted(f, r.fs, at, n, used, InodeNumBlks)
           /\ r.ok => /\ need <= InodeNumBlks
                      /\ \A j \in Indices : used <= j /\ j < need => Deref(r.fs, at, n).blocks[j] # 0
           /\ at # TableRef => /\ r.fs.inode_cache[at].dirty = f.inode_cache[at].dirty \/ (r.ok /\ r.fs.inode_cache[at].dirty)
                               /\ r.ok /\ ~r.fs.inode_cache[at].dirty => need <= used
<1> DEFINE f == acc.fs
           at == acc.at
           old == Deref(f, at, n)
           used == OffsetToBlocks(old.size)
           need == OffsetToBlocks(off + cnt)
           req == MaxOf(need, used) - used
           al == Allocate(f, at, n, used, req)
           r == Reserve(acc, n, off, cnt)
           new == Deref(r.fs, at, n)
<1>1. f \in FsStruct /\ at \in ISlots \cup {TableRef}
  OBVIOUS
<1>2. r = IF req > InodeNumBlks - used THEN [ok |-> FALSE, fs |-> f]
          ELSE IF req = 0 \/ ~al.ok THEN al
          ELSE [ok |-> TRUE, fs |-> MarkDirty(al.fs, at)]
  BY DEF Reserve
<1> HIDE DEF f, at
<1>3. old \in Inode
  BY <1>1, DerefTyped
<1>4. used \in Nat /\ need \in Nat
  BY <1>3, CeilLess, InodeFields
<1> HIDE DEF used, need
<1>5. req \in Nat /\ used + req = MaxOf(need, used) /\ need <= MaxOf(need, used)
      /\ (req = 0 => need <= used)
  BY <1>4 DEF MaxOf
<1> HIDE DEF req, r, new, old
<1>6. InodeNumBlks \in Nat
  BY InodesAssumption
<1>7. CASE req > InodeNumBlks - used
  <2>1. r.ok = FALSE /\ r.fs = f
    BY <1>2, <1>7
  <2>2. Allotted(f, f, at, n, used, InodeNumBlks)
    BY <1>1, AllottedNothing
  <2>3. /\ r.ok \in BOOLEAN
        /\ Allotted(f, r.fs, at, n, used, InodeNumBlks)
        /\ r.ok => /\ need <= InodeNumBlks
                   /\ \A j \in Indices : used <= j /\ j < need => new.blocks[j] # 0
        /\ at # TableRef => /\ r.fs.inode_cache[at].dirty = f.inode_cache[at].dirty \/ (r.ok /\ r.fs.inode_cache[at].dirty)
                            /\ r.ok /\ ~r.fs.inode_cache[at].dirty => need <= used
    <3>1. r.ok \in BOOLEAN /\ Allotted(f, r.fs, at, n, used, InodeNumBlks) /\ ~r.ok
      BY <2>1, <2>2
    <3>2. r.fs.inode_cache[at].dirty = f.inode_cache[at].dirty
      BY <2>1
    <3> QED
      BY <3>1, <3>2
  <2> QED
    BY <2>3 DEF f, at, used, old, need, r, new
<1>8. CASE ~(req > InodeNumBlks - used)
  <2>1. used + req <= InodeNumBlks /\ need <= InodeNumBlks
    BY <1>4, <1>5, <1>6, <1>8
  <2>2. LET s == Allocate(f, at, n, used, req) IN
        s \in [ok : BOOLEAN, fs : FsStruct] /\ AllottedTo(f, at, n, used, req, s)
    BY <1>1, <1>4, <1>5, <2>1, AllocateEffect
  <2> HIDE DEF al
  <2>3. al \in [ok : BOOLEAN, fs : FsStruct] /\ AllottedTo(f, at, n, used, req, al)
    BY <2>2 DEF al
  <2> DEFINE mid == Deref(al.fs, at, n)
  <2>4. /\ Allotted(f, al.fs, at, n, used, used + req)
        /\ at # TableRef => al.fs.inode_cache[at].dirty = f.inode_cache[at].dirty
        /\ al.ok => \A j \in Indices : used <= j /\ j < used + req =>
                       mid.blocks[j] \in al.fs.blk_bmap \ f.blk_bmap
    BY <2>3 DEF AllottedTo
  <2>5. \A j \in Indices : j < InodeNumBlks
    BY <1>6 DEF Indices
  <2>6. Allotted(f, al.fs, at, n, used, InodeNumBlks)
    BY <2>4, <2>5 DEF Allotted
  <2>7. ASSUME al.ok, NEW j \in Indices, used <= j, j < need
        PROVE  mid.blocks[j] # 0
    <3>1. j < used + req
      BY <1>4, <1>5, <2>7, Sizes DEF MaxOf
    <3>2. mid.blocks[j] \in al.fs.blk_bmap
      BY <2>4, <2>7, <3>1
    <3>3. al.fs.blk_bmap \subseteq Blocks
      BY <2>3, Fields
    <3> QED
      BY <3>2, <3>3, Sizes
  <2>8. CASE req = 0 \/ ~al.ok
    <3>1. r = al
      BY <1>2, <1>8, <2>8
    <3>2. new = mid
      BY <3>1 DEF new
    <3>3. r.ok \in BOOLEAN /\ Allotted(f, r.fs, at, n, used, InodeNumBlks)
      BY <2>3, <2>6, <3>1
    <3>4. r.ok => need <= used
      BY <1>5, <2>8, <3>1
    <3>5. r.ok => \A j \in Indices : used <= j /\ j < need => new.blocks[j] # 0
      BY <2>7, <3>1, <3>2
    <3>6. at # TableRef => r.fs.inode_cache[at].dirty = f.inode_cache[at].dirty
      BY <2>4, <3>1
    <3>7. /\ r.ok \in BOOLEAN
          /\ Allotted(f, r.fs, at, n, used, InodeNumBlks)
          /\ r.ok => /\ need <= InodeNumBlks
                     /\ \A j \in Indices : used <= j /\ j < need => new.blocks[j] # 0
          /\ at # TableRef => /\ r.fs.inode_cache[at].dirty = f.inode_cache[at].dirty \/ (r.ok /\ r.fs.inode_cache[at].dirty)
                              /\ r.ok /\ ~r.fs.inode_cache[at].dirty => need <= used
      <4>1. r.ok => need <= InodeNumBlks
        BY <2>1
      <4> QED
        BY <3>3, <3>4, <3>5, <3>6, <4>1
    <3> QED
      BY <3>7 DEF f, at, used, old, need, r, new
  <2>9. CASE ~(req = 0 \/ ~al.ok)
    <3> DEFINE g == MarkDirty(al.fs, at)
    <3>1. r = [ok |-> TRUE, fs |-> g]
      BY <1>2, <1>8, <2>9
    <3>2. /\ g \in FsStruct
          /\ g.inode_tab = al.fs.inode_tab /\ g.inode_bmap = al.fs.inode_bmap
          /\ g.blk_bmap = al.fs.blk_bmap /\ g.page = al.fs.page /\ g.dir_cache = al.fs.dir_cache
          /\ \A i \in ISlots : /\ g.inode_cache[i].num = al.fs.inode_cache[i].num
                               /\ g.inode_cache[i].inode = al.fs.inode_cache[i].inode
                               /\ i # at => g.inode_cache[i].dirty = al.fs.inode_cache[i].dirty
      BY <1>1, <2>3, MarkDirtyFields
    <3>3. at # TableRef => g.inode_cache[at].dirty
      BY <1>1, <2>3, MarkDirtyMarks
    <3>4. \A i \in ISlots \ {at} : g.inode_cache[i] = al.fs.inode_cache[i]
      <4>1. CASE at = TableRef
        BY <4>1 DEF MarkDirty
      <4>2. CASE at # TableRef
        <5> DEFINE c == [al.fs.inode_cache EXCEPT ![at].dirty = TRUE]
        <5>1. g = [al.fs EXCEPT !.inode_cache = c]
          BY <4>2 DEF MarkDirty
        <5>2. \A i \in ISlots \ {at} : c[i] = al.fs.inode_cache[i]
          BY <2>3, Fields
        <5> HIDE DEF c
        <5>3. g.inode_cache = c
          BY <2>3, <5>1 DEF FsStruct
        <5> QED
          BY <5>2, <5>3
      <4> QED
        BY <4>1, <4>2
    <3>5. at = TableRef => g.inode_cache = al.fs.inode_cache
      BY DEF MarkDirty
    <3> HIDE DEF g
    <3>6. r.ok = TRUE /\ r.fs = g
      BY <3>1
    <3>7. Deref(g, at, n) = mid
      BY <1>1, <3>2 DEF Deref
    <3>8. Allotted(f, g, at, n, used, InodeNumBlks)
      <4>1. OnlyInodes(f, g)
        BY <2>6, <3>2 DEF Allotted, OnlyInodes
      <4>2. OnlyBehind(f, g, at, n)
        BY <1>1, <2>6, <3>2, <3>4, <3>5 DEF Allotted, OnlyBehind
      <4> QED
        BY <2>6, <3>2, <3>7, <4>1, <4>2 DEF Allotted
    <3>9. \A j \in Indices : used <= j /\ j < need => new.blocks[j] # 0
      BY <2>7, <2>9, <3>6, <3>7 DEF new
    <3> QED
      BY <2>1, <3>3, <3>6, <3>8, <3>9 DEF f, at, used, old, need, r, new
  <2> QED
    BY <2>8, <2>9
<1> QED
  BY <1>7, <1>8

\* What setting the size of the inode behind a pointer does: the copy of the table goes into
\* the cache after that, dirty.
Resized(f, g, at, n, size) ==
    LET x == [Deref(f, at, n) EXCEPT !.size = size] IN
    /\ OnlyInodes(f, g) /\ g.blk_bmap = f.blk_bmap
    /\ at # TableRef => /\ OnlyBehind(f, g, at, n)
                        /\ g.inode_cache[at].inode = x /\ g.inode_cache[at].dirty
    /\ at = TableRef => \E h : /\ h.inode_tab = [f.inode_tab EXCEPT ![n] = x]
                               /\ h.inode_cache = f.inode_cache
                               /\ \E v \in ISlots : AddedAt(h, g, n, TRUE, v)

\* A copy of an inode with another size.
LEMMA ResizedInode ==
    ASSUME NEW x \in Inode, NEW size \in Nat
    PROVE  LET y == [x EXCEPT !.size = size] IN
           y \in Inode /\ y.type = x.type /\ y.blocks = x.blocks /\ y.size = size
BY DEF Inode

\* A new size, in the cached copy the thread points at or in a fresh one.
LEMMA SetSizeEffect ==
    ASSUME NEW f \in FsStruct, NEW n \in InodeNums, NEW at \in ISlots \cup {TableRef},
           NEW size \in Nat, now \in Nat
    PROVE  Resized(f, SetSize(f, at, n, size), at, n, size)
<1> DEFINE old == Deref(f, at, n)
           x == [old EXCEPT !.size = size]
           h == Store(f, at, n, x)
           g == IF at = TableRef THEN AddInode(h, n, TRUE, now) ELSE MarkDirty(h, at)
<1>1. SetSize(f, at, n, size) = g
  BY DEF SetSize
<1>2. x \in Inode
  BY DerefTyped, ResizedInode
<1> HIDE DEF x
<1>3. /\ h \in FsStruct
      /\ h.inode_bmap = f.inode_bmap /\ h.blk_bmap = f.blk_bmap
      /\ h.page = f.page /\ h.dir_cache = f.dir_cache
      /\ at = TableRef => /\ h.inode_tab = [f.inode_tab EXCEPT ![n] = x]
                          /\ h.inode_cache = f.inode_cache
      /\ at # TableRef => /\ h.inode_tab = f.inode_tab
                          /\ h.inode_cache[at].num = f.inode_cache[at].num
                          /\ h.inode_cache[at].dirty = f.inode_cache[at].dirty
                          /\ h.inode_cache[at].inode = x
                          /\ \A i \in ISlots \ {at} : h.inode_cache[i] = f.inode_cache[i]
  BY <1>2, StoreFields
<1> HIDE DEF h
<1>4. CASE at = TableRef
  <2> DEFINE k == AddInode(h, n, TRUE, now)
  <2>1. /\ k \in FsStruct
        /\ k.inode_bmap = h.inode_bmap /\ k.blk_bmap = h.blk_bmap
        /\ k.page = h.page /\ k.dir_cache = h.dir_cache
        /\ \E v \in ISlots : AddedAt(h, k, n, TRUE, v)
    BY <1>3, AddInodeFields
  <2>2. g = k
    BY <1>4
  <2> HIDE DEF g, k
  <2>3. OnlyInodes(f, g) /\ g.blk_bmap = f.blk_bmap
    BY <1>3, <2>1, <2>2 DEF OnlyInodes
  <2>4. Resized(f, g, at, n, size)
    BY <1>3, <1>4, <2>1, <2>2, <2>3 DEF Resized, x, old
  <2> QED
    BY <1>1, <2>4 DEF g
<1>5. CASE at # TableRef
  <2> DEFINE k == MarkDirty(h, at)
             c == [h.inode_cache EXCEPT ![at].dirty = TRUE]
  <2>1. at \in ISlots
    BY <1>5
  <2>2. /\ k \in FsStruct
        /\ k.inode_tab = h.inode_tab /\ k.inode_bmap = h.inode_bmap
        /\ k.blk_bmap = h.blk_bmap /\ k.page = h.page /\ k.dir_cache = h.dir_cache
        /\ k.inode_cache[at].num = h.inode_cache[at].num
        /\ k.inode_cache[at].inode = h.inode_cache[at].inode
    BY <1>3, <2>1, MarkDirtyFields
  <2>3. k.inode_cache[at].dirty
    BY <1>3, <2>1, MarkDirtyMarks
  <2>4. \A i \in ISlots \ {at} : k.inode_cache[i] = h.inode_cache[i]
    <3>1. k = [h EXCEPT !.inode_cache = c]
      BY <1>5 DEF MarkDirty
    <3>2. \A i \in ISlots \ {at} : c[i] = h.inode_cache[i]
      BY <1>3, Fields
    <3> HIDE DEF c, k
    <3>3. k.inode_cache = c
      BY <1>3, <3>1 DEF FsStruct
    <3> QED
      BY <3>2, <3>3
  <2>5. g = k
    BY <1>5
  <2> HIDE DEF g, k
  <2>6. OnlyInodes(f, g) /\ g.blk_bmap = f.blk_bmap
    BY <1>3, <2>2, <2>5 DEF OnlyInodes
  <2>7. OnlyBehind(f, g, at, n)
    BY <1>3, <1>5, <2>2, <2>4, <2>5 DEF OnlyBehind
  <2>8. Resized(f, g, at, n, size)
    BY <1>3, <1>5, <2>2, <2>3, <2>5, <2>6, <2>7 DEF Resized, x, old
  <2> QED
    BY <1>1, <2>8 DEF g
<1> QED
  BY <1>4, <1>5

\* A slot is filled without new copies: they are the table's, or were in a slot.
LEMMA AddedCopies ==
    ASSUME NEW f, NEW g, f.inode_tab \in [InodeNums -> Inode], NEW n \in InodeNums, NEW d,
           NEW v \in ISlots, AddedAt(f, g, n, d, v), NEW m \in InodeNums
    PROVE  /\ CopiesIn(g, m) \subseteq CopiesIn(f, m)
           /\ \/ g.inode_tab[m] = f.inode_tab[m]
              \/ /\ f.inode_cache[v].dirty /\ f.inode_cache[v].num = m
                 /\ g.inode_tab[m] = f.inode_cache[v].inode
<1>1. \/ g.inode_tab[m] = f.inode_tab[m]
      \/ /\ f.inode_cache[v].dirty /\ f.inode_cache[v].num = m
         /\ g.inode_tab[m] = f.inode_cache[v].inode
  BY DEF AddedAt
<1>2. g.inode_tab[m] \in CopiesIn(f, m)
  BY <1>1 DEF CopiesIn, CachedAt
<1>3. ASSUME NEW y \in CopiesIn(g, m)
      PROVE  y \in CopiesIn(f, m)
  <2>1. CASE y = g.inode_tab[m]
    BY <1>2, <2>1
  <2>2. CASE y # g.inode_tab[m]
    <3>1. PICK i \in CachedAt(g, m) : y = g.inode_cache[i].inode
      BY <2>2 DEF CopiesIn
    <3>2. i \in ISlots /\ g.inode_cache[i].num = m
      BY <3>1 DEF CachedAt
    <3>3. i # v
      BY <2>2, <3>1, <3>2 DEF AddedAt
    <3>4. i \in CachedAt(f, m) /\ y = f.inode_cache[i].inode
      BY <3>1, <3>2, <3>3 DEF AddedAt, CachedAt
    <3> QED
      BY <3>4 DEF CopiesIn
  <2> QED
    BY <2>1, <2>2
<1> QED
  BY <1>1, <1>3

-----------------------------------------------------------------------------
(* Where the copies of inodes come from.                                   *)

\* The copy y was x: of the same type, with a size that is x's or in S, and with x's blocks,
\* or, if B is for it, some of B instead.
Later(f, x, y, S, B, mine) ==
    /\ y.type = x.type
    /\ y.size = x.size \/ y.size \in S
    /\ \A i \in Indices : y.blocks[i] = x.blocks[i] \/ (mine /\ y.blocks[i] \in B)
    /\ Distinct(x) /\ BlocksOf(x) \subseteq f.blk_bmap /\ B \cap f.blk_bmap = {} => Distinct(y)

\* Every copy was one before, or is a new one of inode n in Y; S are the new sizes, and B are
\* the blocks that came to inode n.
Derived(f, g, n, S, B, Y) ==
    /\ B \subseteq Blocks /\ g.blk_bmap = f.blk_bmap \cup B
    /\ \A m \in InodeNums : \A y \in CopiesIn(g, m) :
          \/ m = n /\ y \in Y
          \/ \E x \in CopiesIn(f, m) : Later(f, x, y, S, B, m = n)

\* Nothing is done to a copy.
LEMMA LaterItself ==
    ASSUME NEW f, NEW x, NEW S, NEW B, NEW mine
    PROVE  Later(f, x, x, S, B, mine)
BY DEF Later

\* There are no copies that there were not before.
LEMMA DerivedFewer ==
    ASSUME NEW f, NEW g, NEW n, g.blk_bmap = f.blk_bmap,
           \A m \in InodeNums : CopiesIn(g, m) \subseteq CopiesIn(f, m)
    PROVE  \A S, Y : Derived(f, g, n, S, {}, Y)
BY LaterItself DEF Derived

\* The copies are the same.
LEMMA SameInodesFewer ==
    ASSUME NEW f, NEW g, SameInodes(f, g)
    PROVE  \A m \in InodeNums : CopiesIn(g, m) \subseteq CopiesIn(f, m)
BY DEF SameInodes, CopiesIn, CachedAt

\* Slots that keep their numbers hold no copy that was not there.
LEMMA SlotsAlikeFewer ==
    ASSUME NEW f, NEW g, SlotsAlike(f, g)
    PROVE  \A m \in InodeNums : CopiesIn(g, m) \subseteq CopiesIn(f, m)
BY DEF SlotsAlike, CopiesIn, CachedAt

\* An access adds nothing but copies that there are.
LEMMA AccessFewer ==
    ASSUME NEW f \in FsStruct, NEW n \in InodeNums, NEW t \in Nat, NEW m \in InodeNums
    PROVE  CopiesIn(Access(f, n, t).fs, m) \subseteq CopiesIn(f, m)
<1> DEFINE acc == Access(f, n, t)
<1>1. \/ SlotsAlike(f, acc.fs)
      \/ \E v \in ISlots : AddedAt(f, acc.fs, n, FALSE, v)
  BY AccessEffect
<1> HIDE DEF acc
<1>2. CASE SlotsAlike(f, acc.fs)
  BY <1>2, SlotsAlikeFewer DEF acc
<1>3. CASE \E v \in ISlots : AddedAt(f, acc.fs, n, FALSE, v)
  <2>1. PICK v \in ISlots : AddedAt(f, acc.fs, n, FALSE, v)
    BY <1>3
  <2>2. f.inode_tab \in [InodeNums -> Inode]
    BY Fields
  <2> QED
    BY <2>1, <2>2, AddedCopies DEF acc
<1> QED
  BY <1>1, <1>2, <1>3

\* Only the copy behind a pointer to inode n differs.
LEMMA BehindCopies ==
    ASSUME NEW f, NEW g, NEW n \in InodeNums, NEW at \in ISlots \cup {TableRef},
           OnlyBehind(f, g, at, n), NEW m \in InodeNums, NEW y \in CopiesIn(g, m)
    PROVE  \/ y \in CopiesIn(f, m)
           \/ /\ y = Deref(g, at, n) /\ Deref(f, at, n) \in CopiesIn(f, m)
              /\ (at = TableRef \/ f.inode_cache[at].num = n) => m = n
<1>1. CASE at = TableRef
  <2>1. CASE m = n /\ y = g.inode_tab[n]
    BY <1>1, <2>1 DEF Deref, CopiesIn
  <2>2. CASE ~(m = n /\ y = g.inode_tab[n])
    BY <1>1, <2>2 DEF OnlyBehind, CopiesIn, CachedAt
  <2> QED
    BY <2>1, <2>2
<1>2. CASE at # TableRef
  <2>1. at \in ISlots
    BY <1>2
  <2>2. CASE y = g.inode_tab[m]
    BY <1>2, <2>2 DEF OnlyBehind, CopiesIn
  <2>3. CASE y # g.inode_tab[m]
    <3>1. PICK i \in ISlots : g.inode_cache[i].num = m /\ y = g.inode_cache[i].inode
      BY <2>3 DEF CopiesIn, CachedAt
    <3>2. CASE i = at
      <4>1. f.inode_cache[at].num = m /\ y = Deref(g, at, n)
        BY <1>2, <3>1, <3>2 DEF OnlyBehind, Deref
      <4>2. Deref(f, at, n) \in CopiesIn(f, m)
        BY <1>2, <2>1, <4>1 DEF Deref, CopiesIn, CachedAt
      <4> QED
        BY <1>2, <4>1, <4>2
    <3>3. CASE i # at
      BY <1>2, <3>1, <3>3 DEF OnlyBehind, CopiesIn, CachedAt
    <3> QED
      BY <3>2, <3>3
  <2> QED
    BY <2>2, <2>3
<1> QED
  BY <1>1, <1>2

\* The blocks that are allotted come to inode n.
LEMMA AllottedDerived ==
    ASSUME NEW f \in FsStruct, NEW g, NEW n \in InodeNums, NEW at \in ISlots \cup {TableRef},
           NEW first, NEW last, Allotted(f, g, at, n, first, last),
           at # TableRef => f.inode_cache[at].num = n
    PROVE  Derived(f, g, n, {}, g.blk_bmap \ f.blk_bmap, {})
<1> DEFINE B == g.blk_bmap \ f.blk_bmap
           old == Deref(f, at, n)
           new == Deref(g, at, n)
<1>1. /\ g \in FsStruct /\ f.blk_bmap \subseteq g.blk_bmap /\ OnlyBehind(f, g, at, n)
      /\ new.type = old.type /\ new.size = old.size
      /\ \A j \in Indices : new.blocks[j] = old.blocks[j] \/ new.blocks[j] \in B
      /\ Distinct(old) /\ BlocksOf(old) \subseteq f.blk_bmap => Distinct(new)
  BY DEF Allotted, OnlyInodes
<1>2. g.blk_bmap \subseteq Blocks
  BY <1>1, Fields
<1>3. B \subseteq Blocks /\ g.blk_bmap = f.blk_bmap \cup B
  BY <1>1, <1>2
<1> HIDE DEF B, old, new
<1>4. Later(f, old, new, {}, B, TRUE)
  BY <1>1 DEF Later
<1>5. ASSUME NEW m \in InodeNums, NEW y \in CopiesIn(g, m)
      PROVE  \E x \in CopiesIn(f, m) : Later(f, x, y, {}, B, m = n)
  <2>1. CASE y \in CopiesIn(f, m)
    BY <2>1, LaterItself
  <2>2. CASE y = new /\ old \in CopiesIn(f, m) /\ m = n
    BY <1>4, <2>2
  <2> QED
    BY <1>1, <1>5, <2>1, <2>2, BehindCopies DEF old, new
<1>6. Derived(f, g, n, {}, B, {})
  BY <1>3, <1>5 DEF Derived
<1> QED
  BY <1>6 DEF B

\* After a change that adds no copy.
LEMMA DerivedAfter ==
    ASSUME NEW f, NEW g, NEW h, g.blk_bmap = f.blk_bmap,
           \A m \in InodeNums : CopiesIn(g, m) \subseteq CopiesIn(f, m),
           NEW n, NEW S, NEW B, NEW Y, Derived(g, h, n, S, B, Y)
    PROVE  Derived(f, h, n, S, B, Y)
BY DEF Derived, Later

\* Before a change that adds no copy.
LEMMA DerivedBefore ==
    ASSUME NEW f, NEW g, NEW h, h.blk_bmap = g.blk_bmap,
           \A m \in InodeNums : CopiesIn(h, m) \subseteq CopiesIn(g, m),
           NEW n, NEW S, NEW B, NEW Y, Derived(f, g, n, S, B, Y)
    PROVE  Derived(f, h, n, S, B, Y)
BY DEF Derived

\* The inode in the table is replaced.
LEMMA TableDerived ==
    ASSUME NEW f, NEW g, f.inode_tab \in [InodeNums -> Inode], NEW n \in InodeNums, NEW x,
           g.inode_tab = [f.inode_tab EXCEPT ![n] = x], g.inode_cache = f.inode_cache,
           NEW S, NEW B \in SUBSET Blocks, g.blk_bmap = f.blk_bmap \cup B, NEW Y,
           x \in Y \/ Later(f, f.inode_tab[n], x, S, B, TRUE)
    PROVE  Derived(f, g, n, S, B, Y)
<1>1. ASSUME NEW m \in InodeNums, NEW y \in CopiesIn(g, m)
      PROVE  \/ m = n /\ y \in Y
             \/ \E z \in CopiesIn(f, m) : Later(f, z, y, S, B, m = n)
  <2>1. CASE y = x /\ m = n
    BY <2>1 DEF CopiesIn
  <2>2. CASE ~(y = x /\ m = n)
    <3>1. y \in CopiesIn(f, m)
      BY <2>2 DEF CopiesIn, CachedAt
    <3> QED
      BY <3>1, LaterItself
  <2> QED
    BY <2>1, <2>2
<1> QED
  BY <1>1 DEF Derived

\* A new size is set.
LEMMA ResizedDerived ==
    ASSUME NEW f \in FsStruct, NEW g, NEW n \in InodeNums, NEW at \in ISlots \cup {TableRef},
           NEW size \in Nat, Resized(f, g, at, n, size)
    PROVE  Derived(f, g, n, {size}, {}, {})
<1> DEFINE old == Deref(f, at, n)
           x == [old EXCEPT !.size = size]
<1>1. old \in Inode
  BY DerefTyped
<1>2. x \in Inode /\ x.type = old.type /\ x.blocks = old.blocks /\ x.size = size
  BY <1>1, ResizedInode
<1>3. Later(f, old, x, {size}, {}, TRUE) /\ Later(f, old, x, {size}, {}, FALSE)
  BY <1>2 DEF Later, Distinct
<1>4. g.blk_bmap = f.blk_bmap
  BY DEF Resized
<1>5. f.inode_tab \in [InodeNums -> Inode]
  BY Fields
<1>6. CASE at = TableRef
  <2>1. PICK h : /\ h.inode_tab = [f.inode_tab EXCEPT ![n] = x]
                 /\ h.inode_cache = f.inode_cache
                 /\ \E v \in ISlots : AddedAt(h, g, n, TRUE, v)
    BY <1>6 DEF Resized
  <2>2. PICK v \in ISlots : AddedAt(h, g, n, TRUE, v)
    BY <2>1
  <2>3. old = f.inode_tab[n]
    BY <1>6 DEF Deref
  <2> HIDE DEF x, old
  <2>4. h.inode_tab \in [InodeNums -> Inode]
    BY <1>2, <1>5, <2>1
  <2>5. ASSUME NEW m \in InodeNums, NEW y \in CopiesIn(g, m)
        PROVE  \E z \in CopiesIn(f, m) : Later(f, z, y, {size}, {}, m = n)
    <3>1. y \in CopiesIn(h, m)
      BY <2>2, <2>4, AddedCopies
    <3>2. CASE y = x /\ m = n
      BY <1>3, <2>3, <3>2 DEF CopiesIn
    <3>3. CASE ~(y = x /\ m = n)
      <4>1. y \in CopiesIn(f, m)
        BY <1>5, <2>1, <3>1, <3>3 DEF CopiesIn, CachedAt
      <4> QED
        BY <4>1, LaterItself
    <3> QED
      BY <3>2, <3>3
  <2> QED
    BY <1>4, <2>5 DEF Derived
<1>7. CASE at # TableRef
  <2>1. OnlyBehind(f, g, at, n) /\ Deref(g, at, n) = x
    BY <1>7 DEF Resized, Deref
  <2> HIDE DEF x, old
  <2>2. ASSUME NEW m \in InodeNums, NEW y \in CopiesIn(g, m)
        PROVE  \E z \in CopiesIn(f, m) : Later(f, z, y, {size}, {}, m = n)
    <3>1. CASE y \in CopiesIn(f, m)
      BY <3>1, LaterItself
    <3>2. CASE y = x /\ old \in CopiesIn(f, m)
      <4>1. CASE m = n
        BY <1>3, <3>2, <4>1
      <4>2. CASE m # n
        BY <1>3, <3>2, <4>2
      <4> QED
        BY <4>1, <4>2
    <3> QED
      <4>1. \/ y \in CopiesIn(f, m)
            \/ y = Deref(g, at, n) /\ Deref(f, at, n) \in CopiesIn(f, m)
        BY <2>1, <2>2, BehindCopies
      <4> QED
        BY <2>1, <3>1, <3>2, <4>1 DEF old
  <2> QED
    BY <1>4, <2>2 DEF Derived
<1> QED
  BY <1>6, <1>7

-----------------------------------------------------------------------------
(* The inode cache, when pointers outlive the mutex.                       *)

\* A cached copy is of the type that the table has, or was taken before the inode was
\* initialised; only copies of files are dirty.
KindsCached(f) ==
    \A i \in ISlots : LET e == f.inode_cache[i] IN
        /\ e.inode.type \in {"none", f.inode_tab[e.num].type}
        /\ e.dirty => e.inode.type = "file"

\* Every copy has blocks for its size.
Covers(f) == \A n \in InodeNums : \A x \in CopiesIn(f, n) : Covered(x)

\* The size of a clean copy of a file fits every other copy.
CleanFits(f) ==
    \A i \in ISlots : LET e == f.inode_cache[i] IN
        ~e.dirty /\ e.inode.type = "file" => \A x \in CopiesIn(f, e.num) : Fits(x, e.inode.size)

FilesInv(f) == f \in FsStruct /\ KindsCached(f) /\ Covers(f) /\ CleanFits(f)

\* What a pointer to slot i relies on: as long as the slot is for that inode, it has blocks
\* for what it had blocks for, and is dirty or as large as before.
SlotStays(f, g, i) ==
    LET e == f.inode_cache[i]
        h == g.inode_cache[i]
    IN e.inode.type = "file" /\ h.num = e.num =>
          /\ h.inode.type = "file"
          /\ h.dirty \/ (~e.dirty /\ h.inode.size = e.inode.size)
          /\ \A s \in Nat : /\ Fits(e.inode, s)
                            /\ ~e.dirty => OffsetToBlocks(s) <= OffsetToBlocks(e.inode.size)
                            => Fits(h.inode, s)

FilesStep(f, g) == FilesInv(g) /\ FileStep(f, g) /\ \A i \in ISlots : SlotStays(f, g, i)

\* A copy that has more blocks fits what the other one fits.
LEMMA FitsMore ==
    ASSUME NEW x, NEW y, \A i \in Indices : x.blocks[i] # 0 => y.blocks[i] # 0
    PROVE  \A s : Fits(x, s) => Fits(y, s)
BY DEF Fits

\* What fits a size fits a smaller one.
LEMMA FitsLess ==
    ASSUME NEW x, NEW s \in Nat, NEW t \in Nat, OffsetToBlocks(t) <= OffsetToBlocks(s), Fits(x, s)
    PROVE  Fits(x, t)
<1>1. OffsetToBlocks(t) \in Nat /\ OffsetToBlocks(s) \in Nat /\ InodeNumBlks \in Nat
  BY CeilLess, InodesAssumption
<1>2. OffsetToBlocks(t) <= InodeNumBlks
  BY <1>1 DEF Fits
<1>3. ASSUME NEW i \in Indices, i < OffsetToBlocks(t)
      PROVE  x.blocks[i] # 0
  <2>1. i < OffsetToBlocks(s)
    BY <1>1, <1>3, Sizes
  <2> QED
    BY <2>1 DEF Fits
<1> QED
  BY <1>2, <1>3 DEF Fits

\* A slot that keeps its inode and its mark.
LEMMA SlotSame ==
    ASSUME NEW f, NEW g, f \in FsStruct, NEW i \in ISlots,
           g.inode_cache[i].inode = f.inode_cache[i].inode,
           g.inode_cache[i].dirty = f.inode_cache[i].dirty
    PROVE  SlotStays(f, g, i)
<1>1. f.inode_cache[i].dirty \in BOOLEAN
  BY Fields, InodeEntryFields
<1> QED
  BY <1>1 DEF SlotStays

\* Access times do not matter.
LEMMA AlikeFiles ==
    ASSUME NEW f, FilesInv(f), NEW g, OnlyInodes(f, g), SlotsAlike(f, g)
    PROVE  FilesStep(f, g)
<1>1. g \in FsStruct /\ f \in FsStruct
  BY DEF OnlyInodes, FilesInv
<1>2. \A m \in InodeNums : CopiesIn(g, m) \subseteq CopiesIn(f, m)
  BY SlotsAlikeFewer
<1>3. \A i \in ISlots : f.inode_cache[i].num \in InodeNums
  BY <1>1, Fields, InodeEntryFields
<1>4. KindsCached(g)
  BY DEF KindsCached, SlotsAlike, FilesInv
<1>5. Covers(g)
  BY <1>2 DEF Covers, FilesInv
<1>6. CleanFits(g)
  BY <1>2, <1>3 DEF CleanFits, SlotsAlike, FilesInv
<1>7. FileStep(f, g)
  BY DEF FileStep, OnlyInodes, SlotsAlike
<1>8. \A i \in ISlots : SlotStays(f, g, i)
  BY <1>1, SlotSame DEF SlotsAlike
<1> QED
  BY <1>1, <1>4, <1>5, <1>6, <1>7, <1>8 DEF FilesInv, FilesStep

\* A slot is filled: with a clean copy of an inode that no slot has, or a dirty one of a file.
LEMMA AddedFiles ==
    ASSUME NEW f, FilesInv(f), NEW g, OnlyInodes(f, g), NEW n \in InodeNums, NEW d \in BOOLEAN,
           NEW v \in ISlots, AddedAt(f, g, n, d, v),
           d => f.inode_tab[n].type = "file", ~d => CachedAt(f, n) = {}
    PROVE  FilesStep(f, g)
<1> DEFINE old == f.inode_cache[v]
<1>1. g \in FsStruct /\ f \in FsStruct
  BY DEF OnlyInodes, FilesInv
<1>2. /\ f.inode_tab \in [InodeNums -> Inode] /\ g.inode_tab \in [InodeNums -> Inode]
      /\ \A i \in ISlots : /\ f.inode_cache[i] \in InodeEntry /\ f.inode_cache[i].num \in InodeNums
                           /\ f.inode_cache[i].dirty \in BOOLEAN /\ f.inode_cache[i].inode \in Inode
  BY <1>1, Fields, InodeEntryFields
<1>3. /\ g.inode_tab = IF old.dirty THEN [f.inode_tab EXCEPT ![old.num] = old.inode] ELSE f.inode_tab
      /\ g.inode_cache[v].num = n
      /\ g.inode_cache[v].inode = g.inode_tab[n]
      /\ g.inode_cache[v].dirty = d
      /\ \A i \in ISlots \ {v} : g.inode_cache[i] = f.inode_cache[i]
  BY DEF AddedAt
<1>4. old.dirty => old.inode.type = "file" /\ f.inode_tab[old.num].type = "file"
  BY DEF FilesInv, KindsCached
<1>5. \A m \in InodeNums :
          /\ CopiesIn(g, m) \subseteq CopiesIn(f, m)
          /\ \/ g.inode_tab[m] = f.inode_tab[m]
             \/ old.dirty /\ old.num = m /\ g.inode_tab[m] = old.inode
  BY <1>2, AddedCopies
<1>6. \A m \in InodeNums : g.inode_tab[m].type = f.inode_tab[m].type
  BY <1>4, <1>5
<1>7. FileStep(f, g)
  <2>1. \A m \in InodeNums : f.inode_tab[m].type = "dir" => g.inode_tab[m] = f.inode_tab[m]
    BY <1>4, <1>5
  <2> QED
    BY <1>6, <2>1 DEF FileStep, OnlyInodes
<1>8. KindsCached(g)
  <2>1. ASSUME NEW i \in ISlots
        PROVE  /\ g.inode_cache[i].inode.type \in {"none", g.inode_tab[g.inode_cache[i].num].type}
               /\ g.inode_cache[i].dirty => g.inode_cache[i].inode.type = "file"
    <3>1. CASE i = v
      BY <1>3, <1>6, <3>1
    <3>2. CASE i # v
      <4>1. g.inode_cache[i] = f.inode_cache[i]
        BY <1>3, <3>2
      <4> QED
        BY <1>2, <1>6, <4>1 DEF FilesInv, KindsCached
    <3> QED
      BY <3>1, <3>2
  <2> QED
    BY <2>1 DEF KindsCached
<1>9. Covers(g)
  BY <1>5 DEF Covers, FilesInv
<1>10. CleanFits(g)
  <2>1. ASSUME NEW i \in ISlots, ~g.inode_cache[i].dirty, g.inode_cache[i].inode.type = "file",
               NEW x \in CopiesIn(g, g.inode_cache[i].num)
        PROVE  Fits(x, g.inode_cache[i].inode.size)
    <3>1. CASE i = v
      <4>1. CachedAt(f, n) = {}
        BY <1>3, <2>1, <3>1
      <4>2. CopiesIn(f, n) = {f.inode_tab[n]}
        BY <4>1 DEF CopiesIn
      <4>3. x \in CopiesIn(f, n) /\ g.inode_tab[n] \in CopiesIn(f, n)
        BY <1>3, <1>5, <2>1, <3>1 DEF CopiesIn
      <4>4. Covered(f.inode_tab[n])
        BY <4>2 DEF FilesInv, Covers
      <4> QED
        BY <1>3, <3>1, <4>2, <4>3, <4>4 DEF Covered, Fits
    <3>2. CASE i # v
      <4>1. g.inode_cache[i] = f.inode_cache[i]
        BY <1>3, <3>2
      <4>2. x \in CopiesIn(f, f.inode_cache[i].num)
        BY <1>2, <1>5, <2>1, <4>1
      <4> QED
        BY <2>1, <4>1, <4>2 DEF FilesInv, CleanFits
    <3> QED
      BY <3>1, <3>2
  <2> QED
    BY <2>1 DEF CleanFits
<1>11. ASSUME NEW i \in ISlots
       PROVE  SlotStays(f, g, i)
  <2>1. CASE i # v
    BY <1>1, <1>3, <2>1, SlotSame
  <2>2. CASE i = v
    <3>1. SUFFICES ASSUME old.inode.type = "file", n = old.num
                   PROVE  /\ g.inode_tab[n].type = "file" /\ d
                          /\ \A s \in Nat : /\ Fits(old.inode, s)
                                            /\ ~old.dirty => OffsetToBlocks(s) <= OffsetToBlocks(old.inode.size)
                                            => Fits(g.inode_tab[n], s)
      <4> HIDE DEF old
      <4> QED
        BY <1>3, <2>2 DEF SlotStays, old
    <3>2. v \in CachedAt(f, n)
      BY <3>1 DEF CachedAt
    <3>3. d
      BY <3>2
    <3>4. g.inode_tab[n].type = "file"
      BY <1>6, <3>3
    <3>5. ASSUME NEW s \in Nat, Fits(old.inode, s),
                 ~old.dirty => OffsetToBlocks(s) <= OffsetToBlocks(old.inode.size)
          PROVE  Fits(g.inode_tab[n], s)
      <4>1. CASE old.dirty
        BY <1>2, <1>3, <3>1, <3>5, <4>1
      <4>2. CASE ~old.dirty
        <5>1. f.inode_tab[n] \in CopiesIn(f, n)
          BY DEF CopiesIn
        <5>2. Fits(f.inode_tab[n], old.inode.size)
          BY <3>1, <4>2, <5>1 DEF FilesInv, CleanFits
        <5>3. old.inode.size \in Nat
          BY <1>2, InodeFields
        <5>4. Fits(f.inode_tab[n], s)
          BY <3>5, <4>2, <5>2, <5>3, FitsLess
        <5> QED
          BY <1>3, <4>2, <5>4
      <4> QED
        BY <4>1, <4>2
    <3> QED
      BY <3>3, <3>4, <3>5
  <2> QED
    BY <2>1, <2>2
<1> QED
  BY <1>1, <1>7, <1>8, <1>9, <1>10, <1>11 DEF FilesInv, FilesStep

\* The copy of a file behind a pointer gets blocks, or a size that it has blocks for.
LEMMA BehindFiles ==
    ASSUME NEW f, FilesInv(f), NEW g, OnlyInodes(f, g), NEW n \in InodeNums,
           NEW at \in ISlots \cup {TableRef}, OnlyBehind(f, g, at, n),
           at # TableRef => f.inode_cache[at].num = n,
           Deref(f, at, n).type = "file", Deref(g, at, n).type = "file",
           \A i \in Indices : Deref(f, at, n).blocks[i] # 0 => Deref(g, at, n).blocks[i] # 0,
           Covered(Deref(g, at, n)),
           at # TableRef => \/ g.inode_cache[at].dirty
                            \/ ~f.inode_cache[at].dirty /\ Deref(g, at, n).size = Deref(f, at, n).size
    PROVE  FilesStep(f, g)
<1> DEFINE x == Deref(f, at, n)
           y == Deref(g, at, n)
<1>1. g \in FsStruct /\ f \in FsStruct
  BY DEF OnlyInodes, FilesInv
<1>2. /\ f.inode_tab \in [InodeNums -> Inode] /\ g.inode_tab \in [InodeNums -> Inode]
      /\ \A i \in ISlots : /\ f.inode_cache[i].num \in InodeNums
                           /\ f.inode_cache[i].dirty \in BOOLEAN /\ f.inode_cache[i].inode \in Inode
                           /\ g.inode_cache[i].dirty \in BOOLEAN /\ g.inode_cache[i].inode \in Inode
  BY <1>1, Fields, InodeEntryFields
<1>3. /\ at = TableRef => /\ g.inode_cache = f.inode_cache /\ x = f.inode_tab[n] /\ y = g.inode_tab[n]
                          /\ \A m \in InodeNums \ {n} : g.inode_tab[m] = f.inode_tab[m]
      /\ at # TableRef => /\ at \in ISlots /\ g.inode_tab = f.inode_tab
                          /\ x = f.inode_cache[at].inode /\ y = g.inode_cache[at].inode
                          /\ f.inode_cache[at].num = n /\ g.inode_cache[at].num = n
                          /\ \A i \in ISlots \ {at} : g.inode_cache[i] = f.inode_cache[i]
  BY DEF OnlyBehind, Deref
<1>4. \A m \in InodeNums : \A z \in CopiesIn(g, m) :
          z \in CopiesIn(f, m) \/ (z = y /\ x \in CopiesIn(f, m))
  BY BehindCopies
<1>5. \A s : Fits(x, s) => Fits(y, s)
  BY FitsMore
<1>6. x.type = "file" /\ y.type = "file" /\ Covered(y)
  OBVIOUS
<1> HIDE DEF x, y
<1>7. \A m \in InodeNums : g.inode_tab[m].type = f.inode_tab[m].type
  BY <1>3, <1>6
<1>8. FileStep(f, g)
  <2>1. \A m \in InodeNums : f.inode_tab[m].type = "dir" => g.inode_tab[m] = f.inode_tab[m]
    BY <1>3, <1>6
  <2> QED
    BY <1>7, <2>1 DEF FileStep, OnlyInodes
<1>9. \A i \in ISlots : g.inode_cache[i].num = f.inode_cache[i].num
                        /\ g.inode_cache[i].inode.type = f.inode_cache[i].inode.type
  BY <1>3, <1>6
<1>10. KindsCached(g)
  <2>1. ASSUME NEW i \in ISlots
        PROVE  /\ g.inode_cache[i].inode.type \in {"none", g.inode_tab[g.inode_cache[i].num].type}
               /\ g.inode_cache[i].dirty => g.inode_cache[i].inode.type = "file"
    <3>1. CASE at # TableRef /\ i = at
      BY <1>2, <1>3, <1>6, <1>7, <1>9, <3>1 DEF FilesInv, KindsCached
    <3>2. CASE ~(at # TableRef /\ i = at)
      <4>1. g.inode_cache[i] = f.inode_cache[i]
        BY <1>3, <3>2
      <4> QED
        BY <1>2, <1>7, <4>1 DEF FilesInv, KindsCached
    <3> QED
      BY <3>1, <3>2
  <2> QED
    BY <2>1 DEF KindsCached
<1>11. Covers(g)
  BY <1>4, <1>6 DEF Covers, FilesInv
<1>12. CleanFits(g)
  <2>1. ASSUME NEW i \in ISlots, ~g.inode_cache[i].dirty, g.inode_cache[i].inode.type = "file",
               NEW z \in CopiesIn(g, g.inode_cache[i].num)
        PROVE  Fits(z, g.inode_cache[i].inode.size)
    <3>1. /\ ~f.inode_cache[i].dirty /\ f.inode_cache[i].inode.type = "file"
          /\ f.inode_cache[i].inode.size = g.inode_cache[i].inode.size
      <4>1. CASE at # TableRef /\ i = at
        BY <1>3, <1>6, <2>1, <4>1 DEF x, y
      <4>2. CASE ~(at # TableRef /\ i = at)
        BY <1>3, <2>1, <4>2
      <4> QED
        BY <4>1, <4>2
    <3>2. \A w \in CopiesIn(f, f.inode_cache[i].num) : Fits(w, f.inode_cache[i].inode.size)
      BY <3>1 DEF FilesInv, CleanFits
    <3>3. f.inode_cache[i].num \in InodeNums /\ z \in CopiesIn(g, f.inode_cache[i].num)
      BY <1>2, <1>9, <2>1
    <3> QED
      BY <1>4, <1>5, <3>1, <3>2, <3>3
  <2> QED
    BY <2>1 DEF CleanFits
<1>13. ASSUME NEW i \in ISlots
       PROVE  SlotStays(f, g, i)
  <2>1. CASE at # TableRef /\ i = at
    <3>1. f.inode_cache[i].inode = x /\ g.inode_cache[i].inode = y
      BY <1>3, <2>1
    <3>2. g.inode_cache[i].dirty \/ (~f.inode_cache[i].dirty /\ y.size = x.size)
      BY <2>1 DEF x, y
    <3> QED
      BY <1>5, <1>6, <3>1, <3>2 DEF SlotStays
  <2>2. CASE ~(at # TableRef /\ i = at)
    <3>1. g.inode_cache[i] = f.inode_cache[i]
      BY <1>3, <2>2
    <3> QED
      BY <1>1, <3>1, SlotSame
  <2> QED
    BY <2>1, <2>2
<1> QED
  BY <1>1, <1>8, <1>10, <1>11, <1>12, <1>13 DEF FilesInv, FilesStep

\* Two such steps are one, if no slot gets another inode in between only.
LEMMA FilesStepOn ==
    ASSUME NEW f, NEW g, NEW h, FilesInv(f), FilesStep(f, g), FilesStep(g, h),
           \A i \in ISlots : g.inode_cache[i].num \in {f.inode_cache[i].num, h.inode_cache[i].num}
    PROVE  FilesStep(f, h)
<1>1. FileStep(f, h) /\ FilesInv(h)
  BY FileStepOn DEF FilesStep
<1>2. ASSUME NEW i \in ISlots
      PROVE  SlotStays(f, h, i)
  <2> DEFINE e == f.inode_cache[i]
             m == g.inode_cache[i]
             l == h.inode_cache[i]
  <2>1. SUFFICES ASSUME e.inode.type = "file", l.num = e.num
                 PROVE  /\ l.inode.type = "file"
                        /\ l.dirty \/ (~e.dirty /\ l.inode.size = e.inode.size)
                        /\ \A s \in Nat : /\ Fits(e.inode, s)
                                          /\ ~e.dirty => OffsetToBlocks(s) <= OffsetToBlocks(e.inode.size)
                                          => Fits(l.inode, s)
    BY DEF SlotStays
  <2>2. m.num = e.num /\ l.num = m.num
    BY <1>2, <2>1
  <2>3. /\ m.inode.type = "file"
        /\ m.dirty \/ (~e.dirty /\ m.inode.size = e.inode.size)
        /\ \A s \in Nat : /\ Fits(e.inode, s)
                          /\ ~e.dirty => OffsetToBlocks(s) <= OffsetToBlocks(e.inode.size)
                          => Fits(m.inode, s)
    BY <1>2, <2>1, <2>2 DEF FilesStep, SlotStays
  <2>4. /\ l.inode.type = "file"
        /\ l.dirty \/ (~m.dirty /\ l.inode.size = m.inode.size)
        /\ \A s \in Nat : /\ Fits(m.inode, s)
                          /\ ~m.dirty => OffsetToBlocks(s) <= OffsetToBlocks(m.inode.size)
                          => Fits(l.inode, s)
    BY <1>2, <2>2, <2>3 DEF FilesStep, SlotStays
  <2> HIDE DEF e, m, l
  <2> QED
    BY <2>3, <2>4
<1> QED
  BY <1>1, <1>2 DEF FilesStep

\* Nothing happens.
LEMMA FilesStepItself ==
    ASSUME NEW f, FilesInv(f)
    PROVE  FilesStep(f, f)
<1>1. f \in FsStruct
  BY DEF FilesInv
<1> QED
  BY <1>1, SlotSame, FileStepItself DEF FilesStep

\* The access to an inode at the beginning of a request and at its end.
LEMMA AccessFiles ==
    ASSUME NEW f, FilesInv(f), NEW n \in InodeNums, NEW t \in Nat
    PROVE  FilesStep(f, Access(f, n, t).fs)
<1> DEFINE g == Access(f, n, t).fs
<1>1. f \in FsStruct
  BY DEF FilesInv
<1>2. /\ OnlyInodes(f, g)
      /\ \/ SlotsAlike(f, g)
         \/ CachedAt(f, n) = {} /\ \E v \in ISlots : AddedAt(f, g, n, FALSE, v)
  BY <1>1, AccessEffect
<1> HIDE DEF g
<1>3. FilesStep(f, g)
  BY <1>2, AlikeFiles, AddedFiles
<1> QED
  BY <1>3 DEF g

\* The blocks that a write reserves.
LEMMA AllottedFiles ==
    ASSUME NEW f, FilesInv(f), NEW g, NEW n \in InodeNums,
           NEW at \in ISlots \cup {TableRef}, at # TableRef => f.inode_cache[at].num = n,
           NEW first, NEW last, Allotted(f, g, at, n, first, last), Deref(f, at, n).type = "file",
           at # TableRef => g.inode_cache[at].dirty = f.inode_cache[at].dirty \/ g.inode_cache[at].dirty
    PROVE  FilesStep(f, g)
<1> DEFINE x == Deref(f, at, n)
           y == Deref(g, at, n)
<1>1. f \in FsStruct /\ g \in FsStruct /\ x \in Inode
  BY DerefTyped DEF FilesInv, Allotted, OnlyInodes
<1>2. /\ OnlyInodes(f, g) /\ OnlyBehind(f, g, at, n) /\ y.type = "file" /\ y.size = x.size
      /\ \A j \in Indices : y.blocks[j] = x.blocks[j] \/ y.blocks[j] \in g.blk_bmap
  BY DEF Allotted
<1>3. x \in CopiesIn(f, n)
  BY DEF Deref, CopiesIn, CachedAt
<1>4. Fits(x, x.size)
  BY <1>3 DEF FilesInv, Covers, Covered, Fits
<1>5. 0 \notin g.blk_bmap
  BY <1>1, Fields, Sizes
<1>6. \A j \in Indices : x.blocks[j] # 0 => y.blocks[j] # 0
  BY <1>2, <1>5
<1>7. x.type = "file"
  OBVIOUS
<1>8. at # TableRef => g.inode_cache[at].dirty \in BOOLEAN /\ f.inode_cache[at].dirty \in BOOLEAN
  BY <1>1, Fields, InodeEntryFields
<1>9. at # TableRef => g.inode_cache[at].dirty \/ ~f.inode_cache[at].dirty
  BY <1>8
<1>10. Fits(y, y.size)
  <2> HIDE DEF x, y
  <2> QED
    BY <1>2, <1>4, <1>6, FitsMore
<1>11. Covered(y)
  BY <1>10 DEF Covered, Fits
<1> QED
  BY <1>2, <1>6, <1>7, <1>9, <1>11, BehindFiles

\* The new size that a write sets.
LEMMA ResizedFiles ==
    ASSUME NEW f, FilesInv(f), NEW g, NEW n \in InodeNums,
           NEW at \in ISlots \cup {TableRef}, at # TableRef => f.inode_cache[at].num = n,
           NEW size \in Nat, Resized(f, g, at, n, size), Deref(f, at, n).type = "file",
           f.inode_tab[n].type = "file", Fits(Deref(f, at, n), size)
    PROVE  FilesStep(f, g)
<1> DEFINE old == Deref(f, at, n)
           x == [old EXCEPT !.size = size]
<1>1. f \in FsStruct /\ old \in Inode /\ OnlyInodes(f, g) /\ g.blk_bmap = f.blk_bmap
  BY DerefTyped DEF FilesInv, Resized
<1>2. x \in Inode /\ x.type = "file" /\ x.blocks = old.blocks /\ x.size = size
  BY <1>1, ResizedInode
<1>3. Covered(x)
  <2> HIDE DEF x
  <2> QED
    BY <1>2 DEF Covered, Fits
<1>4. CASE at # TableRef
  <2>1. OnlyBehind(f, g, at, n) /\ g.inode_cache[at].inode = x /\ g.inode_cache[at].dirty
    BY <1>4 DEF Resized
  <2>2. Deref(g, at, n) = x
    BY <1>4, <2>1 DEF Deref
  <2> HIDE DEF x
  <2> QED
    BY <1>1, <1>2, <1>3, <2>1, <2>2, BehindFiles
<1>5. CASE at = TableRef
  <2>1. PICK h0 : /\ h0.inode_tab = [f.inode_tab EXCEPT ![n] = x]
                  /\ h0.inode_cache = f.inode_cache
                  /\ \E v \in ISlots : AddedAt(h0, g, n, TRUE, v)
    BY <1>5 DEF Resized
  <2> DEFINE tab == [f.inode_tab EXCEPT ![n] = x]
             h == [f EXCEPT !.inode_tab = tab]
  <2>2. PICK v \in ISlots : AddedAt(h0, g, n, TRUE, v)
    BY <2>1
  <2> HIDE DEF x
  <2>3. tab \in [InodeNums -> Inode] /\ tab[n] = x /\ \A m \in InodeNums \ {n} : tab[m] = f.inode_tab[m]
    BY <1>1, <1>2, Fields
  <2> HIDE DEF tab
  <2>4. /\ h \in FsStruct /\ h.inode_tab = tab /\ h.inode_cache = f.inode_cache
        /\ h.inode_bmap = f.inode_bmap /\ h.page = f.page /\ h.dir_cache = f.dir_cache
        /\ h.blk_bmap = f.blk_bmap
    BY <1>1, <2>3 DEF FsStruct
  <2>5. h0.inode_tab = h.inode_tab /\ h0.inode_cache = h.inode_cache
    BY <2>1, <2>4 DEF tab
  <2> HIDE DEF h
  <2>6. AddedAt(h, g, n, TRUE, v)
    BY <2>2, <2>5 DEF AddedAt
  <2>7. OnlyInodes(f, h) /\ OnlyBehind(f, h, at, n) /\ Deref(h, at, n) = x
    BY <1>5, <2>3, <2>4 DEF OnlyInodes, OnlyBehind, Deref
  <2>8. FilesStep(f, h)
    BY <1>2, <1>3, <1>5, <2>7, BehindFiles
  <2>9. OnlyInodes(h, g)
    BY <1>1, <2>4 DEF OnlyInodes
  <2>10. FilesStep(h, g)
    BY <1>2, <2>3, <2>4, <2>6, <2>8, <2>9, AddedFiles DEF FilesStep
  <2> QED
    BY <2>4, <2>8, <2>10, FilesStepOn
<1> QED
  BY <1>4, <1>5

-----------------------------------------------------------------------------
(* Directories, their pages, and the cache of pages.                       *)

\* A change to the directory cache alone leaves all directories as they were.
LEMMA SameDirs ==
    ASSUME NEW f, NEW g, SameInodes(f, g)
    PROVE  DirsIn(g) = DirsIn(f) /\ \A d : EntriesIn(g, d) = EntriesIn(f, d)
<1>1. DirsIn(g) = DirsIn(f)
  BY DEF SameInodes, DirsIn
<1>2. \A x, i : PlaceIn(g, x, i) = PlaceIn(f, x, i)
  BY DEF SameInodes, PlaceIn
<1>3. g.inode_tab = f.inode_tab
  BY DEF SameInodes
<1>4. \A d : EntriesIn(g, d) = EntriesIn(f, d)
  BY <1>2, <1>3 DEF EntriesIn
<1> QED
  BY <1>1, <1>4

\* No change is a change to the directory cache alone.
LEMMA SameInodesItself ==
    ASSUME NEW f \in FsStruct
    PROVE  SameInodes(f, f)
BY DEF SameInodes

\* Two changes to the directory cache alone are one.
LEMMA SameInodesOn ==
    ASSUME NEW f, NEW g, NEW h, SameInodes(f, g), SameInodes(g, h)
    PROVE  SameInodes(f, h)
BY DEF SameInodes

\* A directory is an inode in use with blocks for all its entries.
LEMMA DirFacts ==
    ASSUME NEW f, FsInv(f), NEW d \in DirsIn(f)
    PROVE  /\ d \in InodeNums /\ d # 0 /\ d \in f.inode_bmap
           /\ f.inode_tab[d] \in Inode
           /\ NumOf(f.inode_tab[d]) \in Nat
           /\ f.inode_tab[d].size = NumOf(f.inode_tab[d]) * DentrySize
           /\ Covered(f.inode_tab[d]) /\ Distinct(f.inode_tab[d])
           /\ BlocksOf(f.inode_tab[d]) \subseteq f.blk_bmap
<1>1. d \in InodeNums /\ f.inode_tab[d].type = "dir"
  BY DEF DirsIn
<1>2. d # 0 /\ d \in f.inode_bmap
  BY <1>1, InUse
<1>3. f.inode_tab[d] \in CopiesIn(f, d)
  BY DEF CopiesIn
<1>4. /\ f.inode_tab[d] \in Inode
      /\ Covered(f.inode_tab[d]) /\ Distinct(f.inode_tab[d])
      /\ BlocksOf(f.inode_tab[d]) \subseteq f.blk_bmap
  BY <1>1, <1>3, CopyFacts
<1>5. f.inode_tab[d].size \in Nat
  BY <1>4, InodeFields
<1>6. NumOf(f.inode_tab[d]) \in Nat
  BY <1>5, BlockIsPage, DivRange DEF NumOf
<1>7. f.inode_tab[d].size = NumOf(f.inode_tab[d]) * DentrySize
  BY DEF FsInv, PagesInv
<1> QED
  BY <1>1, <1>2, <1>4, <1>6, <1>7

\* Entry i of a directory is on a page the directory has.
LEMMA PlaceFacts ==
    ASSUME NEW f, FsInv(f), NEW d \in DirsIn(f), NEW i \in 0 .. NumOf(f.inode_tab[d]) - 1
    PROVE  /\ i \div DirPageEntries \in Indices
           /\ i % DirPageEntries \in Positions
           /\ f.inode_tab[d].blocks[i \div DirPageEntries] \in Blocks
           /\ PlaceIn(f, f.inode_tab[d], i) \in Dentry
<1> DEFINE n == NumOf(f.inode_tab[d])
           k == i \div DirPageEntries
           p == i % DirPageEntries
           b == f.inode_tab[d].blocks[k]
<1>1. /\ n \in Nat /\ f.inode_tab[d] \in Inode /\ f.inode_tab[d].size = n * DentrySize
      /\ Covered(f.inode_tab[d])
  BY DirFacts
<1>2. k \in Nat /\ p \in Positions /\ k < OffsetToBlocks(n * DentrySize)
  <2> HIDE DEF n
  <2>1. i \in 0 .. n - 1
    BY DEF n
  <2> QED
    BY <1>1, <2>1, EntryBlock
<1> HIDE DEF k, p
<1>3. n * DentrySize \in Nat
  BY <1>1, BlockIsPage
<1>4. OffsetToBlocks(n * DentrySize) \in Nat
  BY <1>3, CeilLess
<1>5. k < InodeNumBlks
  BY <1>1, <1>2, <1>4, InodesAssumption DEF Covered
<1>6. k \in Indices
  BY <1>2, <1>5, InodesAssumption DEF Indices
<1>7. b # 0 /\ b \in Blocks \cup {0}
  BY <1>1, <1>2, <1>6, InodeFields DEF Covered
<1>8. PlaceIn(f, f.inode_tab[d], i) = f.page[b][p]
  BY DEF PlaceIn, k, p
<1>9. f.page[b][p] \in Dentry
  BY <1>2, <1>7, Fields DEF FsInv, Page
<1> QED
  BY <1>2, <1>6, <1>7, <1>8, <1>9 DEF k, p

\* What a page of a directory says is in the directory.
LEMMA PageSays ==
    ASSUME NEW f, FsInv(f), NEW d \in DirsIn(f), NEW k \in Indices, NEW p \in Positions,
           f.inode_tab[d].blocks[k] # 0,
           f.page[f.inode_tab[d].blocks[k]][p].name # NoName
    PROVE  f.page[f.inode_tab[d].blocks[k]][p] \in EntriesIn(f, d)
<1> DEFINE n == NumOf(f.inode_tab[d])
           i == k * DirPageEntries + p
<1>1. n \in Nat
  BY DirFacts
<1>2. k \in Nat /\ p \in 0 .. DirPageEntries - 1 /\ DirPageEntries \in Nat \ {0}
  BY Sizes, DirectoriesAssumption DEF Positions
<1>3. i \div DirPageEntries = k /\ i % DirPageEntries = p
  BY <1>2, DivUnique
<1>4. i \in Nat
  BY <1>2
<1>5. ~(i >= n)
  BY SMTT(30) DEF FsInv, PagesInv, NoDentry
<1> HIDE DEF i, n
<1>6. i \in 0 .. n - 1
  BY <1>1, <1>4, <1>5
<1>7. PlaceIn(f, f.inode_tab[d], i) = f.page[f.inode_tab[d].blocks[k]][p]
  BY <1>3 DEF PlaceIn
<1> QED
  BY <1>6, <1>7 DEF EntriesIn, n

\* A page that begins before the last entry is a block the directory has.
LEMMA PageBlock ==
    ASSUME NEW f, FsInv(f), NEW d \in DirsIn(f), NEW k \in Nat,
           k * DirPageEntries < NumOf(f.inode_tab[d])
    PROVE  k \in Indices /\ f.inode_tab[d].blocks[k] \in Blocks
<1> DEFINE n == NumOf(f.inode_tab[d])
           i == k * DirPageEntries
<1>1. n \in Nat /\ DirPageEntries \in Nat \ {0}
  BY DirFacts, DirectoriesAssumption
<1>2. i \in Nat
  BY <1>1
<1>3. (k * DirPageEntries + 0) \div DirPageEntries = k
  <2>1. 0 \in 0 .. DirPageEntries - 1
    BY <1>1
  <2> QED
    BY <1>1, <2>1, DivUnique
<1>4. i \div DirPageEntries = k
  BY <1>2, <1>3
<1>5. i \in 0 .. n - 1
  BY <1>1, <1>2
<1> HIDE DEF i
<1> QED
  BY <1>4, <1>5, PlaceFacts

\* An entry has a name and leads to an inode in use.
LEMMA EntryFacts ==
    ASSUME NEW f, FsInv(f), NEW d \in DirsIn(f), NEW e \in EntriesIn(f, d)
    PROVE  e \in Dentry /\ e.name \in Names /\ e.inode \in f.inode_bmap \ {0, Root}
<1>1. PICK i \in 0 .. NumOf(f.inode_tab[d]) - 1 : e = PlaceIn(f, f.inode_tab[d], i)
  BY DEF EntriesIn
<1> QED
  BY <1>1, PlaceFacts DEF FsInv, TreeInv

\* Slots of the directory cache stay as they are or get page b of d.
DirSlotsFrom(f, g, d, b) ==
    \A i \in DSlots :
        \/ /\ g.dir_cache[i].dir = f.dir_cache[i].dir
           /\ g.dir_cache[i].block = f.dir_cache[i].block
           /\ g.dir_cache[i].entries = f.dir_cache[i].entries
        \/ /\ g.dir_cache[i].dir = d
           /\ g.dir_cache[i].block = b
           /\ g.dir_cache[i].entries = f.page[b]

\* Filling a slot of the cache with a page of a directory leads on.
LEMMA DirSlotsFromReaches ==
    ASSUME NEW f, NEW g, FsInv(f), SameInodes(f, g), NEW d \in DirsIn(f), NEW k \in Indices,
           f.inode_tab[d].blocks[k] # 0, DirSlotsFrom(f, g, d, f.inode_tab[d].blocks[k])
    PROVE  Reaches(f, g)
<1> DEFINE b == f.inode_tab[d].blocks[k]
<1>1. \A p \in Positions : f.page[b][p].name # NoName => f.page[b][p] \in EntriesIn(f, d)
  BY PageSays
<1> HIDE DEF b
<1>2. ASSUME NEW i \in DSlots, NEW p \in Positions, g.dir_cache[i].entries[p].name # NoName
      PROVE  /\ g.dir_cache[i].dir \in DirsIn(g)
             /\ g.dir_cache[i].entries[p] \in EntriesIn(g, g.dir_cache[i].dir)
  <2>1. DirsIn(g) = DirsIn(f) /\ EntriesIn(g, g.dir_cache[i].dir) = EntriesIn(f, g.dir_cache[i].dir)
    BY SameDirs
  <2>2. CASE /\ g.dir_cache[i].dir = f.dir_cache[i].dir
             /\ g.dir_cache[i].entries = f.dir_cache[i].entries
    BY <1>2, <2>1, <2>2 DEF FsInv, DirCacheInv
  <2>3. CASE g.dir_cache[i].dir = d /\ g.dir_cache[i].entries = f.page[b]
    BY <1>1, <1>2, <2>1, <2>3
  <2> QED
    BY <2>2, <2>3 DEF DirSlotsFrom, b
<1>3. DirCacheInv(g)
  BY <1>2 DEF DirCacheInv
<1> QED
  BY <1>3, SameInodesReaches

\* Fetching a page leads on and leaves the page in the cache.
LEMMA FetchPageKeeps ==
    ASSUME NEW f, FsInv(f), NEW d \in DirsIn(f), NEW k \in Indices, NEW t \in Nat,
           f.inode_tab[d].blocks[k] # 0
    PROVE  LET b == f.inode_tab[d].blocks[k]
               g == FetchPage(f, d, b, t)
           IN
           /\ SameInodes(f, g) /\ Reaches(f, g)
           /\ SlotsOfPage(g, d, b) # {}
           /\ DirSlotsFrom(f, g, d, b)
<1> DEFINE b == f.inode_tab[d].blocks[k]
           g == FetchPage(f, d, b, t)
<1>1. f \in FsStruct /\ d \in InodeNums /\ b \in Blocks
  <2>1. b \in Blocks \cup {0}
    BY DirFacts, InodeFields
  <2> QED
    BY <2>1, DirFacts DEF FsInv
<1> HIDE DEF b
<1>2. SameInodes(f, g) /\ SlotsOfPage(g, d, b) # {} /\ DirSlotsFrom(f, g, d, b)
  <2>1. CASE SlotsOfPage(f, d, b) # {}
    <3> DEFINE v == PageSlot(f, d, b)
    <3>1. v \in DSlots /\ f.dir_cache[v].dir = d /\ f.dir_cache[v].block = b
      BY <1>1, <2>1, PageSlotIn
    <3>2. g = [f EXCEPT !.dir_cache[v].last = t]
      BY <2>1 DEF FetchPage, TouchPage
    <3> HIDE DEF v, g
    <3>3. LET h == [f EXCEPT !.dir_cache[v].last = t] IN
          /\ SameInodes(f, h)
          /\ \A i \in DSlots : /\ h.dir_cache[i].dir = f.dir_cache[i].dir
                               /\ h.dir_cache[i].block = f.dir_cache[i].block
                               /\ h.dir_cache[i].entries = f.dir_cache[i].entries
      BY <1>1, <3>1, SetLast
    <3>4. /\ SameInodes(f, g)
          /\ \A i \in DSlots : /\ g.dir_cache[i].dir = f.dir_cache[i].dir
                               /\ g.dir_cache[i].block = f.dir_cache[i].block
                               /\ g.dir_cache[i].entries = f.dir_cache[i].entries
      BY <3>2, <3>3
    <3>5. v \in SlotsOfPage(g, d, b)
      BY <3>1, <3>4 DEF SlotsOfPage, SlotsOfDir
    <3> QED
      BY <3>4, <3>5 DEF DirSlotsFrom
  <2>2. CASE SlotsOfPage(f, d, b) = {}
    <3>1. g = FillPage(f, d, b, f.page[b], t)
      BY <2>2 DEF FetchPage
    <3> HIDE DEF g
    <3>2. LET h == FillPage(f, d, b, f.page[b], t) IN
          /\ SameInodes(f, h)
          /\ \E v \in DSlots : /\ h.dir_cache[v].dir = d
                               /\ h.dir_cache[v].block = b
                               /\ h.dir_cache[v].entries = f.page[b]
                               /\ \A i \in DSlots \ {v} : h.dir_cache[i] = f.dir_cache[i]
      BY <1>1, FillPageFields
    <3>3. SameInodes(f, g)
      BY <3>1, <3>2
    <3>4. PICK v \in DSlots : /\ g.dir_cache[v].dir = d
                              /\ g.dir_cache[v].block = b
                              /\ g.dir_cache[v].entries = f.page[b]
                              /\ \A i \in DSlots \ {v} : g.dir_cache[i] = f.dir_cache[i]
      BY <3>1, <3>2
    <3>5. v \in SlotsOfPage(g, d, b)
      BY <3>4 DEF SlotsOfPage, SlotsOfDir
    <3>6. DirSlotsFrom(f, g, d, b)
      BY <3>4 DEF DirSlotsFrom
    <3> QED
      BY <3>3, <3>5, <3>6
  <2> QED
    BY <2>1, <2>2
<1> HIDE DEF g
<1>3. Reaches(f, g)
  BY <1>2, DirSlotsFromReaches DEF b
<1> QED
  BY <1>2, <1>3 DEF b, g

-----------------------------------------------------------------------------
(* The search for a name.                                                  *)

\* What a search that began with f gives: only the directory cache differs,
\* and a number it finds is that of an inode in use.
SearchResult == [fs : FsStruct, found : BOOLEAN, inode : InodeNums]

SearchLeads(f, s) ==
    /\ SameInodes(f, s.fs) /\ Reaches(f, s.fs)
    /\ s.found => s.inode \in f.inode_bmap \ {0, Root}

\* The slot that the search began with has a page of the directory.
HitOK(f, d, hit) == hit = DirCacheSize \/ (hit \in DSlots /\ f.dir_cache[hit].dir = d)

\* An entry with a name that a slot of d has is in d.
LEMMA SlotSays ==
    ASSUME NEW f, FsInv(f), NEW v \in DSlots, NEW n \in Nat, n <= DirPageEntries, NEW name,
           name # NoName, Matches(f.dir_cache[v].entries, n, name) # {}
    PROVE  LET e == f.dir_cache[v].entries[Lowest(Matches(f.dir_cache[v].entries, n, name))] IN
           /\ e \in Dentry
           /\ f.dir_cache[v].dir \in DirsIn(f)
           /\ e \in EntriesIn(f, f.dir_cache[v].dir)
           /\ e.inode \in f.inode_bmap \ {0, Root}
<1> DEFINE m == Matches(f.dir_cache[v].entries, n, name)
           p == Lowest(m)
           e == f.dir_cache[v].entries[p]
<1>1. m \subseteq Positions
  BY DirectoriesAssumption DEF Matches, Positions
<1>2. p \in m
  BY <1>1, Sizes, LowestIn
<1>3. p \in Positions /\ e.name = name
  BY <1>1, <1>2 DEF Matches
<1> HIDE DEF p
<1>4. f.dir_cache[v].dir \in DirsIn(f) /\ e \in EntriesIn(f, f.dir_cache[v].dir)
  BY <1>3 DEF FsInv, DirCacheInv
<1>5. e \in Dentry /\ e.inode \in f.inode_bmap \ {0, Root}
  BY <1>4, EntryFacts
<1> QED
  BY <1>4, <1>5 DEF p

\* An entry of d goes into a slot of d.
LEMMA RememberKeeps ==
    ASSUME NEW f, FsInv(f), NEW d \in DirsIn(f), NEW v \in DSlots, f.dir_cache[v].dir = d,
           NEW e \in EntriesIn(f, d)
    PROVE  LET g == Remember(f, v, e) IN
           /\ SameInodes(f, g) /\ Reaches(f, g)
           /\ \A i \in DSlots : g.dir_cache[i].dir = f.dir_cache[i].dir
<1> DEFINE g == Remember(f, v, e)
<1>1. f \in FsStruct /\ e \in Dentry
  BY EntryFacts DEF FsInv
<1>2. CASE g = f
  BY <1>1, <1>2, ReachesItself, SameInodesItself
<1>3. CASE g # f
  <2>1. LET h == Remember(f, v, e) IN
        /\ SameInodes(f, h)
        /\ h.dir_cache[v].dir = f.dir_cache[v].dir
        /\ \A p \in Positions : \/ h.dir_cache[v].entries[p] = f.dir_cache[v].entries[p]
                                \/ h.dir_cache[v].entries[p] = e
        /\ \A i \in DSlots \ {v} : h.dir_cache[i] = f.dir_cache[i]
    BY <1>1, <1>3, RememberFields
  <2> HIDE DEF g
  <2>2. /\ SameInodes(f, g)
        /\ g.dir_cache[v].dir = d
        /\ \A p \in Positions : \/ g.dir_cache[v].entries[p] = f.dir_cache[v].entries[p]
                                \/ g.dir_cache[v].entries[p] = e
        /\ \A i \in DSlots \ {v} : g.dir_cache[i] = f.dir_cache[i]
    BY <2>1 DEF g
  <2>3. DirsIn(g) = DirsIn(f) /\ \A c : EntriesIn(g, c) = EntriesIn(f, c)
    BY <2>2, SameDirs
  <2>4. ASSUME NEW i \in DSlots, NEW p \in Positions, g.dir_cache[i].entries[p].name # NoName
        PROVE  /\ g.dir_cache[i].dir \in DirsIn(g)
               /\ g.dir_cache[i].entries[p] \in EntriesIn(g, g.dir_cache[i].dir)
    <3>1. CASE g.dir_cache[i].dir = f.dir_cache[i].dir
               /\ g.dir_cache[i].entries[p] = f.dir_cache[i].entries[p]
      BY <2>3, <2>4, <3>1 DEF FsInv, DirCacheInv
    <3>2. CASE i = v /\ g.dir_cache[i].entries[p] = e
      BY <2>2, <2>3, <3>2
    <3> QED
      BY <2>2, <3>1, <3>2
  <2>5. DirCacheInv(g)
    BY <2>4 DEF DirCacheInv
  <2>6. Reaches(f, g)
    BY <2>2, <2>5, SameInodesReaches
  <2> QED
    BY <2>2, <2>6 DEF g
<1> QED
  BY <1>2, <1>3

\* Searching a page leads on, and what it finds is in use.
LEMMA SearchPageKeeps ==
    ASSUME NEW f, FsInv(f), NEW d \in DirsIn(f), NEW b, SlotsOfPage(f, d, b) # {},
           NEW n \in Nat, n <= DirPageEntries, NEW name, name # NoName,
           NEW hit, HitOK(f, d, hit)
    PROVE  LET s == SearchPage(f, EntriesAt(f, d, b), n, name, hit) IN
           s \in SearchResult /\ SearchLeads(f, s) /\ HitOK(s.fs, d, hit)
<1> DEFINE v == PageSlot(f, d, b)
           entries == f.dir_cache[v].entries
           m == Matches(entries, n, name)
           e == entries[Lowest(m)]
           s == SearchPage(f, entries, n, name, hit)
<1>1. f \in FsStruct
  BY DEF FsInv
<1>2. v \in DSlots /\ f.dir_cache[v].dir = d
  BY <1>1, PageSlotIn
<1>3. EntriesAt(f, d, b) = entries
  BY DEF EntriesAt
<1> HIDE DEF v
<1>4. CASE m = {}
  <2>1. s = [fs |-> f, found |-> FALSE, inode |-> 0]
    BY <1>4 DEF SearchPage
  <2>2. s \in SearchResult /\ s.fs = f /\ s.found = FALSE
    BY <1>1, <2>1, Sizes DEF SearchResult
  <2> HIDE DEF s
  <2>3. SearchLeads(f, s) /\ HitOK(s.fs, d, hit)
    BY <1>1, <2>2, ReachesItself, SameInodesItself DEF SearchLeads
  <2> QED
    BY <1>3, <2>2, <2>3 DEF s
<1>5. CASE m # {}
  <2> DEFINE g == IF hit = DirCacheSize THEN f ELSE Remember(f, hit, e)
  <2>1. s = [fs |-> g, found |-> TRUE, inode |-> e.inode]
    BY <1>5 DEF SearchPage
  <2>2. e \in EntriesIn(f, d) /\ e.inode \in f.inode_bmap \ {0, Root}
    BY <1>2, <1>5, SlotSays
  <2> HIDE DEF e, m, s
  <2>3. SameInodes(f, g) /\ Reaches(f, g) /\ HitOK(g, d, hit)
    <3>1. CASE hit = DirCacheSize
      BY <1>1, <3>1, ReachesItself, SameInodesItself DEF HitOK
    <3>2. CASE hit # DirCacheSize
      <4>1. hit \in DSlots /\ f.dir_cache[hit].dir = d
        BY <3>2 DEF HitOK
      <4>2. LET h == Remember(f, hit, e) IN
            /\ SameInodes(f, h) /\ Reaches(f, h)
            /\ \A i \in DSlots : h.dir_cache[i].dir = f.dir_cache[i].dir
        BY <2>2, <4>1, RememberKeeps
      <4> QED
        BY <3>2, <4>1, <4>2 DEF HitOK
    <3> QED
      BY <3>1, <3>2
  <2> HIDE DEF g
  <2>4. s.fs = g /\ s.found = TRUE /\ s.inode = e.inode
    BY <2>1
  <2>5. s \in SearchResult
    BY <1>1, <2>1, <2>2, <2>3, Fields DEF SearchResult, SameInodes
  <2>6. SearchLeads(f, s) /\ HitOK(s.fs, d, hit)
    BY <2>2, <2>3, <2>4 DEF SearchLeads
  <2> QED
    BY <1>3, <2>5, <2>6 DEF s
<1> QED
  BY <1>4, <1>5

\* One round of the search through the pages.
VisitNext(before, idir, dir, name, hit, t, k) ==
    IF before.found \/ LeftAt(idir.size \div DentrySize, k) <= 0 THEN before
    ELSE LET g == FetchPage(before.fs, dir, idir.blocks[k], t) IN
         SearchPage(g, EntriesAt(g, dir, idir.blocks[k]),
                    MinOf(DirPageEntries, LeftAt(idir.size \div DentrySize, k)), name, hit)

\* A round of the loop over the pages leads on.
LEMMA VisitNextKeeps ==
    ASSUME NEW f, FsInv(f), NEW d \in DirsIn(f), NEW k \in Indices, NEW t \in Nat,
           NEW name, name # NoName, NEW hit,
           NEW s \in SearchResult, SearchLeads(f, s), HitOK(s.fs, d, hit)
    PROVE  LET r == VisitNext(s, f.inode_tab[d], d, name, hit, t, k) IN
           r \in SearchResult /\ SearchLeads(f, r) /\ HitOK(r.fs, d, hit)
<1> DEFINE num == NumOf(f.inode_tab[d])
           left == LeftAt(num, k)
           b == f.inode_tab[d].blocks[k]
           g == FetchPage(s.fs, d, b, t)
           n == MinOf(DirPageEntries, left)
           r == VisitNext(s, f.inode_tab[d], d, name, hit, t, k)
           q == SearchPage(g, EntriesAt(g, d, b), n, name, hit)
<1>1. r = IF s.found \/ left <= 0 THEN s ELSE q
  BY DEF VisitNext, NumOf
<1>2. CASE s.found \/ left <= 0
  BY <1>1, <1>2
<1>3. CASE ~(s.found \/ left <= 0)
  <2>1. num \in Nat /\ k \in Nat /\ DirPageEntries \in Nat
    BY DirFacts, Sizes, DirectoriesAssumption
  <2>2. left = num - k * DirPageEntries
    BY DEF LeftAt
  <2>3. k * DirPageEntries \in Nat
    BY <2>1
  <2>4. k * DirPageEntries < num /\ n \in Nat /\ n <= DirPageEntries
    BY <1>3, <2>1, <2>2, <2>3 DEF MinOf
  <2>5. b \in Blocks
    BY <2>1, <2>4, PageBlock
  <2>6. FsInv(s.fs) /\ SameInodes(f, s.fs) /\ Reaches(f, s.fs)
    BY DEF SearchLeads, Reaches
  <2>7. d \in DirsIn(s.fs) /\ b = s.fs.inode_tab[d].blocks[k] /\ b # 0
    BY <2>5, <2>6, SameDirs, Sizes DEF SameInodes
  <2> HIDE DEF b
  <2>8. LET c == s.fs.inode_tab[d].blocks[k]
            h == FetchPage(s.fs, d, c, t)
        IN
        /\ SameInodes(s.fs, h) /\ Reaches(s.fs, h)
        /\ SlotsOfPage(h, d, c) # {}
        /\ DirSlotsFrom(s.fs, h, d, c)
    BY <2>6, <2>7, FetchPageKeeps
  <2>9. /\ SameInodes(s.fs, g) /\ Reaches(s.fs, g)
        /\ SlotsOfPage(g, d, b) # {}
        /\ DirSlotsFrom(s.fs, g, d, b)
    BY <2>7, <2>8
  <2> HIDE DEF g
  <2>10. FsInv(g) /\ d \in DirsIn(g) /\ SameInodes(f, g) /\ Reaches(f, g)
    BY <2>6, <2>7, <2>9, SameDirs, SameInodesOn, ReachesOn DEF Reaches
  <2>11. HitOK(g, d, hit)
    BY <2>9 DEF HitOK, DirSlotsFrom
  <2> HIDE DEF n
  <2>12. LET p == SearchPage(g, EntriesAt(g, d, b), n, name, hit) IN
         p \in SearchResult /\ SearchLeads(g, p) /\ HitOK(p.fs, d, hit)
    BY <2>4, <2>9, <2>10, <2>11, SearchPageKeeps
  <2>13. q \in SearchResult /\ SearchLeads(g, q) /\ HitOK(q.fs, d, hit)
    BY <2>12
  <2> HIDE DEF q
  <2>14. SameInodes(f, q.fs) /\ Reaches(f, q.fs)
    BY <2>10, <2>13, SameInodesOn, ReachesOn DEF SearchLeads
  <2>15. g.inode_bmap = f.inode_bmap
    BY <2>10 DEF SameInodes
  <2>16. SearchLeads(f, q)
    BY <2>13, <2>14, <2>15 DEF SearchLeads
  <2>17. r = q
    BY <1>1, <1>3
  <2> HIDE DEF r
  <2> QED
    BY <2>13, <2>16, <2>17 DEF r
<1> QED
  BY <1>2, <1>3

\* The loop over the pages leads on, and what it finds is in use.
LEMMA SearchPagesKeeps ==
    ASSUME NEW f, FsInv(f), NEW d \in DirsIn(f), NEW t \in Nat,
           NEW name, name # NoName, NEW hit, HitOK(f, d, hit)
    PROVE  LET s == SearchPages(f, d, name, hit, t) IN
           s \in SearchResult /\ SearchLeads(f, s)
<1> DEFINE N == InodeNumBlks
           Good == {p \in (0 .. N) \X SearchResult : SearchLeads(f, p[2]) /\ HitOK(p[2].fs, d, hit)}
           s0 == [fs |-> f, found |-> FALSE, inode |-> 0]
           idir == f.inode_tab[d]
           step == [p \in Good |-> VisitNext(p[2], idir, d, name, hit, t, p[1])]
           visit == CHOOSE visit : visit = [k \in 0 .. N |->
                        IF k = 0 THEN s0 ELSE VisitNext(visit[k - 1], idir, d, name, hit, t, k - 1)]
<1>1. N \in Nat
  BY InodesAssumption
<1>2. <<0, s0>> \in Good
  <2>1. s0 \in SearchResult /\ s0.fs = f /\ s0.found = FALSE
    BY Sizes DEF FsInv, SearchResult
  <2> HIDE DEF s0
  <2>2. SearchLeads(f, s0) /\ HitOK(s0.fs, d, hit)
    BY <2>1, ReachesItself, SameInodesItself DEF SearchLeads, FsInv
  <2> QED
    BY <1>1, <2>1, <2>2
<1>3. ASSUME NEW k \in 0 .. N - 1, NEW s, <<k, s>> \in Good
      PROVE  /\ <<k + 1, VisitNext(s, idir, d, name, hit, t, k)>> \in Good
             /\ step[<<k, s>>] = VisitNext(s, idir, d, name, hit, t, k)
  <2>1. s \in SearchResult /\ SearchLeads(f, s) /\ HitOK(s.fs, d, hit)
    BY <1>3
  <2>2. k \in Indices /\ k + 1 \in 0 .. N
    BY <1>1 DEF Indices
  <2>3. LET r == VisitNext(s, f.inode_tab[d], d, name, hit, t, k) IN
        r \in SearchResult /\ SearchLeads(f, r) /\ HitOK(r.fs, d, hit)
    BY <2>1, <2>2, VisitNextKeeps
  <2> QED
    BY <1>3, <2>2, <2>3
<1> HIDE DEF Good, step
<1>4. RoundsKeep(N, Good, step)
  BY <1>3 DEF RoundsKeep
<1> HIDE DEF s0
<1>5. PICK g : RunsLoop(g, N, Good, s0, step)
  BY <1>1, <1>2, <1>4, LoopRuns
<1>6. ASSUME NEW k \in 1 .. N
      PROVE  k - 1 \in 0 .. N - 1 /\ (k - 1) + 1 = k /\ k \in 0 .. N /\ k # 0
  BY <1>1
<1>7. ASSUME NEW k \in 1 .. N
      PROVE  g[k] = VisitNext(g[k - 1], idir, d, name, hit, t, k - 1)
  BY <1>3, <1>5, <1>6 DEF RunsLoop
<1>8. g = [k \in 0 .. N |-> IF k = 0 THEN s0 ELSE VisitNext(g[k - 1], idir, d, name, hit, t, k - 1)]
  <2>1. \A k \in 0 .. N : k = 0 \/ k \in 1 .. N
    BY <1>1
  <2>2. \A k \in 0 .. N :
           g[k] = IF k = 0 THEN s0 ELSE VisitNext(g[k - 1], idir, d, name, hit, t, k - 1)
    BY <1>5, <1>7, <2>1 DEF RunsLoop
  <2> QED
    BY <1>5, <2>2 DEF RunsLoop
<1>9. SearchPages(f, d, name, hit, t) = visit[N]
  BY DEF SearchPages, VisitNext, s0
<1>10. visit = [k \in 0 .. N |-> IF k = 0 THEN s0 ELSE VisitNext(visit[k - 1], idir, d, name, hit, t, k - 1)]
  BY <1>8
<1> HIDE DEF visit
<1>11. <<0, visit[0]>> \in Good
  BY <1>1, <1>2, <1>10
<1>12. ASSUME NEW k \in 1 .. N, <<k - 1, visit[k - 1]>> \in Good
       PROVE  <<k, visit[k]>> \in Good
  <2>1. visit[k] = VisitNext(visit[k - 1], idir, d, name, hit, t, k - 1)
    BY <1>6, <1>10
  <2> QED
    BY <1>3, <1>6, <1>12, <2>1
<1>13. <<N, visit[N]>> \in Good
  BY <1>1, <1>11, <1>12, LoopKeeps
<1>14. visit[N] \in SearchResult /\ SearchLeads(f, visit[N])
  BY <1>13 DEF Good
<1> QED
  BY <1>9, <1>14

\* fsi_dir_search leads on, and what it finds is in use.
LEMMA DirSearchKeeps ==
    ASSUME NEW f, FsInv(f), NEW d \in DirsIn(f), NEW t \in Nat, NEW name, name # NoName
    PROVE  LET s == DirSearch(f, d, name, t) IN
           s \in SearchResult /\ SearchLeads(f, s)
<1> DEFINE first == SearchFirst(f, d, name, t)
           hit == IF SlotsOfDir(f, d) = {} THEN DirCacheSize ELSE Lowest(SlotsOfDir(f, d))
           m == IF hit = DirCacheSize THEN {}
                ELSE Matches(f.dir_cache[hit].entries, DirPageEntries, name)
           s == DirSearch(f, d, name, t)
<1>1. HitOK(f, d, hit)
  <2>1. SlotsOfDir(f, d) \subseteq Nat
    BY Sizes DEF SlotsOfDir
  <2>2. SlotsOfDir(f, d) # {} => hit \in SlotsOfDir(f, d)
    BY <2>1, LowestIn
  <2> QED
    BY <2>2 DEF HitOK, SlotsOfDir
<1>2. /\ first.fs = IF hit = DirCacheSize THEN f ELSE [f EXCEPT !.dir_cache[hit].last = t]
      /\ first.found = (m # {})
      /\ first.hit = hit
      /\ first.inode = IF m = {} THEN 0 ELSE f.dir_cache[hit].entries[Lowest(m)].inode
  BY DEF SearchFirst
<1>3. s = IF first.found THEN [fs |-> first.fs, found |-> TRUE, inode |-> first.inode]
          ELSE SearchPages(first.fs, d, name, first.hit, t)
  BY DEF DirSearch
<1> HIDE DEF hit, first, s
<1>4. SameInodes(f, first.fs) /\ Reaches(f, first.fs) /\ HitOK(first.fs, d, hit)
  <2>1. CASE hit = DirCacheSize
    <3>1. first.fs = f
      BY <1>2, <2>1
    <3> QED
      BY <1>1, <3>1, ReachesItself, SameInodesItself DEF FsInv
  <2>2. CASE hit # DirCacheSize
    <3>1. hit \in DSlots /\ f.dir_cache[hit].dir = d /\ f \in FsStruct
      BY <1>1, <2>2 DEF HitOK, FsInv
    <3> DEFINE g == [f EXCEPT !.dir_cache[hit].last = t]
    <3>2. first.fs = g
      BY <1>2, <2>2
    <3>3. LET h == [f EXCEPT !.dir_cache[hit].last = t] IN
           /\ SameInodes(f, h)
           /\ \A i \in DSlots : /\ h.dir_cache[i].dir = f.dir_cache[i].dir
                                /\ h.dir_cache[i].block = f.dir_cache[i].block
                                /\ h.dir_cache[i].entries = f.dir_cache[i].entries
      BY <3>1, SetLast
    <3> HIDE DEF g
    <3>4. /\ SameInodes(f, g)
          /\ \A i \in DSlots : /\ g.dir_cache[i].dir = f.dir_cache[i].dir
                               /\ g.dir_cache[i].entries = f.dir_cache[i].entries
      BY <3>3 DEF g
    <3>5. DirsIn(g) = DirsIn(f) /\ \A c : EntriesIn(g, c) = EntriesIn(f, c)
      BY <3>4, SameDirs
    <3>6. DirCacheInv(g)
      BY <3>4, <3>5 DEF FsInv, DirCacheInv
    <3>7. Reaches(f, g)
      BY <3>4, <3>6, SameInodesReaches
    <3>8. HitOK(g, d, hit)
      BY <3>1, <3>4 DEF HitOK
    <3> QED
      BY <3>2, <3>4, <3>7, <3>8
  <2> QED
    BY <2>1, <2>2
<1>5. CASE first.found
  <2>1. hit # DirCacheSize /\ m = Matches(f.dir_cache[hit].entries, DirPageEntries, name) /\ m # {}
    BY <1>2, <1>5
  <2>2. hit \in DSlots
    BY <1>1, <2>1 DEF HitOK
  <2>3. DirPageEntries \in Nat /\ DirPageEntries <= DirPageEntries
    BY DirectoriesAssumption
  <2>4. first.inode \in f.inode_bmap \ {0, Root}
    <3>1. Matches(f.dir_cache[hit].entries, DirPageEntries, name) # {}
      BY <2>1
    <3>2. f.dir_cache[hit].entries[Lowest(Matches(f.dir_cache[hit].entries, DirPageEntries, name))].inode
            \in f.inode_bmap \ {0, Root}
      BY <2>2, <2>3, <3>1, SlotSays
    <3> QED
      BY <1>2, <2>1, <3>2
  <2> HIDE DEF m
  <2>5. s.fs = first.fs /\ s.found = TRUE /\ s.inode = first.inode
    BY <1>3, <1>5
  <2>6. s \in SearchResult
    BY <1>3, <1>4, <1>5, <2>4, Fields DEF SearchResult, FsInv, SameInodes
  <2>7. SearchLeads(f, s)
    BY <1>4, <2>4, <2>5 DEF SearchLeads
  <2> QED
    BY <2>6, <2>7 DEF s
<1>6. CASE ~first.found
  <2> DEFINE g == first.fs
  <2>1. s = SearchPages(g, d, name, hit, t)
    BY <1>2, <1>3, <1>6
  <2>2. FsInv(g) /\ d \in DirsIn(g) /\ HitOK(g, d, hit)
    BY <1>4, SameDirs DEF Reaches
  <2> HIDE DEF g
  <2>3. LET q == SearchPages(g, d, name, hit, t) IN q \in SearchResult /\ SearchLeads(g, q)
    BY <2>2, SearchPagesKeeps
  <2>4. s \in SearchResult /\ SearchLeads(g, s)
    BY <2>1, <2>3
  <2>5. SameInodes(f, s.fs) /\ Reaches(f, s.fs) /\ g.inode_bmap = f.inode_bmap
    BY <1>4, <2>4, SameInodesOn, ReachesOn DEF SearchLeads, g, SameInodes
  <2>6. SearchLeads(f, s)
    BY <2>4, <2>5 DEF SearchLeads
  <2> QED
    BY <2>4, <2>6 DEF s
<1> QED
  BY <1>5, <1>6

-----------------------------------------------------------------------------
(* The path walk.                                                          *)

WalkResult == [ok : BOOLEAN, fs : FsStruct, inode : 0 .. ItabSize]

\* What k names of a path lead to.
Walked(f, k, s) ==
    /\ SameInodes(f, s.fs) /\ Reaches(f, s.fs)
    /\ s.ok /\ k > 0 => s.inode \in f.inode_bmap \ {0, Root}

\* One name of the path; fs is the structure the walk began with.
WalkNext(f, before, path, k, t) ==
    LET dir == IF k = 1 THEN Root ELSE before.inode IN
    IF before.ok /\ IsDir(f, dir) THEN WalkTo(DirSearch(before.fs, dir, path[k], t))
                                  ELSE [before EXCEPT !.ok = FALSE]

\* A step down a path leads on.
LEMMA WalkNextKeeps ==
    ASSUME NEW f, FsInv(f), NEW k \in Nat \ {0}, NEW t \in Nat, NEW path, path[k] # NoName,
           NEW s \in WalkResult, Walked(f, k - 1, s)
    PROVE  LET r == WalkNext(f, s, path, k, t) IN r \in WalkResult /\ Walked(f, k, r)
<1> DEFINE dir == IF k = 1 THEN Root ELSE s.inode
           q == DirSearch(s.fs, dir, path[k], t)
           r == WalkNext(f, s, path, k, t)
<1>1. r = IF s.ok /\ IsDir(f, dir) THEN WalkTo(q) ELSE [s EXCEPT !.ok = FALSE]
  BY DEF WalkNext
<1> HIDE DEF dir, r
<1>2. CASE ~(s.ok /\ IsDir(f, dir))
  <2>1. r = [s EXCEPT !.ok = FALSE]
    BY <1>1, <1>2
  <2>2. r \in WalkResult /\ r.ok = FALSE /\ r.fs = s.fs
    BY <2>1 DEF WalkResult
  <2>3. Walked(f, k, r)
    BY <2>2 DEF Walked
  <2> QED
    BY <2>2, <2>3 DEF r
<1>3. CASE s.ok /\ IsDir(f, dir)
  <2>1. FsInv(s.fs) /\ SameInodes(f, s.fs) /\ Reaches(f, s.fs)
    BY DEF Walked, Reaches
  <2>2. dir \in DirsIn(s.fs)
    <3>1. dir \in DirsIn(f)
      BY <1>3, Fields DEF IsDir, DirsIn, FsInv
    <3> QED
      BY <2>1, <3>1, SameDirs
  <2>3. q \in SearchResult /\ SearchLeads(s.fs, q)
    BY <2>1, <2>2, DirSearchKeeps
  <2> HIDE DEF q
  <2>4. r = [ok |-> q.found, fs |-> q.fs, inode |-> q.inode]
    BY <1>1, <1>3 DEF WalkTo
  <2>5. r.ok = q.found /\ r.fs = q.fs /\ r.inode = q.inode
    BY <2>4
  <2>6. r \in WalkResult
    BY <2>3, <2>4, InodesAssumption DEF SearchResult, WalkResult, InodeNums
  <2>7. SameInodes(f, r.fs) /\ Reaches(f, r.fs)
    BY <2>1, <2>3, <2>5, SameInodesOn, ReachesOn DEF SearchLeads
  <2>8. r.ok => r.inode \in f.inode_bmap \ {0, Root}
    BY <2>1, <2>3, <2>5 DEF SearchLeads, SameInodes
  <2>9. Walked(f, k, r)
    BY <2>7, <2>8 DEF Walked
  <2> QED
    BY <2>6, <2>9 DEF r
<1> QED
  BY <1>2, <1>3

\* The paths that clients use are sequences of names.
LEMMA PathsAreSeqs ==
    Paths \subseteq Seq(Names)
<1> SUFFICES ASSUME NEW path \in Paths PROVE path \in Seq(Names)
  OBVIOUS
<1>1. PICK len \in 0 .. MaxPath : path \in [1 .. len -> Names]
  BY DEF Paths
<1>2. len \in Nat
  BY <1>1, FileSystemAssumption
<1> QED
  BY <1>1, <1>2

\* No name of a path is empty.
LEMMA PathFacts ==
    ASSUME NEW path \in Seq(Names)
    PROVE  /\ Len(path) \in Nat
           /\ \A k \in 1 .. Len(path) : path[k] \in Names /\ path[k] # NoName
           /\ path # << >> => Len(path) > 0
BY DirectoriesAssumption

\* fs_lookup leads on, and what it finds below the root is in use.
LEMMA LookupKeeps ==
    ASSUME NEW f, FsInv(f), NEW t \in Nat, NEW path \in Seq(Names), NEW junk \in 0 .. ItabSize
    PROVE  LET s == Lookup(f, path, junk, t) IN
           s \in WalkResult /\ Walked(f, Len(path), s)
<1> DEFINE N == Len(path)
           Good == {p \in (0 .. N) \X WalkResult : Walked(f, p[1], p[2])}
           s0 == [ok |-> TRUE, fs |-> f, inode |-> junk]
           step == [p \in Good |-> WalkNext(f, p[2], path, p[1] + 1, t)]
           walk == CHOOSE walk : walk = [k \in 0 .. N |->
                       IF k = 0 THEN s0 ELSE WalkNext(f, walk[k - 1], path, k, t)]
<1>1. N \in Nat /\ \A k \in 1 .. N : path[k] # NoName
  BY PathFacts
<1>2. Lookup(f, path, junk, t) = walk[N]
  BY DEF Lookup, WalkNext
<1> HIDE DEF N
<1>3. <<0, s0>> \in Good
  <2>1. s0 \in WalkResult /\ s0.fs = f
    BY DEF FsInv, WalkResult
  <2> HIDE DEF s0
  <2>2. Walked(f, 0, s0)
    BY <2>1, ReachesItself, SameInodesItself DEF Walked, FsInv
  <2> QED
    BY <1>1, <2>1, <2>2
<1>4. ASSUME NEW k \in 0 .. N - 1, NEW s, <<k, s>> \in Good
      PROVE  /\ <<k + 1, WalkNext(f, s, path, k + 1, t)>> \in Good
             /\ step[<<k, s>>] = WalkNext(f, s, path, k + 1, t)
  <2> DEFINE j == k + 1
  <2>1. s \in WalkResult /\ Walked(f, k, s)
    BY <1>4
  <2>2. j \in Nat \ {0} /\ j - 1 = k /\ path[j] # NoName /\ j \in 0 .. N
    BY <1>1
  <2> HIDE DEF j
  <2>3. WalkNext(f, s, path, j, t) \in WalkResult /\ Walked(f, j, WalkNext(f, s, path, j, t))
    BY <2>1, <2>2, WalkNextKeeps
  <2>4. <<j, WalkNext(f, s, path, j, t)>> \in Good
    BY <2>2, <2>3
  <2> QED
    BY <1>4, <2>4 DEF j
<1> HIDE DEF Good, step
<1>5. RoundsKeep(N, Good, step)
  BY <1>4 DEF RoundsKeep
<1> HIDE DEF s0
<1>6. PICK g : RunsLoop(g, N, Good, s0, step)
  BY <1>1, <1>3, <1>5, LoopRuns
<1>7. ASSUME NEW k \in 1 .. N
      PROVE  k - 1 \in 0 .. N - 1 /\ (k - 1) + 1 = k /\ k \in 0 .. N /\ k # 0
  BY <1>1
<1>8. ASSUME NEW k \in 1 .. N
      PROVE  g[k] = WalkNext(f, g[k - 1], path, k, t)
  BY <1>4, <1>6, <1>7 DEF RunsLoop
<1>9. g = [k \in 0 .. N |-> IF k = 0 THEN s0 ELSE WalkNext(f, g[k - 1], path, k, t)]
  <2>1. \A k \in 0 .. N : k = 0 \/ k \in 1 .. N
    BY <1>1
  <2>2. \A k \in 0 .. N : g[k] = IF k = 0 THEN s0 ELSE WalkNext(f, g[k - 1], path, k, t)
    BY <1>6, <1>8, <2>1 DEF RunsLoop
  <2> QED
    BY <1>6, <2>2 DEF RunsLoop
<1>10. walk = [k \in 0 .. N |-> IF k = 0 THEN s0 ELSE WalkNext(f, walk[k - 1], path, k, t)]
  BY <1>9
<1> HIDE DEF walk
<1>11. <<0, walk[0]>> \in Good
  BY <1>1, <1>3, <1>10
<1>12. ASSUME NEW k \in 1 .. N, <<k - 1, walk[k - 1]>> \in Good
       PROVE  <<k, walk[k]>> \in Good
  <2>1. walk[k] = WalkNext(f, walk[k - 1], path, k, t)
    BY <1>7, <1>10
  <2> QED
    BY <1>4, <1>7, <1>12, <2>1
<1>13. <<N, walk[N]>> \in Good
  BY <1>1, <1>11, <1>12, LoopKeeps
<1>14. walk[N] \in WalkResult /\ Walked(f, N, walk[N])
  BY <1>13 DEF Good
<1> QED
  BY <1>2, <1>14 DEF N

-----------------------------------------------------------------------------
(* There is room for an entry in a directory while an inode is free.       *)

\* Block i of a directory of n entries is needed exactly if its first entry is.
LEMMA DirCeil ==
    ASSUME NEW n \in Nat, NEW i \in Nat
    PROVE  /\ n * DentrySize \in Nat /\ i * DirPageEntries \in Nat
           /\ OffsetToBlocks(n * DentrySize) \in Nat
           /\ i < OffsetToBlocks(n * DentrySize) => i * DirPageEntries < n
           /\ i * DirPageEntries < n => i < OffsetToBlocks(n * DentrySize)
<1> DEFINE Z == DentrySize
           D == DirPageEntries
           B == BlockSize
<1>1. Z \in Nat \ {0} /\ D \in Nat \ {0} /\ B \in Nat \ {0} /\ B = Z * D
  BY BlockIsPage
<1> HIDE DEF Z, D, B
<1>2. n * Z \in Nat /\ i * D \in Nat /\ (i * D) * Z \in Nat
  BY <1>1
<1>3. OffsetToBlocks(n * Z) \in Nat /\ (i < OffsetToBlocks(n * Z) <=> i * B < n * Z)
  BY <1>2, CeilLess DEF B
<1>4. i * B = (i * D) * Z
  BY <1>1
<1>5. i * D < n => (i * D) * Z + Z <= n * Z
  BY <1>1, <1>2, MulLess
<1>6. ~(i * D < n) => n * Z <= (i * D) * Z
  BY <1>1, <1>2, MulMono
<1>7. i * D < n <=> i * B < n * Z
  BY <1>1, <1>2, <1>4, <1>5, <1>6
<1> QED
  BY <1>2, <1>3, <1>7 DEF Z, D, B

\* Every entry of a directory names another inode in use.
LEMMA NumBound ==
    ASSUME NEW f, FsInv(f), NEW d \in DirsIn(f)
    PROVE  /\ NumOf(f.inode_tab[d]) <= ItabSize - 2
           /\ FreeInodes(f) # {} => NumOf(f.inode_tab[d]) < InodeNumBlks * DirPageEntries
<1> DEFINE num == NumOf(f.inode_tab[d])
           S == 0 .. num - 1
           T == f.inode_bmap \ {0, Root}
           h == [i \in S |-> PlaceIn(f, f.inode_tab[d], i).inode]
           U == 2 .. ItabSize - 1
<1>1. num \in Nat /\ ItabSize \in Nat /\ ItabSize >= 2
  BY DirFacts, InodesAssumption
<1>2. \A i \in S : PlaceIn(f, f.inode_tab[d], i).inode \in T
  BY DEF FsInv, TreeInv
<1>3. \A i, j \in S : PlaceIn(f, f.inode_tab[d], i).inode = PlaceIn(f, f.inode_tab[d], j).inode => i = j
  BY DEF FsInv, TreeInv
<1>4. h \in [S -> T] /\ \A i, j \in S : h[i] = h[j] => i = j
  BY <1>2, <1>3
<1>5. T \subseteq U
  BY <1>1, Fields DEF FsInv, InodeNums, Root
<1> HIDE DEF h, num, T
<1>6. IsFiniteSet(U) /\ Cardinality(U) = ItabSize - 2
  <2>1. 2 \in Int /\ ItabSize - 1 \in Int
    BY <1>1
  <2>2. IsFiniteSet(U) /\ Cardinality(U) = IF 2 > ItabSize - 1 THEN 0 ELSE (ItabSize - 1) - 2 + 1
    BY <2>1, FS_Interval
  <2> QED
    BY <1>1, <2>2
<1>7. IsFiniteSet(S) /\ Cardinality(S) = num
  <2>1. 0 \in Int /\ num - 1 \in Int
    BY <1>1
  <2>2. IsFiniteSet(S) /\ Cardinality(S) = IF 0 > num - 1 THEN 0 ELSE (num - 1) - 0 + 1
    BY <2>1, FS_Interval
  <2> QED
    BY <1>1, <2>2
<1> HIDE DEF S, U
<1>8. IsFiniteSet(T) /\ Cardinality(T) \in Nat /\ Cardinality(T) <= ItabSize - 2
  BY <1>5, <1>6, FS_Subset, FS_CardinalityType
<1>9. num <= Cardinality(T)
  <2> SUFFICES ASSUME ~(num <= Cardinality(T)) PROVE FALSE
    OBVIOUS
  <2>1. Cardinality(T) < Cardinality(S)
    BY <1>1, <1>7, <1>8
  <2>2. \E x, y \in S : x # y /\ h[x] = h[y]
    BY <1>4, <1>7, <1>8, <2>1, FS_PigeonHole
  <2> QED
    BY <1>4, <2>2
<1>10. num <= ItabSize - 2
  BY <1>1, <1>8, <1>9
<1>11. ASSUME FreeInodes(f) # {}
       PROVE  num < InodeNumBlks * DirPageEntries
  <2>1. PICK n \in InodeNums : n \notin f.inode_bmap
    BY <1>11 DEF FreeInodes
  <2>2. n \notin {0, Root}
    BY <2>1 DEF FsInv, KindInv
  <2>3. n \in U /\ n \notin T
    BY <1>1, <2>1, <2>2 DEF U, T, InodeNums, Root
  <2>4. Cardinality(T) # Cardinality(U)
    <3>1. T \in SUBSET U /\ T # U
      BY <1>5, <2>3
    <3> QED
      BY <1>6, <3>1, FS_Subset
  <2>5. num < ItabSize - 2
    BY <1>1, <1>6, <1>8, <1>9, <2>4
  <2>6. InodeNumBlks * DirPageEntries \in Nat /\ InodeNumBlks * DirPageEntries >= ItabSize - 2
    BY InodesAssumption, DirectoriesAssumption
  <2> QED
    BY <1>1, <2>5, <2>6
<1> QED
  BY <1>10, <1>11 DEF num

\* The places of a page, and the next one.
LEMMA NextPlace ==
    ASSUME NEW n \in Nat
    PROVE  LET k == n \div DirPageEntries
               p == n % DirPageEntries
           IN /\ k \in Nat /\ p \in Positions
              /\ k * DirPageEntries \in Nat
              /\ n = k * DirPageEntries + p
              /\ n < InodeNumBlks * DirPageEntries => k \in Indices
<1> DEFINE D == DirPageEntries
           k == n \div D
           p == n % D
           m == InodeNumBlks
<1>1. D \in Nat \ {0} /\ m \in Nat
  BY DirectoriesAssumption, InodesAssumption
<1> HIDE DEF D, m
<1>2. k \in Nat /\ p \in 0 .. D - 1 /\ n = k * D + p
  BY <1>1, DivRange, DivMod
<1> HIDE DEF k, p
<1>3. k * D \in Nat /\ m * D \in Nat
  BY <1>1, <1>2
<1>4. n < m * D => k < m
  <2>1. m <= k => m * D <= k * D
    BY <1>1, <1>2, MulMono
  <2> QED
    BY <1>1, <1>2, <1>3, <2>1
<1>5. n < m * D => k \in Indices
  BY <1>1, <1>2, <1>4 DEF m, Indices
<1> QED
  BY <1>2, <1>3, <1>5 DEF k, p, D, m, Positions

-----------------------------------------------------------------------------
(* A new entry.  Directory d has num entries before; the new one is in     *)
(* place p of block b, which becomes the directory's k-th block if it is   *)
(* the first entry there.                                                  *)

EntryAdded(f, g, d, n, type, e, b) ==
    LET x == f.inode_tab[d]
        num == NumOf(x)
        k == num \div DirPageEntries
        p == num % DirPageEntries
        y == g.inode_tab[d]
    IN /\ g \in FsStruct
       /\ k \in Indices /\ p \in Positions /\ num = k * DirPageEntries + p
       /\ b \in Blocks
       /\ p = 0 => b \notin f.blk_bmap
       /\ p # 0 => b = x.blocks[k]
       /\ y.type = "dir"
       /\ y.size = (num + 1) * DentrySize
       /\ \A j \in Indices : y.blocks[j] = IF j = k THEN b ELSE x.blocks[j]
       /\ g.inode_tab[n] = InodeInit(type)
       /\ \A m \in InodeNums \ {d, n} : g.inode_tab[m] = f.inode_tab[m]
       /\ g.inode_bmap = f.inode_bmap \cup {n}
       /\ g.blk_bmap = f.blk_bmap \cup {b}
       /\ g.inode_cache = f.inode_cache
       /\ g.dir_cache = f.dir_cache
       /\ g.page[b][p] = e
       /\ \A c \in Blocks, q \in Positions : c # b \/ q # p => g.page[c][q] = f.page[c][q]

\* What fs_create does to the structure when it adds an entry.
LEMMA AddEntryFields ==
    ASSUME NEW f, FsInv(f), NEW d \in DirsIn(f), NEW n \in FreeInodes(f), NEW type \in {"dir", "file"},
           NEW name \in Names,
           ~(NeedsBlock(f.inode_tab[d]) /\ FreeBlocks(f) = {})
    PROVE  \E b : EntryAdded(f, AddEntry(Extended(f, d), d, name, n, type), d, n, type,
                             [name |-> name, inode |-> n], b)
<1> DEFINE x == f.inode_tab[d]
           num == NumOf(x)
           k == num \div DirPageEntries
           p == num % DirPageEntries
           e == [name |-> name, inode |-> n]
           b0 == Lowest(FreeBlocks(f))
           b == IF NeedsBlock(x) THEN b0 ELSE x.blocks[k]
           B == f.blk_bmap \cup {b}
           z == [x EXCEPT !.blocks[k] = b]
           tab1 == [f.inode_tab EXCEPT ![d] = z]
           h == Extended(f, d)
           y == [z EXCEPT !.size = x.size + DentrySize]
           tab2 == [tab1 EXCEPT ![d] = y, ![n] = InodeInit(type)]
           page2 == [f.page EXCEPT ![b][p] = e]
           I == f.inode_bmap \cup {n}
           g == AddEntry(h, d, name, n, type)
<1>1. /\ d \in InodeNums /\ x \in Inode /\ num \in Nat /\ x.size = num * DentrySize
      /\ Covered(x) /\ BlocksOf(x) \subseteq f.blk_bmap /\ d \in f.inode_bmap
  BY DirFacts
<1>2. f \in FsStruct /\ f.inode_tab \in [InodeNums -> Inode] /\ f.page \in [Blocks -> Page]
      /\ f.inode_bmap \subseteq InodeNums /\ f.blk_bmap \subseteq Blocks
  BY Fields DEF FsInv
<1>3. n \in InodeNums /\ n \notin f.inode_bmap /\ n # d
  BY <1>1 DEF FreeInodes
<1>4. num < InodeNumBlks * DirPageEntries
  BY NumBound
<1>5. /\ k \in Indices /\ p \in Positions /\ num = k * DirPageEntries + p
      /\ k * DirPageEntries \in Nat /\ k \in Nat
  <2> HIDE DEF num
  <2> QED
    BY <1>1, <1>4, NextPlace
<1>6. /\ x.size \div BlockSize = k
      /\ (x.size % BlockSize) \div DentrySize = p
      /\ x.size % BlockSize = 0 <=> p = 0
  <2> HIDE DEF num
  <2>1. LET s == num * DentrySize IN
           /\ s \div BlockSize = num \div DirPageEntries
           /\ (s % BlockSize) \div DentrySize = num % DirPageEntries
           /\ s % BlockSize = 0 <=> num % DirPageEntries = 0
    BY <1>1, EntrySlot
  <2> QED
    BY <1>1, <2>1
<1>7. NeedsBlock(x) <=> p = 0
  BY <1>6 DEF NeedsBlock
<1>8. b \in Blocks /\ (p = 0 => b \notin f.blk_bmap) /\ (p # 0 => b = x.blocks[k])
  <2>1. CASE p = 0
    <3>1. FreeBlocks(f) \subseteq Nat /\ FreeBlocks(f) # {}
      BY <1>7, <2>1, Sizes DEF FreeBlocks
    <3>2. b0 \in FreeBlocks(f)
      BY <3>1, LowestIn
    <3>3. b = b0
      BY <1>7, <2>1
    <3> HIDE DEF b0, b
    <3> QED
      BY <2>1, <3>2, <3>3 DEF FreeBlocks
  <2>2. CASE p # 0
    <3>1. b = x.blocks[k]
      BY <1>7, <2>2
    <3>2. k * DirPageEntries < num
      <4> HIDE DEF k, p, num
      <4> QED
        BY <1>1, <1>5, <2>2, Sizes
    <3>3. x.blocks[k] \in Blocks
      BY <1>5, <3>2, PageBlock
    <3> QED
      BY <2>2, <3>1, <3>3
  <2> QED
    BY <2>1, <2>2
<1>9. e \in Dentry
  BY <1>3 DEF Dentry
<1> HIDE DEF p, e
<1>10. /\ h \in FsStruct
       /\ h.inode_tab = tab1
       /\ h.blk_bmap = B
       /\ h.page = f.page /\ h.inode_bmap = f.inode_bmap
       /\ h.inode_cache = f.inode_cache /\ h.dir_cache = f.dir_cache
  <2>1. CASE p = 0
    <3>1. b = b0 /\ NeedsBlock(x)
      BY <1>7, <2>1
    <3> HIDE DEF k, b
    <3>2. h = [f EXCEPT !.blk_bmap = @ \cup {b}, !.inode_tab[d].blocks[k] = b]
      BY <1>6, <3>1 DEF Extended
    <3>3. z \in Inode
      BY <1>1, <1>5, <1>8 DEF Inode
    <3>4. tab1 \in [InodeNums -> Inode] /\ B \subseteq Blocks
      BY <1>1, <1>2, <1>8, <3>3
    <3>5. h = [f EXCEPT !.blk_bmap = B, !.inode_tab = tab1]
      BY <3>2
    <3> HIDE DEF z, tab1, h, B
    <3> QED
      BY <1>2, <3>4, <3>5 DEF FsStruct
  <2>2. CASE p # 0
    <3>1. h = f
      BY <1>7, <2>2 DEF Extended
    <3>2. b = x.blocks[k] /\ b \in f.blk_bmap
      <4>1. b = x.blocks[k] /\ b # 0
        BY <1>8, <2>2, Sizes
      <4> HIDE DEF b, k
      <4> QED
        BY <1>1, <1>5, <4>1 DEF BlocksOf
    <3> HIDE DEF k, b
    <3>3. x.blocks = [j \in Indices |-> x.blocks[j]]
      BY <1>1, InodeFields
    <3>4. z = x
      BY <1>1, <1>5, <3>2, <3>3 DEF Inode
    <3>5. tab1 = f.inode_tab
      BY <1>1, <1>2, <3>4
    <3>6. B = f.blk_bmap
      BY <3>2
    <3> QED
      BY <1>2, <3>1, <3>5, <3>6
  <2> QED
    BY <2>1, <2>2
<1> HIDE DEF k, b, h
<1>11. /\ z \in Inode /\ z.type = x.type /\ z.size = x.size
       /\ \A j \in Indices : z.blocks[j] = IF j = k THEN b ELSE x.blocks[j]
  BY <1>1, <1>5, <1>8 DEF Inode
<1>12. x.size + DentrySize \in Nat /\ x.size + DentrySize = (num + 1) * DentrySize
  BY <1>1, BlockIsPage
<1>13. /\ y \in Inode /\ y.type = x.type /\ y.size = x.size + DentrySize
       /\ y.blocks = z.blocks
  <2> HIDE DEF z
  <2> QED
    BY <1>11, <1>12 DEF Inode
<1>14. tab1 \in [InodeNums -> Inode] /\ tab1[d] = z
  <2> HIDE DEF z
  <2> QED
    BY <1>1, <1>2, <1>11
<1> HIDE DEF z, tab1
<1>15. h.inode_tab[d].size = x.size /\ h.inode_tab[d].blocks[x.size \div BlockSize] = b
  BY <1>5, <1>6, <1>10, <1>11, <1>14
<1>16. g = [f EXCEPT !.inode_tab = tab2, !.page = page2, !.inode_bmap = I, !.blk_bmap = B]
  <2>1. (h.inode_tab[d].size % BlockSize) \div DentrySize = p
    BY <1>6, <1>15
  <2>2. g = [h EXCEPT !.page = [h.page EXCEPT ![b][p] = e],
                      !.inode_bmap = h.inode_bmap \cup {n},
                      !.inode_tab = [h.inode_tab EXCEPT ![d].size = @ + DentrySize, ![n] = InodeInit(type)]]
    <3>1. h.inode_tab[d].blocks[h.inode_tab[d].size \div BlockSize] = b
      BY <1>15
    <3> HIDE DEF B, tab2, page2, I, y, x, num
    <3> QED
      BY <2>1, <3>1 DEF AddEntry, e
  <2>3. [h.inode_tab EXCEPT ![d].size = @ + DentrySize, ![n] = InodeInit(type)] = tab2
    <3>1. [h.inode_tab EXCEPT ![d].size = @ + DentrySize, ![n] = InodeInit(type)]
            = [tab1 EXCEPT ![d] = [tab1[d] EXCEPT !.size = tab1[d].size + DentrySize], ![n] = InodeInit(type)]
      BY <1>10
    <3>2. [tab1[d] EXCEPT !.size = tab1[d].size + DentrySize] = y
      BY <1>11, <1>14
    <3> HIDE DEF y
    <3> QED
      BY <3>1, <3>2
  <2>4. h.page = f.page /\ h.inode_bmap = f.inode_bmap
    BY <1>10
  <2>5. g = [h EXCEPT !.page = page2, !.inode_bmap = I, !.inode_tab = tab2]
    BY <2>2, <2>3, <2>4
  <2> HIDE DEF tab2, page2, I, g, B
  <2> QED
    BY <1>2, <1>10, <2>5 DEF FsStruct
<1>17. /\ tab2 \in [InodeNums -> Inode]
       /\ tab2[d] = y /\ tab2[n] = InodeInit(type)
       /\ \A m \in InodeNums \ {d, n} : tab2[m] = f.inode_tab[m]
  <2>1. InodeInit(type) \in Inode
    BY DEF InodeInit, Inode
  <2>2. \A m \in InodeNums \ {d} : tab1[m] = f.inode_tab[m]
    BY <1>1, <1>2 DEF tab1
  <2> HIDE DEF y
  <2> QED
    BY <1>1, <1>3, <1>13, <1>14, <2>1, <2>2
<1> HIDE DEF y, tab2
<1>18. /\ page2 \in [Blocks -> Page]
       /\ page2[b][p] = e
       /\ \A c \in Blocks, q \in Positions : c # b \/ q # p => page2[c][q] = f.page[c][q]
  BY <1>2, <1>5, <1>8, <1>9 DEF Page
<1>19. I \subseteq InodeNums /\ B \subseteq Blocks
  BY <1>2, <1>3, <1>8
<1>20. B = f.blk_bmap \cup {b} /\ I = f.inode_bmap \cup {n}
  OBVIOUS
<1> HIDE DEF page2, B, I, g
<1>21. /\ g \in FsStruct
       /\ g.inode_tab = tab2 /\ g.page = page2 /\ g.inode_bmap = I /\ g.blk_bmap = B
       /\ g.inode_cache = f.inode_cache /\ g.dir_cache = f.dir_cache
  BY <1>2, <1>16, <1>17, <1>18, <1>19 DEF FsStruct
<1>22. x.type = "dir"
  BY DEF DirsIn
<1>23. \A j \in Indices : g.inode_tab[d].blocks[j] = IF j = k THEN b ELSE x.blocks[j]
  BY <1>11, <1>13, <1>17, <1>21
<1>24. g.inode_tab[d].type = "dir" /\ g.inode_tab[d].size = (num + 1) * DentrySize
  BY <1>12, <1>13, <1>17, <1>21, <1>22
<1>25. EntryAdded(f, g, d, n, type, e, b)
  <2>1. g.page[b][p] = e /\ \A c \in Blocks, q \in Positions : c # b \/ q # p => g.page[c][q] = f.page[c][q]
    BY <1>18, <1>21
  <2>2. g.inode_tab[n] = InodeInit(type) /\ \A m \in InodeNums \ {d, n} : g.inode_tab[m] = f.inode_tab[m]
    BY <1>17, <1>21
  <2>3. /\ g.inode_bmap = f.inode_bmap \cup {n} /\ g.blk_bmap = f.blk_bmap \cup {b}
        /\ g.inode_cache = f.inode_cache /\ g.dir_cache = f.dir_cache /\ g \in FsStruct
    BY <1>20, <1>21
  <2> QED
    BY <1>5, <1>8, <1>23, <1>24, <2>1, <2>2, <2>3 DEF EntryAdded, k, p
<1> QED
  BY <1>25 DEF g, h, e

\* The block that the entry goes into is not one of another inode, nor another
\* one of the directory.
LEMMA NewBlock ==
    ASSUME NEW f, FsInv(f), NEW d \in DirsIn(f), NEW n \in FreeInodes(f), NEW type, NEW e, NEW b,
           NEW g, EntryAdded(f, g, d, n, type, e, b)
    PROVE  /\ \A m \in InodeNums \ {d} : \A y \in CopiesIn(f, m) : b \notin BlocksOf(y)
           /\ \A j \in Indices : j # NumOf(f.inode_tab[d]) \div DirPageEntries =>
                  f.inode_tab[d].blocks[j] # b
<1> DEFINE x == f.inode_tab[d]
           k == NumOf(x) \div DirPageEntries
           p == NumOf(x) % DirPageEntries
<1>1. k \in Indices /\ b \in Blocks /\ (p = 0 => b \notin f.blk_bmap) /\ (p # 0 => b = x.blocks[k])
  BY DEF EntryAdded
<1>2. /\ d \in InodeNums /\ x \in CopiesIn(f, d) /\ Distinct(x) /\ BlocksOf(x) \subseteq f.blk_bmap
      /\ b # 0
  BY <1>1, DirFacts, Sizes DEF CopiesIn
<1> HIDE DEF k, p
<1>3. \A m \in InodeNums \ {d} : \A y \in CopiesIn(f, m) :
          BlocksOf(y) \subseteq f.blk_bmap /\ BlocksOf(x) \cap BlocksOf(y) = {}
  BY <1>2 DEF FsInv, BlocksInv
<1>4. CASE p = 0
  <2>1. \A j \in Indices : x.blocks[j] # b
    BY <1>1, <1>2, <1>4 DEF BlocksOf
  <2> HIDE DEF x
  <2> QED
    BY <1>1, <1>3, <1>4, <2>1 DEF x
<1>5. CASE p # 0
  <2>1. b = x.blocks[k] /\ b \in BlocksOf(x)
    BY <1>1, <1>2, <1>5 DEF BlocksOf
  <2>2. \A j \in Indices : j # k => x.blocks[j] # b
    BY <1>1, <1>2, <2>1 DEF Distinct
  <2>3. \A m \in InodeNums \ {d} : \A y \in CopiesIn(f, m) : b \notin BlocksOf(y)
    BY <1>3, <2>1
  <2> QED
    BY <2>2, <2>3 DEF k
<1> QED
  BY <1>4, <1>5

\* The new entry is in the place behind the others, which stay where they are.
LEMMA AddedPlaces ==
    ASSUME NEW f, FsInv(f), NEW d \in DirsIn(f), NEW n \in FreeInodes(f),
           NEW type \in {"dir", "file"}, NEW e, NEW b,
           NEW g, EntryAdded(f, g, d, n, type, e, b)
    PROVE  /\ n \in InodeNums \ DirsIn(f) /\ d \in InodeNums
           /\ DirsIn(f) \subseteq DirsIn(g) /\ DirsIn(g) \subseteq DirsIn(f) \cup {n}
           /\ NumOf(g.inode_tab[n]) = 0
           /\ NumOf(g.inode_tab[d]) = NumOf(f.inode_tab[d]) + 1
           /\ \A c \in DirsIn(f) \ {d} : g.inode_tab[c] = f.inode_tab[c]
           /\ \A c \in DirsIn(f) : \A i \in 0 .. NumOf(f.inode_tab[c]) - 1 :
                 PlaceIn(g, g.inode_tab[c], i) = PlaceIn(f, f.inode_tab[c], i)
           /\ PlaceIn(g, g.inode_tab[d], NumOf(f.inode_tab[d])) = e
<1> DEFINE x == f.inode_tab[d]
           num == NumOf(x)
           k == num \div DirPageEntries
           p == num % DirPageEntries
           y == g.inode_tab[d]
<1>1. /\ k \in Indices /\ p \in Positions /\ num = k * DirPageEntries + p /\ b \in Blocks
      /\ (p # 0 => b = x.blocks[k])
      /\ y.type = "dir" /\ y.size = (num + 1) * DentrySize
      /\ \A j \in Indices : y.blocks[j] = IF j = k THEN b ELSE x.blocks[j]
      /\ g.inode_tab[n] = InodeInit(type)
      /\ \A m \in InodeNums \ {d, n} : g.inode_tab[m] = f.inode_tab[m]
      /\ g.page[b][p] = e
      /\ \A c \in Blocks, q \in Positions : c # b \/ q # p => g.page[c][q] = f.page[c][q]
  BY DEF EntryAdded
<1>2. d \in InodeNums /\ d \in f.inode_bmap /\ num \in Nat /\ x.type = "dir"
  BY DirFacts DEF DirsIn
<1>3. n \in InodeNums /\ n # d /\ n \notin DirsIn(f)
  <2>1. n \in InodeNums /\ n \notin f.inode_bmap
    BY DEF FreeInodes
  <2> QED
    BY <1>2, <2>1, DirFacts
<1> HIDE DEF k, p, y, num
<1>4. \A c \in DirsIn(f) \ {d} : g.inode_tab[c] = f.inode_tab[c]
  BY <1>1, <1>3 DEF DirsIn
<1>5. DirsIn(f) \subseteq DirsIn(g)
  BY <1>1, <1>2, <1>4 DEF DirsIn, y
<1>6. DirsIn(g) \subseteq DirsIn(f) \cup {n}
  BY <1>1, <1>2 DEF DirsIn
<1>7. NumOf(g.inode_tab[n]) = 0
  <2>1. g.inode_tab[n].size = 0
    BY <1>1 DEF InodeInit
  <2>2. (0 * DentrySize) \div DentrySize = 0 /\ 0 * DentrySize = 0
    BY EntrySlot, BlockIsPage
  <2> QED
    BY <2>1, <2>2 DEF NumOf
<1>8. NumOf(y) = num + 1
  <2> DEFINE s == num + 1
  <2>1. s \in Nat
    BY <1>2
  <2> HIDE DEF s
  <2>2. (s * DentrySize) \div DentrySize = s
    BY <2>1, EntrySlot
  <2> QED
    BY <1>1, <2>2 DEF NumOf, s
<1>9. PlaceIn(g, y, num) = e
  BY <1>1 DEF PlaceIn, k, p
<1>10. ASSUME NEW c \in DirsIn(f), NEW i \in 0 .. NumOf(f.inode_tab[c]) - 1
       PROVE  PlaceIn(g, g.inode_tab[c], i) = PlaceIn(f, f.inode_tab[c], i)
  <2> DEFINE j == i \div DirPageEntries
             q == i % DirPageEntries
             a == f.inode_tab[c].blocks[j]
  <2>1. j \in Indices /\ q \in Positions /\ a \in Blocks
    BY PlaceFacts
  <2>2. i = j * DirPageEntries + q
    <3>1. i \in Nat /\ DirPageEntries \in Nat \ {0}
      BY DirFacts, BlockIsPage
    <3> QED
      BY <3>1, DivMod
  <2> HIDE DEF j, q, a
  <2>3. CASE c # d
    <3>1. g.inode_tab[c] = f.inode_tab[c]
      BY <1>4, <2>3
    <3>2. c \in InodeNums /\ f.inode_tab[c] \in CopiesIn(f, c) /\ a \in BlocksOf(f.inode_tab[c])
      BY <2>1, Sizes DEF CopiesIn, DirsIn, BlocksOf, a
    <3>3. a # b
      BY <2>3, <3>2, NewBlock
    <3>4. g.page[a][q] = f.page[a][q]
      BY <1>1, <2>1, <3>3
    <3> QED
      BY <3>1, <3>4 DEF PlaceIn, a, j, q
  <2>4. CASE c = d /\ j # k
    <3>1. a # b
      BY <2>1, <2>4, NewBlock DEF a, k, num
    <3>2. g.page[a][q] = f.page[a][q]
      BY <1>1, <2>1, <3>1
    <3>3. y.blocks[j] = a
      BY <1>1, <2>1, <2>4 DEF a
    <3> QED
      BY <2>4, <3>2, <3>3 DEF PlaceIn, a, j, q, y
  <2>5. CASE c = d /\ j = k
    <3>1. i < num /\ i \in Nat
      BY <1>2, <2>5 DEF num
    <3>2. q < p /\ q \in Nat /\ p \in Nat
      <4>1. k * DirPageEntries \in Nat /\ q \in Nat /\ p \in Nat
        BY <1>1, <2>1, Sizes, BlockIsPage
      <4> QED
        BY <1>1, <2>2, <2>5, <3>1, <4>1
    <3>3. b = x.blocks[k] /\ a = b /\ y.blocks[j] = a
      BY <1>1, <2>1, <2>5, <3>2 DEF a
    <3>4. g.page[a][q] = f.page[a][q]
      BY <1>1, <2>1, <3>2
    <3> QED
      BY <2>5, <3>3, <3>4 DEF PlaceIn, a, j, q, y
  <2> QED
    BY <2>3, <2>4, <2>5
<1> QED
  BY <1>2, <1>3, <1>4, <1>5, <1>6, <1>7, <1>8, <1>9, <1>10 DEF y, num

\* A new entry for a new inode keeps the tree.
LEMMA AddedTree ==
    ASSUME NEW f, FsInv(f), NEW d \in DirsIn(f), NEW n \in FreeInodes(f),
           NEW type \in {"dir", "file"}, NEW e \in Dentry, e.name \in Names, e.inode = n, NEW b,
           NEW g, EntryAdded(f, g, d, n, type, e, b)
    PROVE  TreeInv(g) /\ DirCacheInv(g)
<1> DEFINE num == NumOf(f.inode_tab[d])
           N(c) == 0 .. NumOf(f.inode_tab[c]) - 1
           M(c) == 0 .. NumOf(g.inode_tab[c]) - 1
           F(c, i) == PlaceIn(f, f.inode_tab[c], i)
           G(c, i) == PlaceIn(g, g.inode_tab[c], i)
<1>1. /\ n \in InodeNums \ DirsIn(f) /\ d \in InodeNums
      /\ DirsIn(f) \subseteq DirsIn(g) /\ DirsIn(g) \subseteq DirsIn(f) \cup {n}
      /\ NumOf(g.inode_tab[n]) = 0
      /\ NumOf(g.inode_tab[d]) = num + 1
      /\ \A c \in DirsIn(f) \ {d} : g.inode_tab[c] = f.inode_tab[c]
      /\ \A c \in DirsIn(f) : \A i \in N(c) : G(c, i) = F(c, i)
      /\ G(d, num) = e
  BY AddedPlaces
<1>2. num \in Nat /\ g.inode_bmap = f.inode_bmap \cup {n} /\ n \notin f.inode_bmap
  BY DirFacts DEF EntryAdded, FreeInodes
<1>3. n \notin {0, Root}
  BY <1>2 DEF FsInv, KindInv
<1>4. \A c \in DirsIn(f) : \A i \in N(c) : F(c, i).name \in Names /\ F(c, i).inode \in f.inode_bmap \ {0, Root}
  BY DEF FsInv, TreeInv
<1>5. \A c, a \in DirsIn(f) : \A i \in N(c), j \in N(a) :
          F(c, i).inode = F(a, j).inode => c = a /\ i = j
  BY DEF FsInv, TreeInv
<1>6. \A m \in f.inode_bmap \ {0, Root} : \E c \in DirsIn(f) : \E i \in N(c) : F(c, i).inode = m
  BY DEF FsInv, TreeInv
<1>7. \A c \in DirsIn(f) : N(c) \subseteq M(c)
  <2> TAKE c \in DirsIn(f)
  <2>1. CASE c = d
    BY <1>1, <1>2, <2>1
  <2>2. CASE c # d
    <3>1. g.inode_tab[c] = f.inode_tab[c]
      BY <1>1, <2>2
    <3> QED
      BY <3>1
  <2> QED
    BY <2>1, <2>2
<1>8. num \in M(d)
  BY <1>1, <1>2
<1>9. \A c \in DirsIn(g) : \A i \in M(c) :
          c \in DirsIn(f) /\ (i \in N(c) \/ (c = d /\ i = num))
  <2> TAKE c \in DirsIn(g)
  <2> TAKE i \in M(c)
  <2>1. c # n
    BY <1>1
  <2>2. c \in DirsIn(f)
    BY <1>1, <2>1
  <2>3. CASE c = d
    BY <1>1, <1>2, <2>2, <2>3
  <2>4. CASE c # d
    <3>1. g.inode_tab[c] = f.inode_tab[c]
      BY <1>1, <2>2, <2>4
    <3> QED
      BY <2>2, <3>1
  <2> QED
    BY <2>3, <2>4
<1> HIDE DEF num, N, M, F, G
<1>10. \A c \in DirsIn(g) : \A i \in M(c) : G(c, i).name \in Names /\ G(c, i).inode \in g.inode_bmap \ {0, Root}
  BY <1>1, <1>2, <1>3, <1>4, <1>9
<1>11. \A c, a \in DirsIn(g) : \A i \in M(c), j \in M(a) :
           G(c, i).inode = G(a, j).inode => c = a /\ i = j
  BY <1>1, <1>2, <1>4, <1>5, <1>9
<1>12. \A m \in g.inode_bmap \ {0, Root} : \E c \in DirsIn(g) : \E i \in M(c) : G(c, i).inode = m
  <2> TAKE m \in g.inode_bmap \ {0, Root}
  <2>1. CASE m = n
    BY <1>1, <1>8, <2>1
  <2>2. CASE m # n
    <3>1. PICK c \in DirsIn(f) : \E i \in N(c) : F(c, i).inode = m
      BY <1>2, <1>6, <2>2
    <3>2. PICK i \in N(c) : F(c, i).inode = m
      BY <3>1
    <3>3. c \in DirsIn(g) /\ i \in M(c) /\ G(c, i).inode = m
      BY <1>1, <1>7, <3>1, <3>2
    <3> QED
      BY <3>3
  <2> QED
    BY <2>1, <2>2
<1>13. TreeInv(g)
  BY <1>10, <1>11, <1>12 DEF TreeInv, M, G
<1>14. \A c \in DirsIn(f) : EntriesIn(f, c) \subseteq EntriesIn(g, c)
  <2> TAKE c \in DirsIn(f)
  <2> SUFFICES ASSUME NEW w \in EntriesIn(f, c) PROVE w \in EntriesIn(g, c)
    OBVIOUS
  <2>1. PICK i \in N(c) : w = F(c, i)
    BY DEF EntriesIn, N, F
  <2>2. i \in M(c) /\ w = G(c, i)
    BY <1>1, <1>7, <2>1
  <2> QED
    BY <2>2 DEF EntriesIn, M, G
<1>15. DirCacheInv(g)
  <2>1. g.dir_cache = f.dir_cache
    BY DEF EntryAdded
  <2>2. DirCacheInv(f)
    BY DEF FsInv
  <2> QED
    BY <1>1, <1>14, <2>1, <2>2 DEF DirCacheInv
<1> QED
  BY <1>13, <1>15

\* The directory has the block that its new size needs.
LEMMA AddedCovers ==
    ASSUME NEW f, FsInv(f), NEW d \in DirsIn(f), NEW n \in FreeInodes(f), NEW type, NEW e, NEW b,
           NEW g, EntryAdded(f, g, d, n, type, e, b)
    PROVE  Covered(g.inode_tab[d]) /\ Distinct(g.inode_tab[d])
<1> DEFINE x == f.inode_tab[d]
           num == NumOf(x)
           k == num \div DirPageEntries
           p == num % DirPageEntries
           y == g.inode_tab[d]
           D == DirPageEntries
           new == num + 1
<1>1. /\ k \in Indices /\ p \in Positions /\ num = k * D + p /\ b \in Blocks
      /\ y.size = new * DentrySize
      /\ \A j \in Indices : y.blocks[j] = IF j = k THEN b ELSE x.blocks[j]
  BY DEF EntryAdded
<1>2. num \in Nat /\ x.size = num * DentrySize /\ Covered(x) /\ Distinct(x) /\ b # 0
  BY <1>1, DirFacts, Sizes
<1>3. num < InodeNumBlks * D
  BY NumBound
<1>4. \A j \in Indices : j # k => x.blocks[j] # b
  BY NewBlock
<1>5. D \in Nat \ {0} /\ p \in 0 .. D - 1 /\ k \in Nat /\ InodeNumBlks \in Nat
  BY <1>1, BlockIsPage, Sizes, InodesAssumption DEF Positions
<1> HIDE DEF k, p, y, num, D, x
<1>6. new \in Nat
  BY <1>2
<1> HIDE DEF new
<1>7. OffsetToBlocks(new * DentrySize) \in Nat
  BY <1>6, <1>5, DirCeil
<1>8. OffsetToBlocks(new * DentrySize) <= InodeNumBlks
  <2> SUFFICES ASSUME InodeNumBlks < OffsetToBlocks(new * DentrySize) PROVE FALSE
    BY <1>5, <1>7
  <2>1. InodeNumBlks * D \in Nat /\ InodeNumBlks * D < new
    BY <1>5, <1>6, DirCeil DEF D
  <2> QED
    BY <1>2, <1>3, <2>1 DEF new
<1>9. ASSUME NEW i \in Indices, i < OffsetToBlocks(new * DentrySize), i # k
      PROVE  x.blocks[i] # 0
  <2>1. i \in Nat
    BY Sizes
  <2>2. i * D \in Nat /\ i * D < new
    BY <1>6, <1>9, <2>1, DirCeil DEF D
  <2>3. i * D # num
    <3> SUFFICES ASSUME i * D = num PROVE FALSE
      OBVIOUS
    <3>1. (i * D + 0) \div D = i
      <4>1. 0 \in 0 .. D - 1
        BY <1>5
      <4> QED
        BY <1>5, <2>1, <4>1, DivUnique
    <3>2. i = num \div D
      BY <1>2, <3>1
    <3> QED
      BY <1>9, <3>2 DEF k, D
  <2>4. i * D < num
    BY <1>2, <2>2, <2>3 DEF new
  <2>5. i < OffsetToBlocks(num * DentrySize)
    BY <1>2, <2>1, <2>4, DirCeil DEF D
  <2> QED
    BY <1>2, <2>5 DEF Covered
<1>10. Covered(y)
  <2>1. \A i \in Indices : i < OffsetToBlocks(new * DentrySize) => y.blocks[i] # 0
    BY <1>1, <1>2, <1>9
  <2> QED
    BY <1>1, <1>8, <2>1 DEF Covered
<1>11. Distinct(y)
  BY <1>1, <1>2, <1>4 DEF Distinct
<1> QED
  BY <1>10, <1>11 DEF y

\* Its blocks are its own.
LEMMA AddedBlocks ==
    ASSUME NEW f, FsInv(f), NEW d \in DirsIn(f), NEW n \in FreeInodes(f),
           NEW type \in {"dir", "file"}, NEW e, NEW b,
           NEW g, EntryAdded(f, g, d, n, type, e, b)
    PROVE  BlocksInv(g)
<1> DEFINE x == f.inode_tab[d]
           k == NumOf(x) \div DirPageEntries
           y == g.inode_tab[d]
           z == g.inode_tab[n]
<1>1. /\ k \in Indices /\ b \in Blocks
      /\ \A j \in Indices : y.blocks[j] = IF j = k THEN b ELSE x.blocks[j]
      /\ z = InodeInit(type)
      /\ \A m \in InodeNums \ {d, n} : g.inode_tab[m] = f.inode_tab[m]
      /\ g.blk_bmap = f.blk_bmap \cup {b}
      /\ g.inode_cache = f.inode_cache
  BY DEF EntryAdded
<1>2. /\ d \in InodeNums /\ x \in CopiesIn(f, d) /\ BlocksOf(x) \subseteq f.blk_bmap
      /\ BlocksInv(f)
  BY DirFacts DEF CopiesIn, FsInv
<1>3. \A m \in InodeNums \ {d} : \A w \in CopiesIn(f, m) : b \notin BlocksOf(w)
  BY NewBlock
<1>4. Covered(y) /\ Distinct(y)
  BY AddedCovers
<1> HIDE DEF k, y, x, z
<1>5. BlocksOf(y) \subseteq BlocksOf(x) \cup {b}
  BY <1>1 DEF BlocksOf
<1>6. BlocksOf(y) \subseteq g.blk_bmap
  BY <1>1, <1>2, <1>5
<1>7. Covered(z) /\ Distinct(z) /\ BlocksOf(z) = {}
  <2>1. z.size = 0 /\ \A j \in Indices : z.blocks[j] = 0
    BY <1>1 DEF InodeInit
  <2>2. OffsetToBlocks(0) = 0
    BY InodesAssumption DEF OffsetToBlocks
  <2>3. InodeNumBlks \in Nat /\ \A i \in Indices : i \in Nat
    BY InodesAssumption, Sizes
  <2> QED
    BY <2>1, <2>2, <2>3 DEF Covered, Distinct, BlocksOf
<1>8. ASSUME NEW m \in InodeNums, NEW w \in CopiesIn(g, m)
      PROVE  \/ w \in CopiesIn(f, m)
             \/ m = d /\ w = y /\ Covered(y) /\ Distinct(y) /\ BlocksOf(y) \subseteq g.blk_bmap
             \/ Covered(w) /\ Distinct(w) /\ BlocksOf(w) = {}
  <2>1. CASE w = g.inode_tab[m]
    <3>1. CASE m = d
      BY <1>4, <1>6, <2>1, <3>1 DEF y
    <3>2. CASE m = n
      BY <1>7, <2>1, <3>2 DEF z
    <3>3. CASE m \notin {d, n}
      BY <1>1, <2>1, <3>3 DEF CopiesIn
    <3> QED
      BY <3>1, <3>2, <3>3
  <2>2. CASE w # g.inode_tab[m]
    <3>1. w \in {g.inode_cache[i].inode : i \in CachedAt(g, m)}
      BY <2>2 DEF CopiesIn
    <3>2. w \in {f.inode_cache[i].inode : i \in CachedAt(f, m)}
      BY <1>1, <3>1 DEF CachedAt
    <3> QED
      BY <3>2 DEF CopiesIn
  <2> QED
    BY <2>1, <2>2
<1>9. \A m \in InodeNums \ {d} : \A w \in CopiesIn(f, m) : BlocksOf(y) \cap BlocksOf(w) = {}
  <2>1. \A m \in InodeNums \ {d} : \A w \in CopiesIn(f, m) : BlocksOf(x) \cap BlocksOf(w) = {}
    BY <1>2 DEF BlocksInv
  <2> QED
    BY <1>3, <1>5, <2>1
<1>10. f.blk_bmap \subseteq g.blk_bmap
  BY <1>1
<1> QED
  BY <1>2, <1>8, <1>9, <1>10, BlocksKept

\* What is behind the last entry stays blank.
LEMMA AddedPages ==
    ASSUME NEW f, FsInv(f), NEW d \in DirsIn(f), NEW n \in FreeInodes(f),
           NEW type \in {"dir", "file"}, NEW e, NEW b,
           NEW g, EntryAdded(f, g, d, n, type, e, b)
    PROVE  PagesInv(g)
<1> DEFINE x == f.inode_tab[d]
           num == NumOf(x)
           k == num \div DirPageEntries
           p == num % DirPageEntries
           y == g.inode_tab[d]
           D == DirPageEntries
<1>1. /\ k \in Indices /\ p \in Positions /\ num = k * D + p /\ b \in Blocks
      /\ (p = 0 => b \notin f.blk_bmap) /\ (p # 0 => b = x.blocks[k])
      /\ y.size = (num + 1) * DentrySize
      /\ \A j \in Indices : y.blocks[j] = IF j = k THEN b ELSE x.blocks[j]
      /\ g.inode_tab[n] = InodeInit(type)
      /\ g.blk_bmap = f.blk_bmap \cup {b}
      /\ \A c \in Blocks, q \in Positions : c # b \/ q # p => g.page[c][q] = f.page[c][q]
      /\ g \in FsStruct
  BY DEF EntryAdded
<1>2. /\ \A m \in InodeNums \ {d} : \A w \in CopiesIn(f, m) : b \notin BlocksOf(w)
      /\ \A j \in Indices : j # k => x.blocks[j] # b
  BY NewBlock
<1>3. /\ n \in InodeNums \ DirsIn(f) /\ d \in InodeNums
      /\ DirsIn(g) \subseteq DirsIn(f) \cup {n}
      /\ NumOf(g.inode_tab[n]) = 0
      /\ NumOf(y) = num + 1
      /\ \A c \in DirsIn(f) \ {d} : g.inode_tab[c] = f.inode_tab[c]
  BY AddedPlaces
<1>4. /\ f.page \in [Blocks -> Page] /\ g.page \in [Blocks -> Page]
  BY <1>1, Fields DEF FsInv
<1>5. /\ num \in Nat /\ b # 0 /\ p \in Nat /\ k * D \in Nat
      /\ \A j \in Indices : x.blocks[j] \in Blocks \cup {0} /\ j * D \in Nat
      /\ \A q \in Positions : q \in Nat
  <2>1. num \in Nat /\ x \in Inode
    BY DirFacts
  <2> HIDE DEF num, x, k, p
  <2>2. x.blocks \in [Indices -> Blocks \cup {0}]
    BY <2>1, InodeFields
  <2>3. D \in Nat /\ \A j \in Indices : j \in Nat
    BY Sizes, BlockIsPage
  <2> HIDE DEF D
  <2> QED
    BY <1>1, <2>1, <2>2, <2>3, Sizes
<1>6. \A c \in Blocks \ f.blk_bmap : f.page[c] = ZeroPage
  BY DEF FsInv, PagesInv
<1>7. \A a \in DirsIn(f) : LET w == f.inode_tab[a] IN
          /\ w.size = NumOf(w) * DentrySize
          /\ \A j \in Indices : w.blocks[j] # 0 => j * DirPageEntries < NumOf(w)
          /\ \A j \in Indices, q \in Positions :
                w.blocks[j] # 0 /\ j * DirPageEntries + q >= NumOf(w) =>
                    f.page[w.blocks[j]][q] = NoDentry
  BY DEF FsInv, PagesInv
<1>8. /\ \A j \in Indices : x.blocks[j] # 0 => j * D < num
      /\ \A j \in Indices, q \in Positions :
            x.blocks[j] # 0 /\ j * D + q >= num => f.page[x.blocks[j]][q] = NoDentry
  BY <1>7
<1> HIDE DEF k, p, y, num, x, D
<1>9. ASSUME NEW c \in Blocks, c \notin g.blk_bmap
      PROVE  g.page[c] = ZeroPage
  <2>1. c # b /\ f.page[c] = ZeroPage
    BY <1>1, <1>6, <1>9
  <2>2. \A q \in Positions : g.page[c][q] = f.page[c][q]
    BY <1>1, <2>1
  <2>3. f.page[c] \in [Positions -> Dentry] /\ g.page[c] \in [Positions -> Dentry]
    BY <1>4 DEF Page
  <2>4. g.page[c] = f.page[c]
    BY <2>2, <2>3
  <2> QED
    BY <2>1, <2>4
<1>10. ASSUME NEW j \in Indices, y.blocks[j] # 0
       PROVE  j * D < num + 1
  <2>1. CASE j = k
    BY <1>1, <1>5, <2>1
  <2>2. CASE j # k
    BY <1>1, <1>5, <1>8, <1>10, <2>2
  <2> QED
    BY <2>1, <2>2
<1>11. ASSUME NEW j \in Indices, NEW q \in Positions, y.blocks[j] # 0, j * D + q >= num + 1
       PROVE  g.page[y.blocks[j]][q] = NoDentry
  <2>1. CASE j = k
    <3>1. y.blocks[j] = b /\ q # p
      BY <1>1, <1>5, <1>11, <2>1
    <3>2. g.page[b][q] = f.page[b][q]
      BY <1>1, <3>1
    <3>3. f.page[b][q] = NoDentry
      <4>1. CASE p = 0
        <5>1. f.page[b] = ZeroPage
          BY <1>1, <1>6, <4>1
        <5> QED
          BY <5>1 DEF ZeroPage
      <4>2. CASE p # 0
        <5>1. x.blocks[j] = b /\ x.blocks[j] # 0
          BY <1>1, <1>5, <2>1, <4>2
        <5>2. j * D + q >= num
          BY <1>5, <1>11
        <5> QED
          BY <1>8, <5>1, <5>2
      <4> QED
        BY <4>1, <4>2
    <3> QED
      BY <3>1, <3>2, <3>3
  <2>2. CASE j # k
    <3>1. y.blocks[j] = x.blocks[j] /\ x.blocks[j] # b /\ x.blocks[j] \in Blocks
      BY <1>1, <1>2, <1>5, <1>11, <2>2
    <3>2. g.page[x.blocks[j]][q] = f.page[x.blocks[j]][q]
      BY <1>1, <3>1
    <3>3. j * D + q >= num
      BY <1>5, <1>11
    <3> QED
      BY <1>8, <1>11, <3>1, <3>2, <3>3
  <2> QED
    BY <2>1, <2>2
<1>12. ASSUME NEW a \in DirsIn(g)
       PROVE  LET w == g.inode_tab[a] IN
              /\ w.size = NumOf(w) * DentrySize
              /\ \A j \in Indices : w.blocks[j] # 0 => j * DirPageEntries < NumOf(w)
              /\ \A j \in Indices, q \in Positions :
                    w.blocks[j] # 0 /\ j * DirPageEntries + q >= NumOf(w) =>
                        g.page[w.blocks[j]][q] = NoDentry
  <2>1. CASE a = d
    BY <1>1, <1>3, <1>10, <1>11, <2>1 DEF y, D
  <2>2. CASE a = n
    <3>1. g.inode_tab[n].size = 0 /\ \A j \in Indices : g.inode_tab[n].blocks[j] = 0
      BY <1>1 DEF InodeInit
    <3>2. 0 * DentrySize = 0
      BY BlockIsPage
    <3> QED
      BY <1>3, <2>2, <3>1, <3>2
  <2>3. CASE a \notin {d, n}
    <3>1. a \in DirsIn(f) /\ g.inode_tab[a] = f.inode_tab[a]
      BY <1>3, <2>3
    <3> DEFINE w == f.inode_tab[a]
    <3>2. a \in InodeNums \ {d} /\ w \in CopiesIn(f, a) /\ w \in Inode
      BY <2>3, <3>1, DirFacts DEF CopiesIn
    <3> HIDE DEF w
    <3>3. \A j \in Indices : w.blocks[j] # 0 => w.blocks[j] \in Blocks /\ w.blocks[j] # b
      BY <1>2, <3>2, InodeFields DEF BlocksOf
    <3>4. \A j \in Indices, q \in Positions :
             w.blocks[j] # 0 => g.page[w.blocks[j]][q] = f.page[w.blocks[j]][q]
      BY <1>1, <3>3
    <3>5. /\ w.size = NumOf(w) * DentrySize
          /\ \A j \in Indices : w.blocks[j] # 0 => j * DirPageEntries < NumOf(w)
          /\ \A j \in Indices, q \in Positions :
                w.blocks[j] # 0 /\ j * DirPageEntries + q >= NumOf(w) =>
                    f.page[w.blocks[j]][q] = NoDentry
      BY <1>7, <3>1 DEF w
    <3>6. g.inode_tab[a] = w
      BY <3>1 DEF w
    <3> QED
      BY <3>4, <3>5, <3>6
  <2> QED
    BY <2>1, <2>2, <2>3
<1> QED
  BY <1>9, <1>12 DEF PagesInv

\* The copies of the directory in the inode cache are older now.
LEMMA AddedCache ==
    ASSUME NEW f, FsInv(f), NEW d \in DirsIn(f), NEW n \in FreeInodes(f),
           NEW type \in {"dir", "file"}, NEW e, NEW b,
           NEW g, EntryAdded(f, g, d, n, type, e, b)
    PROVE  KindInv(g) /\ CacheInv(g) /\ Grows(f, g)
<1> DEFINE x == f.inode_tab[d]
           num == NumOf(x)
           k == num \div DirPageEntries
           p == num % DirPageEntries
           y == g.inode_tab[d]
<1>1. /\ k \in Indices /\ num = k * DirPageEntries + p
      /\ (p # 0 => b = x.blocks[k])
      /\ y.type = "dir" /\ y.size = (num + 1) * DentrySize
      /\ \A j \in Indices : y.blocks[j] = IF j = k THEN b ELSE x.blocks[j]
      /\ g.inode_tab[n] = InodeInit(type)
      /\ \A m \in InodeNums \ {d, n} : g.inode_tab[m] = f.inode_tab[m]
      /\ g.inode_bmap = f.inode_bmap \cup {n}
      /\ g.inode_cache = f.inode_cache
  BY DEF EntryAdded
<1>2. /\ d \in InodeNums /\ d # 0 /\ d \in f.inode_bmap /\ num \in Nat /\ x.type = "dir"
      /\ x.size = num * DentrySize
  BY DirFacts DEF DirsIn
<1>3. n \in InodeNums /\ n \notin f.inode_bmap /\ n # d
  BY <1>2 DEF FreeInodes
<1>4. f \in FsStruct /\ KindInv(f) /\ CacheInv(f)
  BY DEF FsInv
<1>5. f.inode_bmap \subseteq InodeNums
  BY <1>4, Fields
<1>6. \A j \in Indices : x.blocks[j] # 0 => j * DirPageEntries < num
  BY DEF FsInv, PagesInv
<1> HIDE DEF k, p, y, num, x
<1>7. g.inode_tab[n].type = type
  BY <1>1 DEF InodeInit
<1>8. \A m \in f.inode_bmap : g.inode_tab[m].type = f.inode_tab[m].type
  BY <1>1, <1>2, <1>3, <1>5 DEF x, y
<1>9. x.size <= y.size
  <2>1. DentrySize \in Nat /\ num + 1 \in Nat /\ num <= num + 1
    BY <1>2, BlockIsPage
  <2> DEFINE new == num + 1
  <2> HIDE DEF new
  <2>2. num * DentrySize <= new * DentrySize
    BY <1>2, <2>1, MulMono DEF new
  <2> QED
    BY <1>1, <1>2, <2>2 DEF new
<1>10. \A j \in Indices : x.blocks[j] # 0 => y.blocks[j] = x.blocks[j]
  <2> SUFFICES ASSUME NEW j \in Indices, x.blocks[j] # 0 PROVE y.blocks[j] = x.blocks[j]
    OBVIOUS
  <2>1. CASE j # k
    BY <1>1, <2>1
  <2>2. CASE j = k
    <3>1. p # 0
      <4>1. k * DirPageEntries \in Nat
        BY <1>1, Sizes, BlockIsPage
      <4> QED
        BY <1>1, <1>6, <2>2, <4>1
    <3> QED
      BY <1>1, <2>2, <3>1
  <2> QED
    BY <2>1, <2>2
<1>11. KindInv(g)
  <2>1. /\ {0, Root} \subseteq f.inode_bmap
        /\ f.inode_tab[0].type = "none"
        /\ f.inode_tab[Root].type = "dir"
        /\ \A m \in InodeNums \ {0} : m \in f.inode_bmap <=> f.inode_tab[m].type # "none"
    BY <1>4 DEF KindInv
  <2>2. {0, Root} \subseteq g.inode_bmap
    BY <1>1, <2>1
  <2>3. g.inode_tab[0].type = "none" /\ g.inode_tab[Root].type = "dir"
    BY <1>8, <2>1
  <2>4. ASSUME NEW m \in InodeNums \ {0}
        PROVE  m \in g.inode_bmap <=> g.inode_tab[m].type # "none"
    <3>1. CASE m = n
      BY <1>1, <1>7, <3>1
    <3>2. CASE m = d
      BY <1>1, <1>2, <3>2 DEF y
    <3>3. CASE m \notin {d, n}
      BY <1>1, <2>1, <3>3
    <3> QED
      BY <3>1, <3>2, <3>3
  <2> QED
    BY <2>2, <2>3, <2>4 DEF KindInv
<1>12. ASSUME NEW i \in ISlots
       PROVE  SlotOK(g, f.inode_cache[i])
  <2> DEFINE s == f.inode_cache[i]
  <2>1. s \in InodeEntry
    BY <1>4, Fields
  <2>2. SlotOK(f, s)
    BY <1>4 DEF CacheInv
  <2> HIDE DEF s
  <2>3. s.num \in f.inode_bmap /\ s.num \in InodeNums /\ s.num # n
    BY <1>3, <1>5, <2>2 DEF SlotOK
  <2>4. s.inode.type = g.inode_tab[s.num].type
    BY <1>8, <2>2, <2>3 DEF SlotOK
  <2>5. ASSUME s.inode.type = "dir" PROVE Behind(s.inode, g.inode_tab[s.num])
    <3>1. CASE s.num # d
      <4>1. g.inode_tab[s.num] = f.inode_tab[s.num]
        BY <1>1, <2>3, <3>1
      <4> QED
        BY <2>2, <2>5, <4>1 DEF SlotOK
    <3>2. CASE s.num = d
      <4>1. Behind(s.inode, x)
        BY <2>2, <2>5, <3>2 DEF SlotOK, x
      <4>2. s.inode.size \in Nat /\ x.size \in Nat /\ y.size \in Nat
        BY <1>1, <1>2, <2>1, InodeEntryFields, InodeFields, BlockIsPage
      <4>3. Behind(s.inode, y)
        BY <1>9, <1>10, <4>1, <4>2 DEF Behind
      <4> QED
        BY <3>2, <4>3 DEF y
    <3> QED
      BY <3>1, <3>2
  <2> QED
    BY <1>1, <2>2, <2>3, <2>4, <2>5 DEF SlotOK, s
<1>13. CacheInv(g)
  BY <1>1, <1>12 DEF CacheInv
<1>14. Grows(f, g)
  <2> SUFFICES ASSUME NEW m \in f.inode_bmap
               PROVE  f.inode_tab[m].type = "dir" => g.inode_tab[m].size >= f.inode_tab[m].size
    BY <1>1, <1>8 DEF Grows
  <2>1. CASE m = d
    <3>1. x.size \in Nat /\ y.size \in Nat
      BY <1>1, <1>2, BlockIsPage
    <3> QED
      BY <1>9, <2>1, <3>1 DEF x, y
  <2>2. CASE m # d
    <3>1. g.inode_tab[m] = f.inode_tab[m] /\ f.inode_tab[m].size \in Nat
      <4>1. m \in InodeNums \ {d, n}
        BY <1>3, <1>5, <2>2
      <4>2. f.inode_tab[m] \in Inode
        BY <1>4, <4>1, Fields
      <4> QED
        BY <1>1, <4>1, <4>2, InodeFields
    <3> QED
      BY <3>1
  <2> QED
    BY <2>1, <2>2
<1> QED
  BY <1>11, <1>13, <1>14

\* A new entry leads on.
LEMMA EntryAddedKeeps ==
    ASSUME NEW f, FsInv(f), NEW d \in DirsIn(f), NEW n \in FreeInodes(f),
           NEW type \in {"dir", "file"}, NEW e \in Dentry, e.name \in Names, e.inode = n, NEW b,
           NEW g, EntryAdded(f, g, d, n, type, e, b)
    PROVE  Reaches(f, g)
<1>1. g \in FsStruct
  BY DEF EntryAdded
<1>2. BlocksInv(g)
  BY AddedBlocks
<1>3. KindInv(g) /\ CacheInv(g) /\ Grows(f, g)
  BY AddedCache
<1>4. PagesInv(g)
  BY AddedPages
<1>5. TreeInv(g) /\ DirCacheInv(g)
  BY AddedTree
<1>6. PagesNamed(f) => PagesNamed(g)
  <2>1. n # 0
    BY DEF FsInv, KindInv, FreeInodes
  <2> QED
    BY <2>1 DEF EntryAdded, PagesNamed, Named
<1> QED
  BY <1>1, <1>2, <1>3, <1>4, <1>5, <1>6 DEF Reaches, FsInv

\* fs_create and fs_mkdir.
LEMMA CreateKeeps ==
    ASSUME NEW f, FsInv(f), NEW dir \in InodeNums, NEW name \in Names \cup {NoName},
           NEW type \in {"dir", "file"}, NEW t \in Nat
    PROVE  LET c == Create(f, dir, name, type, t) IN
           /\ Reaches(f, c.fs)
           /\ c.ok => c.inode \in c.fs.inode_bmap /\ c.fs.inode_tab[c.inode].type = type
           /\ c.ok => c.inode \in InodeNums
           /\ c.fs.inode_cache = f.inode_cache
<1> DEFINE c == Create(f, dir, name, type, t)
           s == DirSearch(f, dir, name, t)
<1>1. CASE name = NoName \/ ~IsDir(f, dir)
  <2>1. c = Fail(f)
    BY <1>1 DEF Create
  <2> QED
    BY <2>1, ReachesItself DEF Fail
<1>2. CASE name # NoName /\ IsDir(f, dir)
  <2>1. c = CreateNew(s, dir, name, type)
    BY <1>2 DEF Create
  <2>2. dir \in DirsIn(f) /\ name \in Names
    BY <1>2 DEF IsDir, DirsIn
  <2>3. s \in SearchResult /\ SearchLeads(f, s)
    BY <1>2, <2>2, DirSearchKeeps
  <2> DEFINE f1 == s.fs
             n == Lowest(FreeInodes(f1))
             g == AddEntry(Extended(f1, dir), dir, name, n, type)
             e == [name |-> name, inode |-> n]
  <2> HIDE DEF s, c
  <2>4. Reaches(f, f1) /\ SameInodes(f, f1) /\ f1.inode_cache = f.inode_cache
    BY <2>3 DEF SearchLeads, SameInodes
  <2>5. FsInv(f1)
    BY <2>4 DEF Reaches
  <2>6. dir \in DirsIn(f1)
    BY <2>2, <2>4, SameDirs
  <2>7. CASE s.found \/ FreeInodes(f1) = {} \/ (NeedsBlock(f1.inode_tab[dir]) /\ FreeBlocks(f1) = {})
    <3>1. c = Fail(f1)
      BY <2>1, <2>7 DEF CreateNew
    <3> QED
      BY <2>4, <3>1 DEF Fail, c
  <2>8. CASE ~(s.found \/ FreeInodes(f1) = {} \/ (NeedsBlock(f1.inode_tab[dir]) /\ FreeBlocks(f1) = {}))
    <3>1. c = [ok |-> TRUE, fs |-> g, inode |-> n]
      BY <2>1, <2>8 DEF CreateNew
    <3>2. n \in FreeInodes(f1)
      <4>1. FreeInodes(f1) \subseteq Nat /\ FreeInodes(f1) # {}
        BY <2>8, Sizes DEF FreeInodes
      <4> QED
        BY <4>1, LowestIn
    <3> HIDE DEF f1, n
    <3>3. \E b : EntryAdded(f1, g, dir, n, type, e, b)
      BY <2>2, <2>5, <2>6, <2>8, <3>2, AddEntryFields
    <3>4. PICK b : EntryAdded(f1, g, dir, n, type, e, b)
      BY <3>3
    <3>5. n \in InodeNums /\ e \in Dentry /\ e.name \in Names /\ e.inode = n
      BY <2>2, <3>2 DEF FreeInodes, Dentry
    <3> HIDE DEF g, e
    <3>6. Reaches(f1, g)
      BY <2>5, <2>6, <3>2, <3>4, <3>5, EntryAddedKeeps
    <3>7. Reaches(f, g)
      BY <2>4, <3>6, ReachesOn
    <3>8. n \in g.inode_bmap /\ g.inode_tab[n].type = type /\ g.inode_cache = f1.inode_cache
      BY <3>4 DEF EntryAdded, InodeInit
    <3>9. g.inode_cache = f.inode_cache
      BY <2>4, <3>8 DEF f1
    <3> QED
      BY <3>1, <3>5, <3>7, <3>8, <3>9 DEF c
  <2> QED
    BY <2>7, <2>8
<1> QED
  BY <1>1, <1>2

-----------------------------------------------------------------------------
(* Listing a directory: only the caches change.                            *)

SameDisk(f, g) ==
    /\ g \in FsStruct
    /\ g.inode_tab = f.inode_tab /\ g.inode_bmap = f.inode_bmap /\ g.page = f.page
    /\ Reaches(f, g)

\* Two changes to the caches are one.
LEMMA SameDiskOn ==
    ASSUME NEW f, NEW g, NEW h, FsInv(f), SameDisk(f, g), SameDisk(g, h)
    PROVE  SameDisk(f, h)
BY ReachesOn DEF SameDisk

\* A copy of a directory has no more entries than the directory, in the same blocks.
LEMMA ListedFacts ==
    ASSUME NEW f, FsInv(f), NEW d \in DirsIn(f), NEW x \in CopiesIn(f, d),
           NEW i \in 0 .. NumOf(x) - 1
    PROVE  /\ i \div DirPageEntries \in Indices
           /\ i % DirPageEntries \in Positions
           /\ x.blocks[i \div DirPageEntries] = f.inode_tab[d].blocks[i \div DirPageEntries]
           /\ x.blocks[i \div DirPageEntries] \in Blocks
           /\ i \in 0 .. NumOf(f.inode_tab[d]) - 1
<1> DEFINE y == f.inode_tab[d]
           n == NumOf(x)
           m == NumOf(y)
           q == i \div DirPageEntries
<1>1. d \in InodeNums /\ y.type = "dir" /\ m \in Nat /\ y.size = m * DentrySize
  BY DirFacts DEF DirsIn
<1>2. x \in Inode /\ x.type = "dir" /\ Covered(x) /\ Behind(x, y)
  BY <1>1, CopyFacts
<1>3. n \in Nat
  BY <1>2, InodeFields, BlockIsPage, DivRange DEF NumOf
<1>4. x.size = n * DentrySize /\ x.size <= y.size
  BY <1>2 DEF Behind
<1> HIDE DEF n, m, y
<1>5. q \in Nat /\ i % DirPageEntries \in Positions /\ q < OffsetToBlocks(n * DentrySize)
  BY <1>3, EntryBlock DEF n
<1> HIDE DEF q
<1>6. q \in Indices
  <2>1. OffsetToBlocks(x.size) <= InodeNumBlks /\ OffsetToBlocks(x.size) \in Nat /\ InodeNumBlks \in Nat
    BY <1>2, InodeFields, CeilLess, InodesAssumption DEF Covered
  <2> QED
    BY <1>4, <1>5, <2>1 DEF Indices
<1>7. x.blocks[q] # 0
  BY <1>2, <1>4, <1>5, <1>6 DEF Covered
<1>8. x.blocks[q] \in Blocks
  BY <1>2, <1>6, <1>7, InodeFields
<1>9. x.blocks[q] = y.blocks[q]
  BY <1>2, <1>6, <1>7 DEF Behind
<1>10. n <= m
  <2> SUFFICES ASSUME m < n PROVE FALSE
    BY <1>1, <1>3
  <2>1. DentrySize \in Nat \ {0}
    BY BlockIsPage
  <2>2. m * DentrySize + DentrySize <= n * DentrySize
    BY <1>1, <1>3, <2>1, MulLess
  <2>3. m * DentrySize \in Nat /\ n * DentrySize \in Nat
    BY <1>1, <1>3, <2>1
  <2> QED
    BY <1>1, <1>4, <2>1, <2>2, <2>3
<1>11. i \in 0 .. m - 1
  BY <1>1, <1>3, <1>10 DEF n
<1> QED
  BY <1>5, <1>6, <1>8, <1>9, <1>11 DEF q, m, y

Kinds == {"none", "dir", "file", "unknown"}

\* An inode in use is listed with its type.
LEMMA EntryTypeIs ==
    ASSUME NEW f, FsInv(f), NEW n \in InodeNums
    PROVE  /\ EntryType(f, n) \in Kinds
           /\ n \in f.inode_bmap \ {0} => EntryType(f, n) \in {"dir", "file"}
<1>1. f \in FsStruct /\ f.inode_tab[n] \in Inode
  BY Fields DEF FsInv
<1>2. n \in f.inode_bmap \ {0} => f.inode_tab[n].type \in {"dir", "file"}
  BY <1>1, InodeFields DEF FsInv, KindInv
<1>3. CASE CachedAt(f, n) # {}
  <2> DEFINE i == Lowest(CachedAt(f, n))
  <2>1. i \in ISlots /\ f.inode_cache[i].num = n
    BY <1>1, <1>3, CachedIn
  <2>2. SlotOK(f, f.inode_cache[i])
    BY <2>1 DEF FsInv, CacheInv
  <2>3. EntryType(f, n) = f.inode_cache[i].inode.type
    BY <1>3 DEF EntryType
  <2> HIDE DEF i
  <2>4. EntryType(f, n) = f.inode_tab[n].type
    BY <2>1, <2>2, <2>3 DEF SlotOK
  <2> QED
    BY <1>1, <1>2, <2>4, InodeFields DEF Kinds
<1>4. CASE CachedAt(f, n) = {}
  BY <1>1, <1>2, <1>4, InodeFields DEF EntryType, Kinds
<1> QED
  BY <1>3, <1>4

\* No cached page of d differs from the disk.
FreshPages(f, d) == \A i \in SlotsOfDir(f, d) : f.dir_cache[i].entries = f.page[f.dir_cache[i].block]

ListResult == [fs : FsStruct, out : Seq([name : Names \cup {NoName}, type : Kinds])]

\* After k entries of the copy idir of directory d.
ListedTo(f, d, idir, k, s) ==
    /\ SameDisk(f, s.fs)
    /\ k > 0 => SlotsOfPage(s.fs, d, idir.blocks[(k - 1) \div DirPageEntries]) # {}
    /\ FreshPages(f, d) => /\ FreshPages(s.fs, d)
                           /\ \A i \in DOMAIN s.out : s.out[i].type \in {"dir", "file"}

\* The page of the next entry is in the cache.
ListPage(s, dir, idir, t, k) ==
    IF k % DirPageEntries = 0 THEN FetchPage(s.fs, dir, idir.blocks[k \div DirPageEntries], t) ELSE s.fs

ListEntry(g, dir, idir, k) ==
    EntriesAt(g, dir, idir.blocks[k \div DirPageEntries])[k % DirPageEntries]

ListNext(s, dir, idir, t, k) ==
    LET g == ListPage(s, dir, idir, t, k)
        e == ListEntry(g, dir, idir, k)
    IN [fs |-> TouchIfCached(g, e.inode, t),
        out |-> Append(s.out, [name |-> e.name, type |-> EntryType(g, e.inode)])]

\* The page of the next entry is fetched; if no cached page was stale, none is now.
LEMMA ListPageKeeps ==
    ASSUME NEW f, FsInv(f), NEW d \in DirsIn(f), NEW x \in CopiesIn(f, d), NEW t \in Nat,
           NEW k \in 0 .. NumOf(x) - 1, NEW s, ListedTo(f, d, x, k, s)
    PROVE  LET g == ListPage(s, d, x, t, k) IN
           /\ SameDisk(f, g)
           /\ SlotsOfPage(g, d, x.blocks[k \div DirPageEntries]) # {}
           /\ FreshPages(f, d) => FreshPages(g, d)
<1> DEFINE q == k \div DirPageEntries
           b == x.blocks[q]
           g == ListPage(s, d, x, t, k)
<1>1. q \in Indices /\ b = f.inode_tab[d].blocks[q] /\ b \in Blocks /\ b # 0
  BY ListedFacts, Sizes
<1>2. SameDisk(f, s.fs) /\ FsInv(s.fs) /\ d \in DirsIn(s.fs)
  BY DEF ListedTo, SameDisk, Reaches, DirsIn
<1>3. k \in Nat /\ DirPageEntries \in Nat \ {0}
  BY BlockIsPage
<1>4. CASE k % DirPageEntries = 0
  <2>1. s.fs.inode_tab[d].blocks[q] = b
    BY <1>1, <1>2 DEF SameDisk
  <2>2. g = FetchPage(s.fs, d, b, t)
    BY <1>4 DEF ListPage
  <2> HIDE DEF b, q, g
  <2>3. LET c == s.fs.inode_tab[d].blocks[q]
            h == FetchPage(s.fs, d, c, t)
        IN SameInodes(s.fs, h) /\ Reaches(s.fs, h) /\ SlotsOfPage(h, d, c) # {} /\ DirSlotsFrom(s.fs, h, d, c)
    BY <1>1, <1>2, <2>1, FetchPageKeeps
  <2>4. SameInodes(s.fs, g) /\ Reaches(s.fs, g) /\ SlotsOfPage(g, d, b) # {} /\ DirSlotsFrom(s.fs, g, d, b)
    BY <2>1, <2>2, <2>3
  <2>5. SameDisk(s.fs, g)
    BY <2>4 DEF SameDisk, SameInodes
  <2>6. SameDisk(f, g)
    BY <1>2, <2>5, SameDiskOn
  <2>7. ASSUME FreshPages(s.fs, d) PROVE FreshPages(g, d)
    <3> SUFFICES ASSUME NEW i \in DSlots, g.dir_cache[i].dir = d
                 PROVE  g.dir_cache[i].entries = g.page[g.dir_cache[i].block]
      BY DEF FreshPages, SlotsOfDir
    <3>1. g.page = s.fs.page
      BY <2>5 DEF SameDisk
    <3>2. CASE /\ g.dir_cache[i].dir = s.fs.dir_cache[i].dir
               /\ g.dir_cache[i].block = s.fs.dir_cache[i].block
               /\ g.dir_cache[i].entries = s.fs.dir_cache[i].entries
      BY <2>7, <3>1, <3>2 DEF FreshPages, SlotsOfDir
    <3>3. CASE g.dir_cache[i].block = b /\ g.dir_cache[i].entries = s.fs.page[b]
      BY <3>1, <3>3
    <3> QED
      BY <2>4, <3>2, <3>3 DEF DirSlotsFrom
  <2> QED
    BY <2>4, <2>6, <2>7 DEF ListedTo, b, q, g
<1>5. CASE k % DirPageEntries # 0
  <2>1. g = s.fs
    BY <1>5 DEF ListPage
  <2>2. k - 1 \in Nat /\ (k - 1) \div DirPageEntries = q /\ k > 0
    <3> DEFINE D == DirPageEntries
               r == k % D
               a == r - 1
    <3>1. D \in Nat \ {0} /\ q \in Nat /\ r \in 0 .. D - 1 /\ k = q * D + r /\ r # 0
      BY <1>3, <1>5, DivRange, DivMod
    <3> HIDE DEF r, q, D
    <3>2. q * D \in Nat /\ a \in 0 .. D - 1 /\ k - 1 = q * D + a
      BY <3>1
    <3> HIDE DEF a
    <3>3. (q * D + a) \div D = q
      BY <3>1, <3>2, DivUnique
    <3> QED
      BY <3>1, <3>2, <3>3 DEF D
  <2> QED
    BY <1>2, <2>1, <2>2 DEF ListedTo
<1> QED
  BY <1>4, <1>5

\* The refresh of an inode that is listed changes access times only.
LEMMA TouchIfCachedKeeps ==
    ASSUME NEW f, FsInv(f), NEW n \in InodeNums, NEW t \in Nat
    PROVE  LET g == TouchIfCached(f, n, t) IN SameDisk(f, g) /\ g.dir_cache = f.dir_cache
<1> DEFINE g == TouchIfCached(f, n, t)
<1>1. CASE CachedAt(f, n) # {}
  <2>1. g = Touch(f, n, t)
    BY <1>1 DEF TouchIfCached
  <2> HIDE DEF g
  <2>2. LET h == Touch(f, n, t) IN
        h \in FsStruct /\ h.inode_tab = f.inode_tab /\ h.inode_bmap = f.inode_bmap
        /\ h.page = f.page /\ h.dir_cache = f.dir_cache
    BY <1>1, TouchFields DEF FsInv
  <2>3. LET h == Touch(f, n, t) IN Reaches(f, h)
    BY <1>1, TouchKeeps
  <2> QED
    BY <2>1, <2>2, <2>3 DEF SameDisk, g
<1>2. CASE CachedAt(f, n) = {}
  <2>1. g = f
    BY <1>2 DEF TouchIfCached
  <2> QED
    BY <2>1, ReachesItself DEF SameDisk, FsInv
<1> QED
  BY <1>1, <1>2

\* A round of the listing leads on, and an entry of a page that is not stale is listed with
\* the type of its inode.
LEMMA ListNextKeeps ==
    ASSUME NEW f, FsInv(f), NEW d \in DirsIn(f), NEW x \in CopiesIn(f, d), NEW t \in Nat,
           NEW k \in 0 .. NumOf(x) - 1, NEW s \in ListResult, ListedTo(f, d, x, k, s)
    PROVE  LET r == ListNext(s, d, x, t, k) IN
           r \in ListResult /\ ListedTo(f, d, x, k + 1, r)
<1> DEFINE q == k \div DirPageEntries
           p == k % DirPageEntries
           b == x.blocks[q]
           g == ListPage(s, d, x, t, k)
           e == ListEntry(g, d, x, k)
           shown == [name |-> e.name, type |-> EntryType(g, e.inode)]
           h == TouchIfCached(g, e.inode, t)
           r == ListNext(s, d, x, t, k)
<1>1. LET h1 == ListPage(s, d, x, t, k) IN
           /\ SameDisk(f, h1)
           /\ SlotsOfPage(h1, d, x.blocks[k \div DirPageEntries]) # {}
           /\ FreshPages(f, d) => FreshPages(h1, d)
  BY ListPageKeeps
<1>2. SameDisk(f, g) /\ SlotsOfPage(g, d, b) # {} /\ (FreshPages(f, d) => FreshPages(g, d))
  BY <1>1
<1>3. r = [fs |-> h, out |-> Append(s.out, shown)]
  BY DEF ListNext
<1> HIDE DEF r
<1>4. /\ q \in Indices /\ p \in Positions /\ b = f.inode_tab[d].blocks[q] /\ b \in Blocks
      /\ k \in 0 .. NumOf(f.inode_tab[d]) - 1
  BY ListedFacts
<1>5. e = EntriesAt(g, d, b)[p]
  BY DEF ListEntry
<1>6. (k + 1) - 1 = k
  OBVIOUS
<1> HIDE DEF b, p, q, g, e
<1>7. FsInv(g) /\ g \in FsStruct
  BY <1>2 DEF SameDisk, Reaches
<1> DEFINE v == PageSlot(g, d, b)
<1>8. v \in DSlots /\ g.dir_cache[v].dir = d /\ g.dir_cache[v].block = b
  BY <1>2, <1>7, PageSlotIn
<1>9. e = g.dir_cache[v].entries[p]
  BY <1>5 DEF EntriesAt
<1> HIDE DEF v
<1>10. e \in Dentry
  BY <1>4, <1>7, <1>8, <1>9, Fields, DirEntryFields
<1>11. e.name \in Names \cup {NoName} /\ e.inode \in InodeNums
  BY <1>10, DentryFields
<1>12. EntryType(g, e.inode) \in Kinds
  BY <1>7, <1>11, EntryTypeIs
<1>13. ASSUME FreshPages(f, d) PROVE EntryType(g, e.inode) \in {"dir", "file"}
  <2>1. g.dir_cache[v].entries = g.page[b] /\ g.page = f.page /\ g.inode_bmap = f.inode_bmap
    BY <1>2, <1>8, <1>13 DEF FreshPages, SlotsOfDir, SameDisk
  <2>2. e = PlaceIn(f, f.inode_tab[d], k)
    BY <1>4, <1>9, <2>1 DEF PlaceIn, p, q
  <2>3. e.inode \in f.inode_bmap \ {0, Root}
    BY <1>4, <2>2 DEF FsInv, TreeInv
  <2>4. e.inode \in g.inode_bmap \ {0}
    BY <2>1, <2>3
  <2> QED
    BY <1>7, <1>11, <2>4, EntryTypeIs
<1>14. LET h1 == TouchIfCached(g, e.inode, t) IN SameDisk(g, h1) /\ h1.dir_cache = g.dir_cache
  BY <1>7, <1>11, TouchIfCachedKeeps
<1>15. SameDisk(g, h) /\ h.dir_cache = g.dir_cache
  BY <1>14
<1>16. shown \in [name : Names \cup {NoName}, type : Kinds]
  BY <1>11, <1>12
<1>17. shown.type = EntryType(g, e.inode)
  OBVIOUS
<1> HIDE DEF h, shown
<1>18. SameDisk(f, h)
  BY <1>2, <1>15, SameDiskOn
<1>19. s.out \in Seq([name : Names \cup {NoName}, type : Kinds])
  BY DEF ListResult
<1>20. Append(s.out, shown) \in Seq([name : Names \cup {NoName}, type : Kinds])
  BY <1>16, <1>19
<1>21. r \in ListResult /\ r.fs = h /\ r.out = Append(s.out, shown)
  BY <1>3, <1>18, <1>20 DEF ListResult, SameDisk
<1>22. SlotsOfPage(h, d, b) # {}
  BY <1>2, <1>15 DEF SlotsOfPage, SlotsOfDir
<1>23. ASSUME FreshPages(f, d)
       PROVE  FreshPages(h, d) /\ \A i \in DOMAIN r.out : r.out[i].type \in {"dir", "file"}
  <2>1. FreshPages(h, d)
    BY <1>2, <1>15, <1>23 DEF FreshPages, SlotsOfDir, SameDisk
  <2>2. \A i \in DOMAIN s.out : s.out[i].type \in {"dir", "file"}
    BY <1>23 DEF ListedTo
  <2>3. \A i \in DOMAIN r.out : \/ i \in DOMAIN s.out /\ r.out[i] = s.out[i]
                                \/ r.out[i] = shown
    BY <1>19, <1>21
  <2> QED
    BY <1>13, <1>17, <1>23, <2>1, <2>2, <2>3
<1>24. ListedTo(f, d, x, k + 1, r)
  BY <1>6, <1>18, <1>21, <1>22, <1>23 DEF ListedTo, b, q
<1> QED
  BY <1>21, <1>24 DEF r

\* fs_readdir leads on, and without a stale page all entries have a type.
LEMMA ListKeeps ==
    ASSUME NEW f, FsInv(f), NEW d \in DirsIn(f), NEW x \in CopiesIn(f, d), NEW t \in Nat,
           NEW max \in Nat
    PROVE  LET l == List(f, d, x, max, t) IN
           /\ Reaches(f, l.fs)
           /\ FreshPages(f, d) => \A i \in DOMAIN l.out : l.out[i].type \in {"dir", "file"}
<1> DEFINE N == Listed(x, max)
           Good == {p \in (0 .. N) \X ListResult : ListedTo(f, d, x, p[1], p[2])}
           s0 == [fs |-> f, out |-> << >>]
           step == [p \in Good |-> ListNext(p[2], d, x, t, p[1])]
           list == CHOOSE list : list = [k \in 0 .. N |->
                       IF k = 0 THEN s0 ELSE ListNext(list[k - 1], d, x, t, k - 1)]
<1>1. List(f, d, x, max, t) = list[N]
  BY DEF List, ListNext, ListPage, ListEntry
<1>2. N \in Nat /\ 0 .. N - 1 \subseteq 0 .. NumOf(x) - 1
  <2>1. NumOf(x) \in Nat
    <3>1. d \in InodeNums
      BY DEF DirsIn
    <3> QED
      BY <3>1, CopyFacts, InodeFields, BlockIsPage, DivRange DEF NumOf
  <2>2. N = MinOf(NumOf(x), max)
    BY DEF Listed, NumOf
  <2> QED
    BY <2>1, <2>2 DEF MinOf
<1> HIDE DEF N
<1>3. <<0, s0>> \in Good
  <2>1. s0 \in ListResult /\ s0.fs = f /\ s0.out = << >>
    BY DEF FsInv, ListResult
  <2>2. SameDisk(f, f)
    BY ReachesItself DEF SameDisk, FsInv
  <2> HIDE DEF s0
  <2>3. ListedTo(f, d, x, 0, s0)
    BY <2>1, <2>2 DEF ListedTo
  <2> QED
    BY <1>2, <2>1, <2>3
<1>4. ASSUME NEW k \in 0 .. N - 1, NEW s, <<k, s>> \in Good
      PROVE  /\ <<k + 1, ListNext(s, d, x, t, k)>> \in Good
             /\ step[<<k, s>>] = ListNext(s, d, x, t, k)
  <2>1. s \in ListResult /\ ListedTo(f, d, x, k, s)
    BY <1>4
  <2>2. k \in 0 .. NumOf(x) - 1 /\ k + 1 \in 0 .. N
    BY <1>2
  <2>3. LET r == ListNext(s, d, x, t, k) IN
        r \in ListResult /\ ListedTo(f, d, x, k + 1, r)
    BY <2>1, <2>2, ListNextKeeps
  <2> QED
    BY <1>4, <2>2, <2>3
<1> HIDE DEF Good, step
<1>5. RoundsKeep(N, Good, step)
  BY <1>4 DEF RoundsKeep
<1> HIDE DEF s0
<1>6. PICK g : RunsLoop(g, N, Good, s0, step)
  BY <1>2, <1>3, <1>5, LoopRuns
<1>7. ASSUME NEW k \in 1 .. N
      PROVE  k - 1 \in 0 .. N - 1 /\ (k - 1) + 1 = k /\ k \in 0 .. N /\ k # 0
  BY <1>2
<1>8. ASSUME NEW k \in 1 .. N
      PROVE  g[k] = ListNext(g[k - 1], d, x, t, k - 1)
  BY <1>4, <1>6, <1>7 DEF RunsLoop
<1>9. g = [k \in 0 .. N |-> IF k = 0 THEN s0 ELSE ListNext(g[k - 1], d, x, t, k - 1)]
  <2>1. \A k \in 0 .. N : k = 0 \/ k \in 1 .. N
    BY <1>2
  <2>2. \A k \in 0 .. N : g[k] = IF k = 0 THEN s0 ELSE ListNext(g[k - 1], d, x, t, k - 1)
    BY <1>6, <1>8, <2>1 DEF RunsLoop
  <2> QED
    BY <1>6, <2>2 DEF RunsLoop
<1>10. list = [k \in 0 .. N |-> IF k = 0 THEN s0 ELSE ListNext(list[k - 1], d, x, t, k - 1)]
  BY <1>9
<1> HIDE DEF list
<1>11. <<0, list[0]>> \in Good
  BY <1>2, <1>3, <1>10
<1>12. ASSUME NEW k \in 1 .. N, <<k - 1, list[k - 1]>> \in Good
       PROVE  <<k, list[k]>> \in Good
  <2>1. list[k] = ListNext(list[k - 1], d, x, t, k - 1)
    BY <1>7, <1>10
  <2> QED
    BY <1>4, <1>7, <1>12, <2>1
<1>13. <<N, list[N]>> \in Good
  BY <1>2, <1>11, <1>12, LoopKeeps
<1>14. list[N] \in ListResult /\ ListedTo(f, d, x, N, list[N])
  BY <1>13 DEF Good
<1> QED
  BY <1>1, <1>14 DEF ListedTo, SameDisk


-----------------------------------------------------------------------------
(* The handlers, in the state that the variables describe.                 *)

\* snfs_lookup leads on, and no name makes it end the server.
LEMMA SnfsLookupKeeps ==
    ASSUME FsInv(fs), now \in Nat, NEW path \in Seq(Names), NEW junk \in 0 .. ItabSize
    PROVE  /\ Reaches(fs, SnfsLookup(path, junk).fs)
           /\ path # << >> => SnfsLookup(path, junk).st # "exit"
<1> DEFINE l == Lookup(fs, path, junk, now)
           a == GetAttrs(l.fs, l.inode, now)
<1>1. LET s == Lookup(fs, path, junk, now) IN s \in WalkResult /\ Walked(fs, Len(path), s)
  BY LookupKeeps
<1>2. l \in WalkResult /\ Walked(fs, Len(path), l)
  BY <1>1
<1>3. SnfsLookup(path, junk) = IF l.ok THEN LookupAnswer(l.inode, a) ELSE Answer("error", l.fs)
  BY DEF SnfsLookup, LookupFound
<1> HIDE DEF l
<1>4. Reaches(fs, l.fs) /\ FsInv(l.fs)
  BY <1>2 DEF Walked, Reaches
<1>5. LET b == GetAttrs(l.fs, l.inode, now) IN
      /\ FileStep(l.fs, b.fs) /\ Reaches(l.fs, b.fs)
      /\ b.st = "exit" => l.inode = 0
  BY <1>4, GetAttrsKeeps
<1>6. Reaches(l.fs, a.fs) /\ (a.st = "exit" => l.inode = 0)
  BY <1>5
<1> HIDE DEF a
<1>7. CASE l.ok
  <2>1. SnfsLookup(path, junk).fs = a.fs /\ SnfsLookup(path, junk).st = a.st
    BY <1>3, <1>7 DEF LookupAnswer
  <2>2. path # << >> => l.inode # 0
    BY <1>2, <1>7, PathFacts DEF Walked
  <2> QED
    BY <1>4, <1>6, <2>1, <2>2, ReachesOn
<1>8. CASE ~l.ok
  <2>1. SnfsLookup(path, junk).fs = l.fs /\ SnfsLookup(path, junk).st = "error"
    BY <1>3, <1>8 DEF Answer
  <2> QED
    BY <1>4, <2>1
<1> QED
  BY <1>7, <1>8

\* A handle that passes the check is the number of an inode.
LEMMA HandleFacts ==
    ASSUME NEW h \in Handles, Valid(h)
    PROVE  h \in InodeNums
BY InodesAssumption DEF Handles, Valid, InodeNums

\* snfs_create and snfs_mkdir lead on.
LEMMA SnfsCreateKeeps ==
    ASSUME FsInv(fs), now \in Nat, NEW dir \in Handles, NEW name \in Names \cup {NoName},
           NEW type \in {"file", "dir"}
    PROVE  Reaches(fs, SnfsCreate(dir, name, type).fs)
<1>1. CASE Valid(dir)
  <2>1. dir \in InodeNums /\ type \in {"dir", "file"}
    BY <1>1, HandleFacts
  <2>2. LET c == Create(fs, dir, name, type, now) IN Reaches(fs, c.fs)
    BY <2>1, CreateKeeps
  <2>3. SnfsCreate(dir, name, type).fs = Create(fs, dir, name, type, now).fs
    BY <1>1 DEF SnfsCreate, CreateAnswer
  <2> QED
    BY <2>2, <2>3
<1>2. CASE ~Valid(dir)
  <2>1. SnfsCreate(dir, name, type).fs = fs
    BY <1>2 DEF SnfsCreate, Answer
  <2> QED
    BY <2>1, ReachesItself
<1> QED
  BY <1>1, <1>2

\* snfs_readdir leads on, and ends the server only with a stale page.
LEMMA SnfsReaddirKeeps ==
    ASSUME FsInv(fs), now \in Nat, NEW dir \in Handles, NEW max \in Nat
    PROVE  LET answer == SnfsReaddir(dir, max) IN
           /\ Reaches(fs, answer.fs)
           /\ answer.st = "exit" => HasStalePage(dir)
<1> DEFINE answer == SnfsReaddir(dir, max)
           acc == Access(fs, dir, now)
           x == Deref(acc.fs, acc.at, dir)
           l == List(acc.fs, dir, x, max, now)
<1>1. CASE ~Valid(dir)
  <2>1. answer.fs = fs /\ answer.st = "error"
    BY <1>1 DEF SnfsReaddir, Answer
  <2> QED
    BY <2>1, ReachesItself
<1>2. CASE Valid(dir)
  <2>1. dir \in InodeNums
    BY <1>2, HandleFacts
  <2>2. LET acc1 == Access(fs, dir, now) IN
        OnlyMoves(fs, acc1.fs) /\ Reaches(fs, acc1.fs) /\ PointsTo(acc1.fs, acc1.at, dir)
    BY <2>1, AccessKeeps
  <2>3. answer = IF ~acc.ok \/ x.type # "dir" THEN Answer("error", acc.fs) ELSE ListAnswer(l)
    BY <1>2 DEF SnfsReaddir, ListDir
  <2>4. OnlyMoves(fs, acc.fs) /\ Reaches(fs, acc.fs) /\ PointsTo(acc.fs, acc.at, dir) /\ FsInv(acc.fs)
    BY <2>2 DEF Reaches
  <2> HIDE DEF acc, answer
  <2>5. CASE ~acc.ok \/ x.type # "dir"
    BY <2>3, <2>4, <2>5 DEF Answer, answer
  <2>6. CASE acc.ok /\ x.type = "dir"
    <3>1. x \in CopiesIn(acc.fs, dir)
      BY <2>1, <2>4, DerefIn
    <3> HIDE DEF x
    <3>2. dir \in DirsIn(acc.fs)
      BY <2>1, <2>4, <2>6, <3>1, CopyFacts
    <3>3. LET l1 == List(acc.fs, dir, x, max, now) IN
          /\ Reaches(acc.fs, l1.fs)
          /\ FreshPages(acc.fs, dir) => \A i \in DOMAIN l1.out : l1.out[i].type \in {"dir", "file"}
      BY <2>4, <3>1, <3>2, ListKeeps
    <3>4. answer = ListAnswer(l)
      BY <2>3, <2>6
    <3>5. /\ Reaches(acc.fs, l.fs)
          /\ FreshPages(acc.fs, dir) => \A i \in DOMAIN l.out : l.out[i].type \in {"dir", "file"}
      BY <3>3
    <3> HIDE DEF l
    <3>6. answer.fs = l.fs
      BY <3>4 DEF ListAnswer
    <3>7. answer.st = "exit" => ~FreshPages(acc.fs, dir)
      BY <3>4, <3>5 DEF ListAnswer
    <3>8. FreshPages(acc.fs, dir) <=> ~HasStalePage(dir)
      <4>1. acc.fs.page = fs.page /\ acc.fs.dir_cache = fs.dir_cache
        BY <2>4 DEF OnlyMoves, FileStep
      <4> QED
        BY <4>1 DEF FreshPages, HasStalePage, SlotsOfDir
    <3>9. Reaches(fs, answer.fs)
      BY <2>4, <3>5, <3>6, ReachesOn
    <3> QED
      BY <3>7, <3>8, <3>9 DEF answer
  <2> QED
    BY <2>5, <2>6
<1> QED
  BY <1>1, <1>2

\* Blocks that a transfer for inode n may use: those of one of its copies, or new ones.
Own(f, n, b) == b # 0 /\ (b \notin f.blk_bmap \/ \E x \in CopiesIn(f, n) : b \in BlocksOf(x))

\* snfs_read leads on and takes bytes from blocks of the file.
LEMMA SnfsReadKeeps ==
    ASSUME FsInv(fs), now \in Nat, NEW n \in Handles, NEW off \in Nat, NEW cnt \in Nat
    PROVE  LET answer == SnfsRead(n, off, cnt) IN
           /\ Reaches(fs, answer.fs)
           /\ answer.st = "ok" => \A b \in answer.blocks : Own(fs, n, b)
<1> DEFINE answer == SnfsRead(n, off, cnt)
           acc == Access(fs, n, now)
           x == Deref(acc.fs, acc.at, n)
           max == IF off >= x.size THEN 0 ELSE MinOf(cnt, x.size - off)
<1>1. CASE ~Valid(n)
  <2>1. answer.fs = fs /\ answer.st = "error"
    BY <1>1 DEF SnfsRead, Answer
  <2> QED
    BY <2>1, ReachesItself
<1>2. CASE Valid(n)
  <2>1. n \in InodeNums
    BY <1>2, HandleFacts
  <2>2. LET acc1 == Access(fs, n, now) IN
        OnlyMoves(fs, acc1.fs) /\ Reaches(fs, acc1.fs) /\ PointsTo(acc1.fs, acc1.at, n)
    BY <2>1, AccessKeeps
  <2>3. answer = IF ~acc.ok \/ x.type # "file" THEN Answer("error", acc.fs)
                 ELSE [st |-> "ok", fs |-> acc.fs, nread |-> max,
                       blocks |-> IF max = 0 THEN {} ELSE BlocksAt(x, off, max)]
    BY <1>2 DEF SnfsRead, ReadFrom
  <2>4. OnlyMoves(fs, acc.fs) /\ Reaches(fs, acc.fs) /\ PointsTo(acc.fs, acc.at, n) /\ FsInv(acc.fs)
    BY <2>2 DEF Reaches
  <2> HIDE DEF acc, answer
  <2>5. x \in CopiesIn(acc.fs, n)
    BY <2>1, <2>4, DerefIn
  <2>6. x \in CopiesIn(fs, n) /\ x \in Inode /\ Covered(x)
    BY <2>1, <2>4, <2>5, CopyFacts DEF OnlyMoves
  <2> HIDE DEF x
  <2>7. answer.fs = acc.fs
    BY <2>3 DEF Answer
  <2>8. ASSUME answer.st = "ok", NEW b \in answer.blocks
        PROVE  Own(fs, n, b)
    <3>1. answer.blocks = IF max = 0 THEN {} ELSE BlocksAt(x, off, max)
      BY <2>3, <2>8 DEF Answer
    <3>2. x.size \in Nat
      BY <2>6, InodeFields
    <3>3. max # 0 /\ max \in Nat /\ off + max \in Nat /\ off + max <= x.size
      BY <2>8, <3>1, <3>2 DEF MinOf
    <3> HIDE DEF max
    <3>4. Fits(x, off + max)
      <4> DEFINE t == off + max
      <4>1. t \in Nat /\ t <= x.size
        BY <3>3
      <4> HIDE DEF t
      <4>2. OffsetToBlocks(t) <= OffsetToBlocks(x.size)
        BY <3>2, <4>1, CeilMono
      <4>3. OffsetToBlocks(t) \in Nat /\ OffsetToBlocks(x.size) \in Nat /\ InodeNumBlks \in Nat
        BY <3>2, <4>1, CeilLess, InodesAssumption
      <4>4. \A i \in Indices : i \in Nat
        BY Sizes
      <4>5. Fits(x, t)
        BY <2>6, <4>2, <4>3, <4>4 DEF Fits, Covered
      <4> QED
        BY <4>5 DEF t
    <3>5. BlocksAt(x, off, max) \subseteq BlocksOf(x)
      BY <3>3, <3>4, BlocksAtIn
    <3>6. b \in BlocksOf(x)
      BY <2>8, <3>1, <3>3, <3>5
    <3>7. b # 0
      BY <3>6 DEF BlocksOf
    <3> QED
      BY <2>6, <3>6, <3>7 DEF Own
  <2> QED
    BY <2>4, <2>7, <2>8 DEF answer
<1> QED
  BY <1>1, <1>2

\* snfs_write leads on and puts bytes into blocks of the file or new ones.
LEMMA SnfsWriteKeeps ==
    ASSUME FsInv(fs), now \in Nat, NEW n \in Handles, NEW off \in Nat, NEW cnt \in Nat
    PROVE  LET answer == SnfsWrite(n, off, cnt) IN
           /\ Reaches(fs, answer.fs)
           /\ answer.st = "ok" => \A b \in answer.blocks : Own(fs, n, b)
<1> DEFINE answer == SnfsWrite(n, off, cnt)
           acc == Access(fs, n, now)
           w == WriteFile(acc, n, off, cnt)
           a == GetAttrs(w.fs, n, now)
<1>1. CASE ~Valid(n)
  <2>1. answer.fs = fs /\ answer.st = "error"
    BY <1>1 DEF SnfsWrite, Answer
  <2> QED
    BY <2>1, ReachesItself
<1>2. CASE Valid(n)
  <2>1. n \in InodeNums
    BY <1>2, HandleFacts
  <2>2. LET acc1 == Access(fs, n, now) IN
        OnlyMoves(fs, acc1.fs) /\ Reaches(fs, acc1.fs) /\ PointsTo(acc1.fs, acc1.at, n)
    BY <2>1, AccessKeeps
  <2>3. answer = IF w.ok THEN WriteAnswer(a, w.blocks) ELSE Answer("error", w.fs)
    BY <1>2 DEF SnfsWrite, Written, FsWrite
  <2>4. OnlyMoves(fs, acc.fs) /\ Reaches(fs, acc.fs) /\ PointsTo(acc.fs, acc.at, n) /\ FsInv(acc.fs)
    BY <2>2 DEF Reaches
  <2> HIDE DEF acc, answer
  <2>5. Deref(acc.fs, acc.at, n) \in CopiesIn(fs, n)
    BY <2>1, <2>4, DerefIn DEF OnlyMoves
  <2>6. LET w1 == WriteFile(acc, n, off, cnt) IN
        /\ FileStep(acc.fs, w1.fs) /\ Reaches(acc.fs, w1.fs)
        /\ w1.ok => \A b \in w1.blocks :
              b # 0 /\ (b \in BlocksOf(Deref(acc.fs, acc.at, n)) \/ b \notin acc.fs.blk_bmap)
    BY <2>1, <2>4, WriteFileKeeps
  <2>7. /\ Reaches(acc.fs, w.fs)
        /\ w.ok => \A b \in w.blocks :
              b # 0 /\ (b \in BlocksOf(Deref(acc.fs, acc.at, n)) \/ b \notin acc.fs.blk_bmap)
    BY <2>6
  <2> HIDE DEF w
  <2>8. Reaches(fs, w.fs) /\ FsInv(w.fs)
    BY <2>4, <2>7, ReachesOn DEF Reaches
  <2>9. LET a1 == GetAttrs(w.fs, n, now) IN FileStep(w.fs, a1.fs) /\ Reaches(w.fs, a1.fs)
    BY <2>8, GetAttrsKeeps
  <2>10. Reaches(fs, a.fs)
    BY <2>8, <2>9, ReachesOn
  <2> HIDE DEF a
  <2>11. Reaches(fs, answer.fs)
    BY <2>3, <2>8, <2>10 DEF WriteAnswer, Answer
  <2>12. ASSUME answer.st = "ok", NEW b \in answer.blocks
         PROVE  Own(fs, n, b)
    <3>1. w.ok
      BY <2>3, <2>12 DEF Answer
    <3>2. b \in w.blocks
      BY <2>3, <2>12, <3>1 DEF WriteAnswer
    <3>3. fs.blk_bmap = acc.fs.blk_bmap
      BY <2>4 DEF OnlyMoves
    <3> QED
      BY <2>5, <2>7, <3>1, <3>2, <3>3 DEF Own
  <2> QED
    BY <2>11, <2>12 DEF answer
<1> QED
  BY <1>1, <1>2

\* snfs_copy leads on, whether or not the disk or the table is full on the way.
LEMMA SnfsCopyKeeps ==
    ASSUME FsInv(fs), now \in Nat, NEW src \in Seq(Names), NEW junk \in 0 .. ItabSize,
           NEW tgtdir \in Seq(Names), NEW name \in Names
    PROVE  Reaches(fs, SnfsCopy(src, junk, tgtdir, name).fs)
<1> DEFINE s == Lookup(fs, src, junk, now)
           a == GetAttrs(s.fs, s.inode, now)
           d == Lookup(a.fs, tgtdir, 0, now)
           c == Create(d.fs, d.inode, name, "file", now)
           acc == Access(c.fs, s.inode, now)
           answer == SnfsCopy(src, junk, tgtdir, name)
<1>1. answer = IF s.ok THEN CopySource(a, s.inode, tgtdir, name) ELSE Answer("error", s.fs)
  BY DEF SnfsCopy, CopyFound
<1>2. LET s1 == Lookup(fs, src, junk, now) IN s1 \in WalkResult /\ Walked(fs, Len(src), s1)
  BY LookupKeeps
<1>3. Reaches(fs, s.fs) /\ FsInv(s.fs)
  BY <1>2 DEF Walked, Reaches
<1> HIDE DEF answer, s
<1>4. LET a1 == GetAttrs(s.fs, s.inode, now) IN
      /\ FileStep(s.fs, a1.fs) /\ Reaches(s.fs, a1.fs)
      /\ a1.st = "ok" => s.inode \in s.fs.inode_bmap
  BY <1>3, GetAttrsKeeps
<1>5. /\ Reaches(s.fs, a.fs)
      /\ a.st = "ok" => s.inode \in s.fs.inode_bmap
      /\ a.st \in {"error", "exit", "ok"}
  BY <1>4 DEF GetAttrs, Attrs
<1> HIDE DEF a
<1>6. Reaches(fs, a.fs) /\ FsInv(a.fs)
  BY <1>3, <1>5, ReachesOn DEF Reaches
<1>7. CASE ~s.ok
  BY <1>1, <1>3, <1>7 DEF Answer, answer
<1>8. CASE s.ok /\ (a.st \in {"exit", "error"} \/ a.inode.type # "file" \/ tgtdir = << >>)
  <2>1. answer = CopySource(a, s.inode, tgtdir, name)
    BY <1>1, <1>8
  <2>2. answer.fs = a.fs
    BY <1>8, <2>1 DEF CopySource, Answer
  <2> QED
    BY <1>6, <2>2 DEF answer
<1>9. CASE s.ok /\ ~(a.st \in {"exit", "error"} \/ a.inode.type # "file" \/ tgtdir = << >>)
  <2>1. answer = CopyTarget(d, s.inode, name)
    <3>1. answer = CopySource(a, s.inode, tgtdir, name)
      BY <1>1, <1>9
    <3> QED
      BY <1>9, <3>1 DEF CopySource
  <2>2. 0 \in 0 .. ItabSize
    BY InodesAssumption
  <2>3. LET d1 == Lookup(a.fs, tgtdir, 0, now) IN d1 \in WalkResult /\ Walked(a.fs, Len(tgtdir), d1)
    BY <1>6, <2>2, LookupKeeps
  <2>4. d \in WalkResult /\ Walked(a.fs, Len(tgtdir), d)
    BY <2>3
  <2>5. answer = IF d.ok THEN CopyCreated(c, s.inode) ELSE Answer("error", d.fs)
    BY <2>1 DEF CopyTarget
  <2> HIDE DEF d
  <2>6. Reaches(a.fs, d.fs) /\ FsInv(d.fs)
    BY <2>4 DEF Walked, Reaches
  <2>7. Reaches(fs, d.fs)
    BY <1>6, <2>6, ReachesOn
  <2>8. CASE ~d.ok
    BY <2>5, <2>7, <2>8 DEF Answer, answer
  <2>9. CASE d.ok
    <3>1. d.inode \in InodeNums
      <4>1. d.inode \in a.fs.inode_bmap
        BY <1>9, <2>4, <2>9, PathFacts DEF Walked
      <4> QED
        BY <1>6, <4>1, Fields DEF FsInv
    <3>2. LET c1 == Create(d.fs, d.inode, name, "file", now) IN
          /\ Reaches(d.fs, c1.fs)
          /\ c1.ok => c1.inode \in c1.fs.inode_bmap /\ c1.fs.inode_tab[c1.inode].type = "file"
          /\ c1.ok => c1.inode \in InodeNums
      BY <2>6, <3>1, CreateKeeps
    <3>3. /\ Reaches(d.fs, c.fs)
          /\ c.ok => c.fs.inode_tab[c.inode].type = "file" /\ c.inode \in InodeNums
      BY <3>2
    <3>4. answer = CopyCreated(c, s.inode)
      BY <2>5, <2>9
    <3> HIDE DEF c
    <3>5. Reaches(fs, c.fs) /\ FsInv(c.fs)
      BY <2>7, <3>3, ReachesOn DEF Reaches
    <3>6. CASE ~c.ok
      BY <3>4, <3>5, <3>6 DEF CopyCreated, Answer, answer
    <3>7. CASE c.ok
      <4>1. s.inode \in InodeNums
        <5>1. a.st = "ok"
          BY <1>5, <1>9
        <5> QED
          BY <1>3, <1>5, <5>1, Fields DEF FsInv
      <4>2. LET acc1 == Access(c.fs, s.inode, now) IN
            OnlyMoves(c.fs, acc1.fs) /\ Reaches(c.fs, acc1.fs) /\ PointsTo(acc1.fs, acc1.at, s.inode)
        BY <3>5, <4>1, AccessKeeps
      <4>3. answer = CopyData(acc, s.inode, c.inode)
        BY <3>4, <3>7 DEF CopyCreated
      <4>4. OnlyMoves(c.fs, acc.fs) /\ Reaches(c.fs, acc.fs) /\ PointsTo(acc.fs, acc.at, s.inode)
            /\ FsInv(acc.fs)
        BY <4>2 DEF Reaches
      <4> HIDE DEF acc
      <4>5. acc.fs.inode_tab[c.inode].type = "file"
        BY <3>3, <3>7, <4>4 DEF OnlyMoves, FileStep
      <4>6. Reaches(acc.fs, CopyData(acc, s.inode, c.inode).fs)
        BY <3>3, <3>7, <4>1, <4>4, <4>5, CopyDataKeeps
      <4>7. Reaches(fs, acc.fs)
        BY <3>5, <4>4, ReachesOn
      <4> QED
        BY <4>3, <4>6, <4>7, ReachesOn DEF answer
    <3> QED
      BY <3>6, <3>7
  <2> QED
    BY <2>8, <2>9
<1> QED
  BY <1>7, <1>8, <1>9

-----------------------------------------------------------------------------
(* The formatted disk and the creations that the clients have begun with.  *)

\* The formatted disk satisfies the invariant.
LEMMA FormattedOK ==
    FsInv(Formatted)
<1> DEFINE f == Formatted
<1>1. InodeInit("dir") \in Inode /\ InodeInit("none") \in Inode
  BY DEF InodeInit, Inode
<1>2. ZeroPage \in Page
  BY Sizes DEF ZeroPage, Page, NoDentry, Dentry
<1>3. ZeroInodeEntry \in InodeEntry /\ ZeroDirEntry \in DirEntry
  BY <1>1, <1>2, Sizes DEF ZeroInodeEntry, InodeEntry, ZeroDirEntry, DirEntry
<1>4. /\ \A n \in InodeNums : f.inode_tab[n] = InodeInit(IF n = Root THEN "dir" ELSE "none")
      /\ f.inode_bmap = {0, Root} /\ f.blk_bmap = {}
      /\ \A b \in Blocks : f.page[b] = ZeroPage
      /\ \A i \in ISlots : f.inode_cache[i] = ZeroInodeEntry
      /\ \A i \in DSlots : f.dir_cache[i] = ZeroDirEntry
  BY DEF Formatted
<1>5. f \in FsStruct
  <2> HIDE DEF f
  <2>1. f = Formatted
    BY DEF f
  <2> QED
    BY <1>1, <1>2, <1>3, <2>1, Sizes DEF Formatted, FsStruct
<1> HIDE DEF f
<1>6. \A type : /\ InodeInit(type).type = type /\ InodeInit(type).size = 0
                /\ \A j \in Indices : InodeInit(type).blocks[j] = 0
  BY DEF InodeInit
<1>7. \A n \in InodeNums : /\ f.inode_tab[n].type = IF n = Root THEN "dir" ELSE "none"
                           /\ f.inode_tab[n].size = 0
                           /\ \A j \in Indices : f.inode_tab[n].blocks[j] = 0
  BY <1>4, <1>6
<1>8. 0 # Root /\ 0 \in InodeNums /\ Root \in InodeNums
  BY Sizes DEF Root
<1>9. DirsIn(f) = {Root}
  BY <1>7, <1>8 DEF DirsIn
<1>10. /\ f.inode_tab[Root].size = 0 /\ f.inode_tab[Root].type = "dir" /\ f.inode_tab[0].type = "none"
      /\ \A j \in Indices : f.inode_tab[Root].blocks[j] = 0
  BY <1>7, <1>8
<1>11. NumOf(f.inode_tab[Root]) = 0 /\ 0 * DentrySize = 0
  <2>1. (0 * DentrySize) \div DentrySize = 0 /\ 0 * DentrySize = 0
    BY EntrySlot, BlockIsPage
  <2> QED
    BY <1>10, <2>1 DEF NumOf
<1>12. BlocksInv(f)
  <2>1. ASSUME NEW n \in InodeNums, NEW x \in CopiesIn(f, n)
        PROVE  Covered(x) /\ Distinct(x) /\ BlocksOf(x) = {}
    <3>1. x.size = 0 /\ \A j \in Indices : x.blocks[j] = 0
      <4>1. CASE x = f.inode_tab[n]
        BY <1>7, <4>1
      <4>2. CASE x # f.inode_tab[n]
        <5>1. PICK i \in CachedAt(f, n) : x = f.inode_cache[i].inode
          BY <2>1, <4>2 DEF CopiesIn
        <5>2. x = InodeInit("none")
          BY <1>4, <5>1 DEF CachedAt, ZeroInodeEntry
        <5> QED
          BY <5>2 DEF InodeInit
      <4> QED
        BY <4>1, <4>2
    <3>2. OffsetToBlocks(0) = 0
      BY InodesAssumption DEF OffsetToBlocks
    <3>3. InodeNumBlks \in Nat /\ \A i \in Indices : i \in Nat
      BY InodesAssumption, Sizes
    <3> QED
      BY <3>1, <3>2, <3>3 DEF Covered, Distinct, BlocksOf
  <2> QED
    BY <2>1 DEF BlocksInv
<1>13. KindInv(f)
  <2>1. \A n \in InodeNums \ {0} : n \in f.inode_bmap <=> f.inode_tab[n].type # "none"
    BY <1>4, <1>7
  <2> QED
    BY <1>4, <1>10, <2>1 DEF KindInv
<1>14. CacheInv(f)
  <2>1. SlotOK(f, ZeroInodeEntry)
    BY <1>4, <1>10 DEF SlotOK, ZeroInodeEntry, InodeInit
  <2> QED
    BY <1>4, <2>1 DEF CacheInv
<1>15. PagesInv(f)
  BY <1>4, <1>9, <1>10, <1>11 DEF PagesInv
<1>16. TreeInv(f)
  <2>1. 0 .. 0 - 1 = {}
    OBVIOUS
  <2>2. f.inode_bmap \ {0, Root} = {}
    BY <1>4
  <2> QED
    BY <1>9, <1>11, <2>1, <2>2 DEF TreeInv
<1>17. DirCacheInv(f)
  BY <1>4 DEF DirCacheInv, ZeroDirEntry, ZeroPage, NoDentry
<1> QED
  BY <1>5, <1>12, <1>13, <1>14, <1>15, <1>16, <1>17 DEF FsInv, f

\* One of the first creations.
SetUp(f, r) == Create(f, r.dir, r.name, r.type, 1).fs

\* No inode is cached.
NothingCached(f) == \A i \in ISlots : f.inode_cache[i].inode.type = "none"

\* So does the disk after the first creations, which look no inode up.
LEMMA PreparedOK ==
    FsInv(Prepared) /\ PagesNamed(Prepared) /\ NothingCached(Prepared)
<1> DEFINE N == Len(Setup)
           Good == {p \in (0 .. N) \X FsStruct : FsInv(p[2]) /\ PagesNamed(p[2]) /\ NothingCached(p[2])}
           s0 == Formatted
           step == [p \in Good |-> SetUp(p[2], Setup[p[1] + 1])]
           made == CHOOSE made : made = [i \in 0 .. N |->
                       IF i = 0 THEN s0 ELSE SetUp(made[i - 1], Setup[i])]
<1>1. Prepared = made[N]
  BY DEF Prepared, SetUp
<1>2. N \in Nat /\ \A i \in 1 .. N : Setup[i] \in CreateRequest
  BY FileSystemAssumption
<1> HIDE DEF N
<1>3. <<0, s0>> \in Good
  <2>1. PagesNamed(s0)
    BY DEF PagesNamed, Named, Formatted, ZeroPage, NoDentry
  <2>2. NothingCached(s0)
    BY DEF NothingCached, Formatted, ZeroInodeEntry, InodeInit
  <2> QED
    BY <1>2, <2>1, <2>2, FormattedOK DEF FsInv
<1>4. ASSUME NEW k \in 0 .. N - 1, NEW s, <<k, s>> \in Good
      PROVE  /\ <<k + 1, SetUp(s, Setup[k + 1])>> \in Good
             /\ step[<<k, s>>] = SetUp(s, Setup[k + 1])
  <2> DEFINE r == Setup[k + 1]
  <2>1. k + 1 \in 1 .. N /\ k + 1 \in 0 .. N
    BY <1>2
  <2>2. r \in CreateRequest
    BY <1>2, <2>1
  <2> HIDE DEF r
  <2>3. r.dir \in InodeNums /\ r.name \in Names \cup {NoName} /\ r.type \in {"dir", "file"}
    BY <2>2 DEF CreateRequest
  <2>4. FsInv(s) /\ PagesNamed(s) /\ NothingCached(s)
    BY <1>4
  <2>5. Reaches(s, SetUp(s, r)) /\ SetUp(s, r).inode_cache = s.inode_cache
    <3> DEFINE dir == r.dir
               name == r.name
               type == r.type
    <3>1. dir \in InodeNums /\ name \in Names \cup {NoName} /\ type \in {"dir", "file"} /\ FsInv(s)
      BY <2>3, <2>4
    <3> HIDE DEF dir, name, type
    <3>2. LET c == Create(s, dir, name, type, 1) IN Reaches(s, c.fs) /\ c.fs.inode_cache = s.inode_cache
      BY <3>1, CreateKeeps
    <3> QED
      BY <3>2 DEF SetUp, dir, name, type
  <2>6. FsInv(SetUp(s, r)) /\ SetUp(s, r) \in FsStruct /\ PagesNamed(SetUp(s, r))
    BY <2>4, <2>5 DEF Reaches, FsInv
  <2>7. NothingCached(SetUp(s, r))
    BY <2>4, <2>5 DEF NothingCached
  <2> QED
    BY <1>4, <2>1, <2>6, <2>7 DEF r
<1> HIDE DEF Good, step
<1>5. RoundsKeep(N, Good, step)
  BY <1>4 DEF RoundsKeep
<1> HIDE DEF s0
<1>6. PICK g : RunsLoop(g, N, Good, s0, step)
  BY <1>2, <1>3, <1>5, LoopRuns
<1>7. ASSUME NEW k \in 1 .. N
      PROVE  k - 1 \in 0 .. N - 1 /\ (k - 1) + 1 = k /\ k \in 0 .. N /\ k # 0
  BY <1>2
<1>8. ASSUME NEW k \in 1 .. N
      PROVE  g[k] = SetUp(g[k - 1], Setup[k])
  BY ZenonT(60), <1>4, <1>6, <1>7 DEF RunsLoop
<1>9. g = [i \in 0 .. N |-> IF i = 0 THEN s0 ELSE SetUp(g[i - 1], Setup[i])]
  <2>1. \A k \in 0 .. N : k = 0 \/ k \in 1 .. N
    BY <1>2
  <2>2. \A k \in 0 .. N : g[k] = IF k = 0 THEN s0 ELSE SetUp(g[k - 1], Setup[k])
    BY <1>6, <1>8, <2>1 DEF RunsLoop
  <2> QED
    BY <1>6, <2>2 DEF RunsLoop
<1>10. made = [i \in 0 .. N |-> IF i = 0 THEN s0 ELSE SetUp(made[i - 1], Setup[i])]
  BY <1>9
<1> HIDE DEF made
<1>11. <<0, made[0]>> \in Good
  BY <1>2, <1>3, <1>10
<1>12. ASSUME NEW k \in 1 .. N, <<k - 1, made[k - 1]>> \in Good
       PROVE  <<k, made[k]>> \in Good
  <2>1. made[k] = SetUp(made[k - 1], Setup[k])
    BY <1>7, <1>10
  <2> QED
    BY <1>4, <1>7, <1>12, <2>1
<1>13. <<N, made[N]>> \in Good
  BY <1>2, <1>11, <1>12, LoopKeeps
<1> QED
  BY <1>1, <1>13 DEF Good

-----------------------------------------------------------------------------
(* The inductive invariant.                                                *)

FileSystemInv == FsInv(fs) /\ now \in Nat /\ up \in BOOLEAN

\* The invariant holds initially.
LEMMA InitOK ==
    Init => FileSystemInv
BY PreparedOK DEF Init, FileSystemInv

\* Every request leads on from the structure it found.
LEMMA RequestReaches ==
    ASSUME FsInv(fs), now \in Nat, Request
    PROVE  Reaches(fs, fs') /\ now' = now /\ up' \in BOOLEAN
<1>1. ASSUME NEW answer, Reply(answer), Reaches(fs, answer.fs)
      PROVE  Reaches(fs, fs') /\ now' = now /\ up' \in BOOLEAN
  BY <1>1 DEF Reply
<1>2. \A path \in Paths : path \in Seq(Names) /\ JunkFor(path) \subseteq 0 .. ItabSize
  BY PathsAreSeqs, FileSystemAssumption, InodesAssumption DEF JunkFor
<1>3. CASE \E path \in Paths : \E junk \in JunkFor(path) : Reply(SnfsLookup(path, junk))
  <2>1. PICK path \in Paths : \E junk \in JunkFor(path) : Reply(SnfsLookup(path, junk))
    BY <1>3
  <2>2. PICK junk \in JunkFor(path) : Reply(SnfsLookup(path, junk))
    BY <2>1
  <2>3. Reaches(fs, SnfsLookup(path, junk).fs)
    BY <1>2, SnfsLookupKeeps
  <2> QED
    BY <1>1, <2>2, <2>3
<1>4. CASE \E dir \in Handles, name \in Names \cup {NoName}, type \in {"file", "dir"} :
               Reply(SnfsCreate(dir, name, type))
  <2>1. PICK dir \in Handles, name \in Names \cup {NoName}, type \in {"file", "dir"} :
             Reply(SnfsCreate(dir, name, type))
    BY <1>4
  <2>2. Reaches(fs, SnfsCreate(dir, name, type).fs)
    BY SnfsCreateKeeps
  <2> QED
    BY <1>1, <2>1, <2>2
<1>5. CASE \E dir \in Handles : Reply(SnfsReaddir(dir, ItabSize))
  <2>1. PICK dir \in Handles : Reply(SnfsReaddir(dir, ItabSize))
    BY <1>5
  <2>2. LET answer == SnfsReaddir(dir, ItabSize) IN Reaches(fs, answer.fs)
    BY SnfsReaddirKeeps, InodesAssumption
  <2> QED
    BY <1>1, <2>1, <2>2
<1>6. CASE \E n \in Handles, off \in Offsets, cnt \in Counts : Reply(SnfsRead(n, off, cnt))
  <2>1. PICK n \in Handles, off \in Offsets, cnt \in Counts : Reply(SnfsRead(n, off, cnt))
    BY <1>6
  <2>2. off \in Nat /\ cnt \in Nat
    BY FileSystemAssumption
  <2>3. LET answer == SnfsRead(n, off, cnt) IN Reaches(fs, answer.fs)
    BY <2>2, SnfsReadKeeps
  <2> QED
    BY <1>1, <2>1, <2>3
<1>7. CASE \E n \in Handles, off \in Offsets, cnt \in Counts : Reply(SnfsWrite(n, off, cnt))
  <2>1. PICK n \in Handles, off \in Offsets, cnt \in Counts : Reply(SnfsWrite(n, off, cnt))
    BY <1>7
  <2>2. off \in Nat /\ cnt \in Nat
    BY FileSystemAssumption
  <2>3. LET answer == SnfsWrite(n, off, cnt) IN Reaches(fs, answer.fs)
    BY <2>2, SnfsWriteKeeps
  <2> QED
    BY <1>1, <2>1, <2>3
<1>8. CASE \E src, tgtdir \in Paths, name \in Names :
              \E junk \in JunkFor(src) : Reply(SnfsCopy(src, junk, tgtdir, name))
  <2>1. PICK src \in Paths, tgtdir \in Paths, name \in Names :
              \E junk \in JunkFor(src) : Reply(SnfsCopy(src, junk, tgtdir, name))
    BY <1>8
  <2>2. PICK junk \in JunkFor(src) : Reply(SnfsCopy(src, junk, tgtdir, name))
    BY <2>1
  <2>3. Reaches(fs, SnfsCopy(src, junk, tgtdir, name).fs)
    BY <1>2, SnfsCopyKeeps
  <2> QED
    BY <1>1, <2>2, <2>3
<1> QED
  BY <1>3, <1>4, <1>5, <1>6, <1>7, <1>8 DEF Request

\* Every step keeps the invariant, and no directory shrinks in it.
LEMMA NextOK ==
    ASSUME FileSystemInv, [Next]_vars
    PROVE  FileSystemInv' /\ Grows(fs, fs')
<1>1. FsInv(fs) /\ now \in Nat /\ up \in BOOLEAN
  BY DEF FileSystemInv
<1>2. Reaches(fs, fs)
  BY <1>1, ReachesItself
<1>3. CASE UNCHANGED vars
  BY <1>1, <1>2, <1>3 DEF vars, FileSystemInv, Reaches
<1>4. CASE Tick
  BY <1>1, <1>2, <1>4 DEF Tick, FileSystemInv, Reaches
<1>5. CASE Request
  <2>1. Reaches(fs, fs') /\ now' = now /\ up' \in BOOLEAN
    BY <1>1, <1>5, RequestReaches
  <2> QED
    BY <1>1, <2>1 DEF FileSystemInv, Reaches
<1> QED
  BY <1>3, <1>4, <1>5 DEF Next

\* The invariant holds at all times: whatever requests clients send one after the other, and
\* whenever the caches evict what (fs.c, snfs.c).
THEOREM Invariance == Spec => []FileSystemInv
<1>1. FileSystemInv /\ [Next]_vars => FileSystemInv'
  BY NextOK
<1> QED
  BY InitOK, <1>1, PTL DEF Spec

-----------------------------------------------------------------------------
(* The properties.                                                         *)

\* Every field of the file system structure keeps its shape.
THEOREM StructureKeepsItsShape == Spec => []TypeOK
<1>1. FileSystemInv => TypeOK
  BY DEF FileSystemInv, FsInv, TypeOK
<1> QED
  BY Invariance, <1>1, PTL

\* The copies of an inode in the current state.
LEMMA SameCopies == \A n : Copies(n) = CopiesIn(fs, n)
BY DEF Copies, CopiesIn

\* No block ever belongs to two inodes or twice to one, in whatever copy of them, and every
\* block in an inode is marked as used (fs.c:531-534, 795-811, 1219-1225).
THEOREM FilesShareNoBlock == Spec => []BlocksNotShared
<1>1. FileSystemInv => BlocksNotShared
  BY SameCopies DEF FileSystemInv, FsInv, BlocksInv, Distinct, BlocksNotShared
<1> QED
  BY Invariance, <1>1, PTL

\* Every copy of an inode has blocks up to its size (fs.c:689-694, 826-829, 1213-1215).
THEOREM SizeIsCovered == Spec => []SizeCovered
<1>1. FileSystemInv => SizeCovered
  BY SameCopies DEF FileSystemInv, FsInv, BlocksInv, Covered, SizeCovered
<1> QED
  BY Invariance, <1>1, PTL

\* A cached inode is in use and has its current type (fs.c:562-571).
THEOREM CachedKindsAreCurrent == Spec => []CachedKindIsCurrent
<1>1. FileSystemInv => CachedKindIsCurrent
  BY DEF FileSystemInv, FsInv, CacheInv, SlotOK, CachedKindIsCurrent
<1> QED
  BY Invariance, <1>1, PTL

\* The directories and their entries in the current state.
LEMMA SameEntries ==
    /\ Dirs = DirsIn(fs)
    /\ \A d, i : EntryAt(d, i) = PlaceIn(fs, fs.inode_tab[d], i)
    /\ \A d : EntriesOf(d) = EntriesIn(fs, d)
<1>1. \A d, i : EntryAt(d, i) = PlaceIn(fs, fs.inode_tab[d], i)
  BY DEF EntryAt, PlaceIn
<1>2. Dirs = DirsIn(fs)
  BY DEF Dirs, DirsIn
<1>3. \A d : EntriesOf(d) = EntriesIn(fs, d)
  BY <1>1 DEF EntriesOf, EntriesIn, NumOf
<1> QED
  BY <1>1, <1>2, <1>3

\* What a cached page says of a name is in that directory (fs.c:329-333, 386-391, 406-414).
THEOREM DirectoryCacheIsHonest == Spec => []DirCacheNeverLies
<1>1. FileSystemInv => DirCacheNeverLies
  BY SameEntries DEF FileSystemInv, FsInv, DirCacheInv, DirCacheNeverLies
<1> QED
  BY Invariance, <1>1, PTL

\* An inode is mentioned as often as the tree says.
LEMMA MentionedOnce ==
    ASSUME TreeInv(fs), NEW n \in InodeNums \ {0},
           \A d \in DirsIn(fs) : LET num == NumOf(fs.inode_tab[d]) IN num \in Nat /\ num <= ItabSize
    PROVE  Cardinality(Mentions(n)) = IF n = Root \/ n \notin fs.inode_bmap THEN 0 ELSE 1
<1> DEFINE N(d) == NumOf(fs.inode_tab[d])
           E(d, i) == PlaceIn(fs, fs.inode_tab[d], i)
<1>1. \A at \in Mentions(n) :
          /\ at[1] \in DirsIn(fs) /\ at[2] \in 0 .. N(at[1]) - 1
          /\ at = <<at[1], at[2]>>
          /\ E(at[1], at[2]).inode = n
  <2> TAKE at \in Mentions(n)
  <2>1. /\ at \in DirsIn(fs) \X (0 .. ItabSize)
        /\ at[2] < N(at[1])
        /\ E(at[1], at[2]).inode = n
    BY SameEntries DEF Mentions, NumOf
  <2>2. N(at[1]) \in Nat
    BY <2>1
  <2> HIDE DEF N, E
  <2> QED
    BY <2>1, <2>2
<1>2. \A d \in DirsIn(fs) : \A i \in 0 .. N(d) - 1 :
          E(d, i).inode \in fs.inode_bmap \ {0, Root}
  BY DEF TreeInv
<1>3. CASE n = Root \/ n \notin fs.inode_bmap
  <2> HIDE DEF N, E
  <2>1. Mentions(n) = {}
    BY <1>1, <1>2, <1>3
  <2> QED
    BY <1>3, <2>1, FS_EmptySet
<1>4. CASE ~(n = Root \/ n \notin fs.inode_bmap)
  <2>1. \E d \in DirsIn(fs) : \E i \in 0 .. N(d) - 1 : E(d, i).inode = n
    BY <1>4 DEF TreeInv
  <2>2. PICK d \in DirsIn(fs) : \E i \in 0 .. N(d) - 1 : E(d, i).inode = n
    BY <2>1
  <2>3. PICK i \in 0 .. N(d) - 1 : E(d, i).inode = n
    BY <2>2
  <2>4. \A c \in DirsIn(fs) : \A j \in 0 .. N(c) - 1 : E(c, j).inode = E(d, i).inode => c = d /\ j = i
    BY DEF TreeInv
  <2>5. <<d, i>> \in Mentions(n)
    <3>1. N(d) \in Nat /\ N(d) <= ItabSize /\ ItabSize \in Nat
      BY InodesAssumption
    <3> HIDE DEF N
    <3>2. i \in 0 .. ItabSize /\ i < N(d)
      BY <3>1
    <3> QED
      BY <2>3, <3>2, SameEntries DEF Mentions, N, NumOf
  <2> HIDE DEF N, E
  <2>6. Mentions(n) = {<<d, i>>}
    BY <1>1, <2>3, <2>4, <2>5
  <2> QED
    BY <1>4, <2>6, FS_Singleton
<1> QED
  BY <1>3, <1>4

\* Every inode in use but the root is in one place of one directory, and no entry leads to
\* an inode that is not in use (fs.c:937-948, 1004-1015).
THEOREM DirectoriesAreATree == Spec => []TreeIntact
<1>1. ASSUME FileSystemInv
      PROVE  TreeIntact
  <2>1. TreeInv(fs) /\ FsInv(fs)
    BY <1>1 DEF FileSystemInv, FsInv
  <2>2. ASSUME NEW d \in DirsIn(fs)
        PROVE  LET num == NumOf(fs.inode_tab[d]) IN num \in Nat /\ num <= ItabSize
    BY <2>1, DirFacts, NumBound, InodesAssumption
  <2> QED
    BY <2>1, <2>2, MentionedOnce DEF TreeIntact
<1> QED
  BY Invariance, <1>1, PTL

\* No step makes a directory smaller or turns it into a file (fs.c:531-533, 944, 1011).
THEOREM NoEntryIsLost == Spec => DirectoriesOnlyGrow
<1>1. ASSUME FileSystemInv, [Next]_vars
      PROVE  \A n \in Dirs : /\ fs'.inode_tab[n].type = "dir"
                             /\ fs'.inode_tab[n].size >= fs.inode_tab[n].size
  <2>1. Grows(fs, fs') /\ FsInv(fs)
    BY <1>1, NextOK DEF FileSystemInv
  <2>2. \A n \in Dirs : n \in fs.inode_bmap /\ fs.inode_tab[n].type = "dir"
    BY <2>1, DirFacts DEF Dirs, DirsIn
  <2> QED
    BY <2>1, <2>2 DEF Grows
<1> QED
  BY Invariance, <1>1, PTL DEF Spec, DirectoriesOnlyGrow

\* A block that a transfer may use is neither block 0 nor one of another inode.
LEMMA OwnIsNotOthers ==
    ASSUME FsInv(fs), NEW n \in InodeNums, NEW b, Own(fs, n, b),
           NEW m \in InodeNums \ {n}, NEW x \in Copies(m)
    PROVE  b \notin {0} \cup BlocksOf(x)
<1>1. x \in CopiesIn(fs, m)
  BY SameCopies
<1>2. BlocksOf(x) \subseteq fs.blk_bmap
  BY <1>1, CopyFacts
<1>3. \A y \in CopiesIn(fs, n) : BlocksOf(y) \cap BlocksOf(x) = {}
  BY <1>1 DEF FsInv, BlocksInv
<1> QED
  BY <1>2, <1>3 DEF Own

\* A read takes bytes from blocks of the file only, and a write changes no block of another
\* file or of the metadata (fs.c:691-735, 828-866).
THEOREM TransfersUseOwnBlocks == Spec => []TransfersStayInFile
<1>1. ASSUME FileSystemInv PROVE TransfersStayInFile
  <2>1. FsInv(fs) /\ now \in Nat
    BY <1>1 DEF FileSystemInv
  <2> SUFFICES ASSUME NEW n \in InodeNums, NEW off \in Offsets, NEW cnt \in Counts,
                      NEW answer \in {SnfsRead(n, off, cnt), SnfsWrite(n, off, cnt)},
                      answer.st = "ok",
                      NEW m \in InodeNums \ {n}, NEW x \in Copies(m)
               PROVE  answer.blocks \cap ({0} \cup BlocksOf(x)) = {}
    BY DEF TransfersStayInFile
  <2>2. off \in Nat /\ cnt \in Nat /\ n \in Handles
    BY FileSystemAssumption, InodesAssumption DEF Handles, InodeNums
  <2>3. LET a == SnfsRead(n, off, cnt) IN a.st = "ok" => \A b \in a.blocks : Own(fs, n, b)
    BY <2>1, <2>2, SnfsReadKeeps
  <2>4. LET a == SnfsWrite(n, off, cnt) IN a.st = "ok" => \A b \in a.blocks : Own(fs, n, b)
    BY <2>1, <2>2, SnfsWriteKeeps
  <2>5. \A b \in answer.blocks : Own(fs, n, b)
    BY <2>3, <2>4
  <2>6. \A b \in answer.blocks : b \notin {0} \cup BlocksOf(x)
    BY <2>1, <2>5, OwnIsNotOthers
  <2> QED
    BY <2>6
<1> QED
  BY Invariance, <1>1, PTL

\* A listing ends the server only if a cached page of the directory is stale, and a look-up
\* of a name never does (fs.c:582-590, 1112-1124, snfs.c:209-213).
THEOREM OnlyStaleListingsExit == Spec => []ExitOnlyFromStaleListing
<1>1. ASSUME FileSystemInv PROVE ExitOnlyFromStaleListing
  <2>1. FsInv(fs) /\ now \in Nat
    BY <1>1 DEF FileSystemInv
  <2>2. ASSUME NEW dir \in Handles
        PROVE  SnfsReaddir(dir, ItabSize).st = "exit" => HasStalePage(dir)
    <3>1. LET answer == SnfsReaddir(dir, ItabSize) IN answer.st = "exit" => HasStalePage(dir)
      BY <2>1, SnfsReaddirKeeps, InodesAssumption
    <3> QED
      BY <3>1
  <2>3. ASSUME NEW name \in Names
        PROVE  SnfsLookup(<<name>>, 0).st # "exit"
    <3>1. <<name>> \in Seq(Names) /\ <<name>> # << >> /\ 0 \in 0 .. ItabSize
      BY InodesAssumption
    <3> QED
      BY <2>1, <3>1, SnfsLookupKeeps
  <2> QED
    BY <2>2, <2>3 DEF ExitOnlyFromStaleListing
<1> QED
  BY Invariance, <1>1, PTL
=============================================================================
