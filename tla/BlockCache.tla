----------------------------- MODULE BlockCache -----------------------------
(***************************************************************************)
(* The write-back cache of data blocks in snfs_server/fs.c and the way the *)
(* threads that serve requests go through it: the block loops of fs_read,  *)
(* fs_write and fs_copy.                                                   *)
(*                                                                         *)
(* One step is what a thread does while it holds cache_mutex.  A block     *)
(* that is not in the cache is copied from the disk with the mutex         *)
(* released, between the look-up that missed and the step that inserts the *)
(* block: the copy proceeds part by part while others run.                 *)
(*                                                                         *)
(* A block is a function from Parts to Values: a part is what one write    *)
(* request replaces of it.  A request that touches several blocks is a     *)
(* sequence of the operations here.                                        *)
(***************************************************************************)
EXTENDS Naturals

CONSTANTS Workers,     \* threads that serve requests
          Blocks,      \* data blocks (10 .. num_blocks-1)
          NullBlock,   \* block 0, which the zeroed cache entries name
          Parts,       \* pieces of a block
          Values,      \* contents of a part
          Zero,        \* contents of a part that was never written
          NoData,      \* nothing read yet
          CacheSize,   \* BLOCK_CACHE_SIZE
          MayAccess,   \* the blocks of the files a worker serves
          MaxTime      \* bound: seconds that may pass

ASSUME BlockCacheAssumption ==
    /\ CacheSize \in Nat \ {0}
    /\ MaxTime \in Nat
    /\ NullBlock \notin Blocks
    /\ Zero \in Values
    /\ MayAccess \in [Workers -> SUBSET Blocks]

Data == [Parts -> Values]
ZeroData == [p \in Parts |-> Zero]
Slots == 0 .. CacheSize - 1

VARIABLES
    disk,    \* bks->blocks
    cache,   \* block_cache: block number, data, dirty and last_access of a slot
    now,     \* time(NULL)
    fresh,   \* blocks the bitmap still has as free
    op,      \* what each worker does outside the mutex
    got      \* block_data of the last block each worker read

vars == <<disk, cache, now, fresh, op, got>>

Entry == [block : Blocks \cup {NullBlock}, data : Data, dirty : BOOLEAN, last : Nat]

-----------------------------------------------------------------------------
(* The cache operations, on a cache c and a disk d.                        *)

\* find_block_in_cache: the first slot that names block b.
HitAt(c, b, i) == c[i].block = b /\ \A j \in 0 .. i - 1 : c[j].block # b

Miss(c, b) == \A i \in Slots : c[i].block # b

\* The LRU scan: the first slot among those least recently used.
VictimOf(c, i) ==
    /\ \A j \in Slots : c[i].last <= c[j].last
    /\ \A j \in 0 .. i - 1 : c[i].last < c[j].last

\* Mutant: a dirty victim is dropped.
FlushedNever(d, c, i) == d

\* add_block_to_cache with slot i as the victim: what it leaves on the disk ...
Flushed(d, c, i) == IF c[i].dirty THEN [d EXCEPT ![c[i].block] = c[i].data] ELSE d

\* ... and in the cache.
Filled(c, i, b, data, dirty) ==
    [c EXCEPT ![i] = [block |-> b, data |-> data, dirty |-> dirty, last |-> now]]

AddBlock(b, data, dirty) ==
    \E i \in Slots :
        /\ VictimOf(cache, i)
        /\ disk' = Flushed(disk, cache, i)
        /\ cache' = Filled(cache, i, b, data, dirty)

\* The contents of block b as the file system sees them.
Content(c, d, b) ==
    IF Miss(c, b) THEN d[b] ELSE c[CHOOSE i \in Slots : HitAt(c, b, i)].data

-----------------------------------------------------------------------------
Idle == [st |-> "idle"]

\* The block a copy has reserved for its target and not yet inserted.
IsTarget(w, t) == op[w].st = "load" /\ op[w].kind.do = "copy" /\ op[w].kind.target = t

\* The blocks worker w finds in the inodes of its files.  A file that is being
\* copied to has size 0 until the copy is complete (fs.c:1253).
Reachable(w) == {b \in MayAccess[w] \ fresh : \A u \in Workers : ~IsTarget(u, b)}

\* Mutant: block_num is used before it is set.
LoadingNull(kind, b) == [st |-> "load", kind |-> kind, block |-> NullBlock, todo |-> Parts, data |-> ZeroData]

\* After a miss: todo is what block_read has still to copy into data.
Loading(kind, b) == [st |-> "load", kind |-> kind, block |-> b, todo |-> Parts, data |-> ZeroData]

\* fs_read, the look-up in the cache.
ReadHit(w, b) ==
    /\ op[w] = Idle
    /\ b \in Reachable(w)
    /\ \E i \in Slots :
          /\ HitAt(cache, b, i)
          /\ got' = [got EXCEPT ![w] = cache[i].data]
          /\ cache' = [cache EXCEPT ![i].last = now]
    /\ UNCHANGED <<disk, now, fresh, op>>

\* Mutant: the cache is not consulted.
ReadMissAlways(w, b) ==
    /\ op[w] = Idle
    /\ b \in Reachable(w)
    /\ op' = [op EXCEPT ![w] = Loading([do |-> "read"], b)]
    /\ UNCHANGED <<disk, cache, now, fresh, got>>

ReadMiss(w, b) ==
    /\ op[w] = Idle
    /\ b \in Reachable(w)
    /\ Miss(cache, b)
    /\ op' = [op EXCEPT ![w] = Loading([do |-> "read"], b)]
    /\ UNCHANGED <<disk, cache, now, fresh, got>>

\* block_read without the mutex: a part at a time, in any order.
Load(w, p) ==
    LET o == op[w] IN
    /\ o.st = "load"
    /\ p \in o.todo
    /\ op' = [op EXCEPT ![w] =
                 [o EXCEPT !.todo = o.todo \ {p},
                           !.data = [o.data EXCEPT ![p] = disk[o.block][p]]]]
    /\ UNCHANGED <<disk, cache, now, fresh, got>>

Loaded(w, do) == op[w].st = "load" /\ op[w].todo = {} /\ op[w].kind.do = do

ReadFill(w) ==
    /\ Loaded(w, "read")
    /\ AddBlock(op[w].block, op[w].data, FALSE)
    /\ got' = [got EXCEPT ![w] = op[w].data]
    /\ op' = [op EXCEPT ![w] = Idle]
    /\ UNCHANGED <<now, fresh>>

-----------------------------------------------------------------------------
(* fs_write: allocation of a block, and the read-modify-write of a part.   *)

Allocate(w, b) ==
    /\ op[w] = Idle
    /\ b \in MayAccess[w] \cap fresh
    /\ fresh' = fresh \ {b}
    /\ AddBlock(b, ZeroData, TRUE)
    /\ UNCHANGED <<now, op, got>>

\* Mutant: the entry is not marked dirty.
WriteHitClean(w, b, p, v) ==
    /\ op[w] = Idle
    /\ b \in Reachable(w)
    /\ \E i \in Slots :
          /\ HitAt(cache, b, i)
          /\ cache' = [cache EXCEPT ![i] =
                          [block |-> b, data |-> [cache[i].data EXCEPT ![p] = v],
                           dirty |-> cache[i].dirty, last |-> now]]
    /\ UNCHANGED <<disk, now, fresh, op, got>>

WriteHit(w, b, p, v) ==
    /\ op[w] = Idle
    /\ b \in Reachable(w)
    /\ \E i \in Slots :
          /\ HitAt(cache, b, i)
          /\ cache' = [cache EXCEPT ![i] =
                          [block |-> b, data |-> [cache[i].data EXCEPT ![p] = v],
                           dirty |-> TRUE, last |-> now]]
    /\ UNCHANGED <<disk, now, fresh, op, got>>

\* Mutant: the cache is not consulted.
WriteMissAlways(w, b, p, v) ==
    /\ op[w] = Idle
    /\ b \in Reachable(w)
    /\ op' = [op EXCEPT ![w] = Loading([do |-> "write", part |-> p, value |-> v], b)]
    /\ UNCHANGED <<disk, cache, now, fresh, got>>

WriteMiss(w, b, p, v) ==
    /\ op[w] = Idle
    /\ b \in Reachable(w)
    /\ Miss(cache, b)
    /\ op' = [op EXCEPT ![w] = Loading([do |-> "write", part |-> p, value |-> v], b)]
    /\ UNCHANGED <<disk, cache, now, fresh, got>>

WriteFill(w) ==
    /\ Loaded(w, "write")
    /\ AddBlock(op[w].block,
                [op[w].data EXCEPT ![op[w].kind.part] = op[w].kind.value], TRUE)
    /\ op' = [op EXCEPT ![w] = Idle]
    /\ UNCHANGED <<now, fresh, got>>

-----------------------------------------------------------------------------
(* fs_copy: the target block t is allocated before the source b is looked  *)
(* up, and inserted after it without giving the mutex up.                  *)

CopyHit(w, b, t) ==
    /\ op[w] = Idle
    /\ b \in Reachable(w)
    /\ t \in MayAccess[w] \cap fresh
    /\ fresh' = fresh \ {t}
    /\ \E i, k \in Slots :
          LET touched == [cache EXCEPT ![i].last = now] IN
          /\ HitAt(cache, b, i)
          /\ VictimOf(touched, k)
          /\ disk' = Flushed(disk, touched, k)
          /\ cache' = Filled(touched, k, t, cache[i].data, TRUE)
    /\ UNCHANGED <<now, op, got>>

CopyMiss(w, b, t) ==
    /\ op[w] = Idle
    /\ b \in Reachable(w)
    /\ t \in MayAccess[w] \cap fresh
    /\ Miss(cache, b)
    /\ fresh' = fresh \ {t}
    /\ op' = [op EXCEPT ![w] = Loading([do |-> "copy", target |-> t], b)]
    /\ UNCHANGED <<disk, cache, now, got>>

CopyFill(w) ==
    /\ Loaded(w, "copy")
    /\ \E i, k \in Slots :
          LET c1 == Filled(cache, i, op[w].block, op[w].data, FALSE)
              d1 == Flushed(disk, cache, i) IN
          /\ VictimOf(cache, i)
          /\ VictimOf(c1, k)
          /\ disk' = Flushed(d1, c1, k)
          /\ cache' = Filled(c1, k, op[w].kind.target, op[w].data, TRUE)
    /\ op' = [op EXCEPT ![w] = Idle]
    /\ UNCHANGED <<now, fresh, got>>

Tick ==
    /\ now < MaxTime
    /\ now' = now + 1
    /\ UNCHANGED <<disk, cache, fresh, op, got>>

-----------------------------------------------------------------------------
\* Mutant: the cache is not zeroed.
InitUncleared ==
    /\ disk = [b \in Blocks |-> ZeroData]
    /\ cache = [i \in Slots |-> [block |-> NullBlock, data |-> ZeroData,
                                 dirty |-> TRUE, last |-> 0]]
    /\ now = 1
    /\ fresh = Blocks
    /\ op = [w \in Workers |-> Idle]
    /\ got = [w \in Workers |-> NoData]

\* fs_new: a zeroed disk, and zeroed entries that all name block 0.
Init ==
    /\ disk = [b \in Blocks |-> ZeroData]
    /\ cache = [i \in Slots |-> [block |-> NullBlock, data |-> ZeroData,
                                 dirty |-> FALSE, last |-> 0]]
    /\ now = 1
    /\ fresh = Blocks
    /\ op = [w \in Workers |-> Idle]
    /\ got = [w \in Workers |-> NoData]

WorkerStep(w) ==
    \/ \E b \in Blocks : ReadHit(w, b) \/ ReadMiss(w, b) \/ Allocate(w, b)
    \/ \E b \in Blocks, p \in Parts, v \in Values : WriteHit(w, b, p, v) \/ WriteMiss(w, b, p, v)
    \/ \E b, t \in Blocks : CopyHit(w, b, t) \/ CopyMiss(w, b, t)
    \/ \E p \in Parts : Load(w, p)
    \/ ReadFill(w)
    \/ WriteFill(w)
    \/ CopyFill(w)

Next == Tick \/ \E w \in Workers : WorkerStep(w)

Spec == Init /\ [][Next]_vars

-----------------------------------------------------------------------------
(* Properties *)

Kinds == [do : {"read"}] \cup [do : {"write"}, part : Parts, value : Values]
           \cup [do : {"copy"}, target : Blocks]

Ops == {Idle} \cup [st : {"load"}, kind : Kinds, block : Blocks,
                    todo : SUBSET Parts, data : Data]

\* Every variable keeps its shape; the disk has no contents for block 0.
TypeOK ==
    /\ disk \in [Blocks -> Data]
    /\ cache \in [Slots -> Entry]
    /\ now \in Nat
    /\ fresh \in SUBSET Blocks
    /\ op \in [Workers -> Ops]
    /\ got \in [Workers -> Data \cup {NoData}]

\* No data block is in the cache twice.  find_block_in_cache stops at the
\* first copy, so a second one would be a stale copy that comes back when the
\* first is evicted (fs.c:127-135, 705-724, 833-863).
OneCopy ==
    \A i, j \in Slots : i # j /\ cache[i].block = cache[j].block => cache[i].block = NullBlock

\* An entry that eviction would drop without writing it back has nothing the
\* disk does not have (fs.c:151-154).
CleanIsOnDisk ==
    \A i \in Slots :
        ~cache[i].dirty /\ cache[i].block # NullBlock => disk[cache[i].block] = cache[i].data

\* The entries the zeroed cache starts with are never written back: they name
\* block 0, where the free block bitmap is (fs.c:129, 151-154, 464).
PhantomsStayClean == \A i \in Slots : cache[i].block = NullBlock => ~cache[i].dirty

\* While a worker copies a block from the disk with the mutex released, nobody
\* puts the block into the cache or changes it on the disk: what it inserts
\* afterwards is still current (fs.c:713-724, 840-863, 1237-1245).
FillIsCurrent ==
    \A w \in Workers : op[w].st = "load" =>
        /\ Miss(cache, op[w].block)
        /\ \A p \in Parts \ op[w].todo : op[w].data[p] = disk[op[w].block][p]
        /\ \A t \in Blocks : IsTarget(w, t) => Miss(cache, t)

\* Reads, writes and copies through the cache are those of a store without one
\* (fs.c:691-735, 828-866, 1214-1250).
Store == INSTANCE BlockStore WITH content <- [b \in Blocks |-> Content(cache, disk, b)]
ImplementsStore == Store!Spec
=============================================================================
