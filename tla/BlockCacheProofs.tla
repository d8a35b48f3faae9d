-------------------------- MODULE BlockCacheProofs --------------------------
(***************************************************************************)
(* Theorems about the block cache, for every number of blocks, slots and   *)
(* threads, as long as no two threads serve requests for the same file.    *)
(***************************************************************************)
EXTENDS BlockCache, TLAPS

USE BlockCacheAssumption

\* No two workers serve requests for the same file at the same time.
FilesDisjoint ==
    \A w, u \in Workers : w # u => MayAccess[w] \cap MayAccess[u] = {}

-----------------------------------------------------------------------------
(* One insertion, on a cache c and a disk d.                               *)

\* No block twice, no clean entry that the disk lacks, no dirty phantom.
Coherent(c, d) ==
    /\ \A i, j \in Slots : i # j /\ c[i].block = c[j].block => c[i].block = NullBlock
    /\ \A i \in Slots : ~c[i].dirty /\ c[i].block # NullBlock => d[c[i].block] = c[i].data
    /\ \A i \in Slots : c[i].block = NullBlock => ~c[i].dirty

\* A block that is cached has the contents of its entry.
LEMMA ContentOfHit ==
    ASSUME NEW c \in [Slots -> Entry], NEW d, Coherent(c, d),
           NEW i \in Slots, c[i].block # NullBlock
    PROVE  Content(c, d, c[i].block) = c[i].data
<1> DEFINE b == c[i].block
<1>1. HitAt(c, b, i)
    BY DEF HitAt, Coherent, Slots
<1>2. ASSUME NEW k \in Slots, HitAt(c, b, k)
      PROVE  k = i
    BY <1>2 DEF HitAt, Coherent
<1>3. (CHOOSE k \in Slots : HitAt(c, b, k)) = i
    BY <1>1, <1>2
<1>4. ~Miss(c, b)
    BY DEF Miss
<1>5. QED
    BY <1>3, <1>4 DEF Content

\* Inserting a block that is not cached keeps the cache coherent, gives the
\* block its new contents and leaves those of every other block alone; blocks
\* that are not cached stay so and are not written to the disk.
LEMMA Insertion ==
    ASSUME NEW c \in [Slots -> Entry], NEW d \in [Blocks -> Data], Coherent(c, d),
           NEW i \in Slots, NEW b \in Blocks, Miss(c, b),
           NEW e \in Entry, e.block = b, ~e.dirty => d[b] = e.data,
           NEW c2 \in [Slots -> Entry], c2[i] = e,
           \A j \in Slots \ {i} : c2[j] = c[j],
           NEW d2, d2 = Flushed(d, c, i)
    PROVE  /\ d2 \in [Blocks -> Data]
           /\ Coherent(c2, d2)
           /\ Content(c2, d2, b) = e.data
           /\ \A x \in Blocks \ {b} : Content(c2, d2, x) = Content(c, d, x)
           /\ \A x \in Blocks \ {b} : Miss(c, x) => Miss(c2, x) /\ d2[x] = d[x]
<1>1. c[i].dirty => c[i].block \in Blocks
    BY DEF Coherent, Entry
<1>2. d2 \in [Blocks -> Data]
    BY <1>1 DEF Flushed, Entry
<1>3. /\ \A x \in Blocks : x # c[i].block => d2[x] = d[x]
      /\ c[i].dirty => d2[c[i].block] = c[i].data
      /\ ~c[i].dirty => d2 = d
    BY <1>1 DEF Flushed
<1>4. Coherent(c2, d2)
  <2>1. \A j, k \in Slots : j # k /\ c2[j].block = c2[k].block => c2[j].block = NullBlock
    BY DEF Coherent, Miss
  <2>2. ASSUME NEW j \in Slots, ~c2[j].dirty, c2[j].block # NullBlock
        PROVE  d2[c2[j].block] = c2[j].data
    <3>1. CASE j = i
      BY <1>3, <2>2, <3>1 DEF Miss
    <3>2. CASE j # i
      <4>1. /\ c2[j] = c[j]
            /\ c[j].block # c[i].block
            /\ c[j].block \in Blocks
        BY <2>2, <3>2 DEF Coherent, Entry
      <4>2. QED
        BY <1>3, <2>2, <4>1 DEF Coherent
    <3>3. QED
      BY <3>1, <3>2
  <2>3. \A j \in Slots : c2[j].block = NullBlock => ~c2[j].dirty
    BY DEF Coherent
  <2>4. QED
    BY <2>1, <2>2, <2>3 DEF Coherent
<1>5. Content(c2, d2, b) = e.data
  <2>1. c2[i].block = b /\ c2[i].data = e.data /\ b # NullBlock
    OBVIOUS
  <2>2. QED
    BY <1>4, <2>1, ContentOfHit
<1>6. ASSUME NEW x \in Blocks \ {b}
      PROVE  Content(c2, d2, x) = Content(c, d, x)
  <2>1. CASE \E j \in Slots \ {i} : c[j].block = x
    <3>1. PICK j \in Slots \ {i} : c[j].block = x
      BY <2>1
    <3>2. c2[j] = c[j] /\ x # NullBlock
      BY <3>1
    <3>3. Content(c, d, x) = c[j].data
      BY <3>1, <3>2, ContentOfHit
    <3>4. Content(c2, d2, x) = c2[j].data
      BY <1>4, <3>1, <3>2, ContentOfHit
    <3>5. QED
      BY <3>2, <3>3, <3>4
  <2>2. CASE c[i].block = x
    <3>1. Content(c, d, x) = c[i].data
      BY <2>2, ContentOfHit
    <3>2. Miss(c2, x)
      BY <2>2 DEF Coherent, Miss
    <3>3. d2[x] = c[i].data
      BY <1>3, <2>2 DEF Coherent, Entry
    <3>4. QED
      BY <3>1, <3>2, <3>3 DEF Content
  <2>3. CASE Miss(c, x)
    <3>1. Miss(c2, x) /\ d2[x] = d[x]
      BY <1>3, <2>3 DEF Miss
    <3>2. QED
      BY <2>3, <3>1 DEF Content
  <2>4. QED
    BY <2>1, <2>2, <2>3 DEF Miss
<1>7. \A x \in Blocks \ {b} : Miss(c, x) => Miss(c2, x) /\ d2[x] = d[x]
    BY <1>3 DEF Miss
<1>8. QED
    BY <1>2, <1>4, <1>5, <1>6, <1>7

\* Changing an entry in place, and marking it dirty if its data changes, does
\* the same for the block it names.
LEMMA Update ==
    ASSUME NEW c \in [Slots -> Entry], NEW d \in [Blocks -> Data], Coherent(c, d),
           NEW i \in Slots, c[i].block # NullBlock,
           NEW e \in Entry, e.block = c[i].block,
           e.dirty \/ (e.data = c[i].data /\ e.dirty = c[i].dirty),
           NEW c2 \in [Slots -> Entry], c2[i] = e,
           \A j \in Slots \ {i} : c2[j] = c[j]
    PROVE  /\ Coherent(c2, d)
           /\ Content(c2, d, c[i].block) = e.data
           /\ \A x \in Blocks \ {c[i].block} : Content(c2, d, x) = Content(c, d, x)
           /\ \A x \in Blocks : Miss(c, x) => Miss(c2, x)
<1>1. Coherent(c2, d)
    BY DEF Coherent
<1>2. Content(c2, d, c[i].block) = e.data
    BY <1>1, ContentOfHit
<1>3. ASSUME NEW x \in Blocks \ {c[i].block}
      PROVE  Content(c2, d, x) = Content(c, d, x)
  <2>1. CASE \E j \in Slots \ {i} : c[j].block = x
    <3>1. PICK j \in Slots \ {i} : c[j].block = x
      BY <2>1
    <3>2. Content(c, d, x) = c[j].data
      BY <3>1, ContentOfHit
    <3>3. Content(c2, d, x) = c2[j].data
      BY <1>1, <3>1, ContentOfHit
    <3>4. QED
      BY <3>1, <3>2, <3>3
  <2>2. CASE Miss(c, x)
    BY <2>2 DEF Miss, Content
  <2>3. QED
    BY <2>1, <2>2 DEF Miss
<1>4. \A x \in Blocks : Miss(c, x) => Miss(c2, x)
    BY DEF Miss
<1>5. QED
    BY <1>1, <1>2, <1>3, <1>4

-----------------------------------------------------------------------------
(* The inductive invariant *)

\* A block that was never allocated is neither cached nor written.
FreshInv == \A b \in fresh : Miss(cache, b) /\ disk[b] = ZeroData

\* What worker w has in flight: a block of one of its own files, not cached,
\* copied so far as the disk has it; and for a copy a target that nobody has
\* put into the cache either.
FlightInv(w) ==
    op[w].st = "load" =>
        /\ op[w].block \in MayAccess[w] \ fresh
        /\ Miss(cache, op[w].block)
        /\ \A p \in Parts \ op[w].todo : op[w].data[p] = disk[op[w].block][p]
        /\ \A t \in Blocks :
              IsTarget(w, t) => /\ t \in MayAccess[w] \ fresh
                                /\ t # op[w].block
                                /\ Miss(cache, t)

IInv ==
    /\ TypeOK
    /\ Coherent(cache, disk)
    /\ FreshInv
    /\ \A w \in Workers : FlightInv(w)

\* A worker in flight has a record of what it loads.
LEMMA InFlight ==
    ASSUME TypeOK, NEW w \in Workers, op[w].st = "load"
    PROVE  /\ op[w].kind \in Kinds
           /\ op[w].block \in Blocks
           /\ op[w].todo \in SUBSET Parts
           /\ op[w].data \in Data
BY DEF TypeOK, Ops, Idle

\* The initial state satisfies the invariant.
LEMMA InitInv == Init => IInv
<1> SUFFICES ASSUME Init PROVE IInv
    OBVIOUS
<1> USE DEF Init
<1>1. ZeroData \in Data
    BY DEF ZeroData, Data
<1>2. TypeOK
    BY <1>1 DEF TypeOK, Entry, Ops
<1>3. Coherent(cache, disk)
    BY DEF Coherent
<1>4. FreshInv
    BY DEF FreshInv, Miss
<1>5. \A w \in Workers : FlightInv(w)
    BY DEF FlightInv, Idle
<1>6. QED
    BY <1>2, <1>3, <1>4, <1>5 DEF IInv

-----------------------------------------------------------------------------
(* Steps *)

\* Outside the blocks S a step caches nothing new and writes nothing that was
\* not cached to the disk.
Frame(S) ==
    \A x \in Blocks \ S : Miss(cache, x) => Miss(cache, x)' /\ disk'[x] = disk[x]

\* A step of worker w on blocks of its own files leaves what the other workers
\* have in flight alone.
LEMMA OthersKeep ==
    ASSUME FilesDisjoint, IInv, NEW w \in Workers, NEW S \in SUBSET MayAccess[w],
           Frame(S), fresh' \subseteq fresh,
           \A u \in Workers \ {w} : op'[u] = op[u]
    PROVE  \A u \in Workers \ {w} : FlightInv(u)'
<1> SUFFICES ASSUME NEW u \in Workers \ {w}, op[u].st = "load"
             PROVE  FlightInv(u)'
    BY DEF FlightInv
<1>1. FlightInv(u) /\ MayAccess[u] \cap S = {} /\ MayAccess[u] \subseteq Blocks
    BY DEF IInv, FilesDisjoint
<1>2. /\ Miss(cache, op[u].block)'
      /\ disk'[op[u].block] = disk[op[u].block]
    BY <1>1 DEF FlightInv, Frame
<1>3. ASSUME NEW t \in Blocks, IsTarget(u, t)'
      PROVE  /\ t \in MayAccess[u] \ fresh'
             /\ t # op'[u].block
             /\ Miss(cache, t)'
    BY <1>1, <1>3 DEF FlightInv, Frame, IsTarget
<1>4. QED
    BY <1>1, <1>2, <1>3 DEF FlightInv

\* Blocks that stay free stay untouched.
LEMMA FreshKeep ==
    ASSUME IInv, NEW S, Frame(S), fresh' \subseteq fresh \ S
    PROVE  FreshInv'
BY DEF IInv, TypeOK, FreshInv, Frame

\* The contents of all blocks, as the store that is implemented has them.
Contents == [b \in Blocks |-> Content(cache, disk, b)]

\* A step gives block b the contents data and changes no other block's.
Puts(b, data) ==
    /\ Content(cache', disk', b) = data
    /\ \A x \in Blocks \ {b} : Content(cache', disk', x) = Content(cache, disk, x)

\* add_block_to_cache changes the contents of the block it inserts, and nothing
\* else that the file system sees.
LEMMA AddBlockStep ==
    ASSUME IInv, NEW b \in Blocks, Miss(cache, b), NEW data \in Data,
           NEW dirty \in BOOLEAN, ~dirty => disk[b] = data,
           AddBlock(b, data, dirty)
    PROVE  /\ cache' \in [Slots -> Entry]
           /\ disk' \in [Blocks -> Data]
           /\ Coherent(cache, disk)'
           /\ Frame({b})
           /\ Puts(b, data)
<1>1. PICK i \in Slots : /\ disk' = Flushed(disk, cache, i)
                         /\ cache' = Filled(cache, i, b, data, dirty)
    BY DEF AddBlock
<1>2. /\ cache \in [Slots -> Entry]
      /\ disk \in [Blocks -> Data]
      /\ Coherent(cache, disk)
      /\ now \in Nat
    BY DEF IInv, TypeOK
<1> DEFINE e == [block |-> b, data |-> data, dirty |-> dirty, last |-> now]
<1>3. /\ e \in Entry
      /\ e.block = b
      /\ e.data = data
      /\ e.dirty = dirty
    BY <1>2 DEF Entry
<1>4. /\ cache' \in [Slots -> Entry]
      /\ cache'[i] = e
      /\ \A j \in Slots \ {i} : cache'[j] = cache[j]
    BY <1>1, <1>2 DEF Filled, Entry
<1> HIDE DEF e
<1>5. /\ disk' \in [Blocks -> Data]
      /\ Coherent(cache', disk')
      /\ Content(cache', disk', b) = e.data
      /\ \A x \in Blocks \ {b} : Content(cache', disk', x) = Content(cache, disk, x)
      /\ \A x \in Blocks \ {b} : Miss(cache, x) => Miss(cache', x) /\ disk'[x] = disk[x]
    BY <1>1, <1>2, <1>3, <1>4, Insertion
<1>6. QED
    BY <1>3, <1>4, <1>5 DEF Frame, Puts

\* A hit that changes nothing but the entry of block b.
LEMMA HitStep ==
    ASSUME IInv, NEW b \in Blocks, NEW i \in Slots, HitAt(cache, b, i),
           NEW e \in Entry, e.block = b,
           e.dirty \/ (e.data = cache[i].data /\ e.dirty = cache[i].dirty),
           cache' \in [Slots -> Entry], cache'[i] = e,
           \A j \in Slots \ {i} : cache'[j] = cache[j], disk' = disk
    PROVE  /\ Coherent(cache, disk)'
           /\ Frame({})
           /\ Content(cache, disk, b) = cache[i].data
           /\ Puts(b, e.data)
<1>1. /\ cache \in [Slots -> Entry]
      /\ disk \in [Blocks -> Data]
      /\ Coherent(cache, disk)
      /\ cache[i].block = b
      /\ b # NullBlock
    BY DEF IInv, TypeOK, HitAt
<1>2. /\ Coherent(cache', disk)
      /\ Content(cache', disk, b) = e.data
      /\ \A x \in Blocks \ {b} : Content(cache', disk, x) = Content(cache, disk, x)
      /\ \A x \in Blocks : Miss(cache, x) => Miss(cache', x)
    BY <1>1, Update
<1>3. Content(cache, disk, b) = cache[i].data
    BY <1>1, ContentOfHit
<1>4. QED
    BY <1>2, <1>3 DEF Frame, Puts

\* What is left to show of a step of worker w on blocks S of its files.
LEMMA WorkerInv ==
    ASSUME FilesDisjoint, IInv, NEW w \in Workers, NEW S \in SUBSET MayAccess[w],
           TypeOK', Coherent(cache, disk)', Frame(S), fresh' \subseteq fresh \ S,
           \A u \in Workers \ {w} : op'[u] = op[u], FlightInv(w)'
    PROVE  IInv'
<1>1. FreshInv'
    BY FreshKeep
<1>2. \A u \in Workers \ {w} : FlightInv(u)'
    BY OthersKeep
<1>3. QED
    BY <1>1, <1>2 DEF IInv

\* A step of the store, or none.
StoreStep == [Store!Next]_<<Contents, got>>

\* fs_read that hits reads the contents of the block.
LEMMA ReadHitStep ==
    ASSUME FilesDisjoint, IInv, NEW w \in Workers, NEW b \in Blocks, ReadHit(w, b)
    PROVE  IInv' /\ StoreStep
<1>1. PICK i \in Slots : /\ HitAt(cache, b, i)
                         /\ got' = [got EXCEPT ![w] = cache[i].data]
                         /\ cache' = [cache EXCEPT ![i].last = now]
    BY DEF ReadHit
<1> DEFINE e == [cache[i] EXCEPT !.last = now]
<1>2. /\ cache \in [Slots -> Entry]
      /\ cache[i] \in Entry
      /\ cache[i].block = b
      /\ now \in Nat
    BY <1>1 DEF IInv, TypeOK, HitAt
<1>3. /\ e \in Entry
      /\ e.block = b
      /\ e.data = cache[i].data
      /\ e.dirty = cache[i].dirty
    BY <1>2 DEF Entry
<1>4. /\ cache' \in [Slots -> Entry]
      /\ cache'[i] = e
      /\ \A j \in Slots \ {i} : cache'[j] = cache[j]
    BY <1>1, <1>2, <1>3
<1> HIDE DEF e
<1>5. disk' = disk /\ fresh' = fresh /\ op' = op /\ now' = now
    BY DEF ReadHit
<1>6. /\ Coherent(cache, disk)'
      /\ Frame({})
      /\ Content(cache, disk, b) = cache[i].data
      /\ Puts(b, e.data)
    BY <1>1, <1>3, <1>4, <1>5, HitStep
<1>7. TypeOK'
    BY <1>1, <1>2, <1>4, <1>5 DEF IInv, TypeOK, Entry
<1>8. FlightInv(w)'
    BY <1>5 DEF ReadHit, FlightInv, Idle
<1>9. IInv'
    BY <1>5, <1>6, <1>7, <1>8, WorkerInv
<1>10. Contents' = Contents /\ Contents[b] = cache[i].data
    BY <1>3, <1>6 DEF Contents, Puts
<1>11. Store!Read(w, b)
    BY <1>1, <1>10 DEF Store!Read, Contents
<1>12. QED
    BY <1>9, <1>11 DEF StoreStep, Store!Next

\* A miss of fs_read only remembers the block.
LEMMA ReadMissStep ==
    ASSUME FilesDisjoint, IInv, NEW w \in Workers, NEW b \in Blocks, ReadMiss(w, b)
    PROVE  IInv' /\ StoreStep
<1>1. UNCHANGED <<disk, cache, now, fresh, got>>
    BY DEF ReadMiss
<1>2. op' = [op EXCEPT ![w] = Loading([do |-> "read"], b)]
    BY DEF ReadMiss
<1>3. Loading([do |-> "read"], b) \in Ops
    BY DEF Loading, Ops, Kinds, ZeroData, Data
<1>4. TypeOK'
    BY <1>1, <1>2, <1>3 DEF IInv, TypeOK
<1>5. FlightInv(w)'
    BY <1>1, <1>2 DEF ReadMiss, FlightInv, Loading, IsTarget, Reachable, IInv, TypeOK
<1>6. Frame({}) /\ Coherent(cache, disk)'
    BY <1>1 DEF Frame, IInv
<1>7. IInv'
    BY <1>1, <1>2, <1>4, <1>5, <1>6, WorkerInv DEF IInv, TypeOK
<1>8. QED
    BY <1>1, <1>7 DEF StoreStep, Contents

\* Copying a part from the disk changes only what the worker has in flight.
LEMMA LoadStep ==
    ASSUME FilesDisjoint, IInv, NEW w \in Workers, NEW p \in Parts, Load(w, p)
    PROVE  IInv' /\ StoreStep
<1> DEFINE o == [op[w] EXCEPT !.todo = op[w].todo \ {p},
                              !.data = [op[w].data EXCEPT ![p] = disk[op[w].block][p]]]
<1>1. UNCHANGED <<disk, cache, now, fresh, got>>
    BY DEF Load
<1>2. op' = [op EXCEPT ![w] = o]
    BY DEF Load
<1>3. /\ op[w] \in [st : {"load"}, kind : Kinds, block : Blocks,
                    todo : SUBSET Parts, data : Data]
      /\ disk \in [Blocks -> Data]
    BY DEF Load, IInv, TypeOK, Ops, Idle
<1>4. disk[op[w].block][p] \in Values
    BY <1>3 DEF Data
<1>5. /\ o \in Ops
      /\ o.st = "load"
      /\ o.kind = op[w].kind
      /\ o.block = op[w].block
      /\ o.todo = op[w].todo \ {p}
      /\ o.data = [op[w].data EXCEPT ![p] = disk[op[w].block][p]]
    BY <1>3, <1>4 DEF Ops, Data
<1> HIDE DEF o
<1>6. TypeOK'
    BY <1>1, <1>2, <1>5 DEF IInv, TypeOK
<1>7. op'[w] = o
    BY <1>2 DEF IInv, TypeOK
<1>8. FlightInv(w)'
  <2>1. FlightInv(w)
    BY DEF IInv
  <2>2. \A q \in Parts \ o.todo : o.data[q] = disk[op[w].block][q]
    BY <1>3, <1>5, <2>1 DEF FlightInv, Data
  <2>3. QED
    BY <1>1, <1>3, <1>5, <1>7, <2>1, <2>2 DEF FlightInv, IsTarget
<1>9. Frame({}) /\ Coherent(cache, disk)'
    BY <1>1 DEF Frame, IInv
<1>10. IInv'
    BY <1>1, <1>2, <1>6, <1>8, <1>9, WorkerInv DEF IInv, TypeOK
<1>11. QED
    BY <1>1, <1>10 DEF StoreStep, Contents

\* What a worker has copied completely is what the disk has.
LEMMA LoadedIsCurrent ==
    ASSUME IInv, NEW w \in Workers, op[w].st = "load", op[w].todo = {}
    PROVE  /\ op[w].block \in MayAccess[w] \ fresh
           /\ op[w].block \in Blocks
           /\ Miss(cache, op[w].block)
           /\ op[w].data \in Data
           /\ op[w].data = disk[op[w].block]
           /\ Content(cache, disk, op[w].block) = op[w].data
<1>1. /\ op[w].block \in MayAccess[w] \ fresh
      /\ Miss(cache, op[w].block)
      /\ \A p \in Parts : op[w].data[p] = disk[op[w].block][p]
    BY DEF IInv, FlightInv
<1>2. /\ op[w].block \in Blocks
      /\ op[w].data \in Data
      /\ disk[op[w].block] \in Data
    BY InFlight DEF IInv, TypeOK
<1>3. op[w].data = disk[op[w].block]
    BY <1>1, <1>2 DEF Data
<1>4. QED
    BY <1>1, <1>2, <1>3 DEF Content

\* A worker that is done has nothing in flight.
LEMMA DoneInv ==
    ASSUME IInv, NEW w \in Workers, op' = [op EXCEPT ![w] = Idle]
    PROVE  /\ op' \in [Workers -> Ops]
           /\ FlightInv(w)'
           /\ \A u \in Workers \ {w} : op'[u] = op[u]
<1>1. Idle \in Ops /\ Idle.st # "load"
    BY DEF Ops, Idle
<1>2. QED
    BY <1>1 DEF IInv, TypeOK, FlightInv

\* fs_read after a miss reads the contents of the block.
LEMMA ReadFillStep ==
    ASSUME FilesDisjoint, IInv, NEW w \in Workers, ReadFill(w)
    PROVE  IInv' /\ StoreStep
<1> DEFINE b == op[w].block
<1>1. /\ op[w].st = "load"
      /\ op[w].todo = {}
      /\ AddBlock(b, op[w].data, FALSE)
      /\ got' = [got EXCEPT ![w] = op[w].data]
      /\ op' = [op EXCEPT ![w] = Idle]
      /\ UNCHANGED <<now, fresh>>
    BY DEF ReadFill, Loaded
<1>2. /\ b \in MayAccess[w] \ fresh
      /\ b \in Blocks
      /\ Miss(cache, b)
      /\ op[w].data \in Data
      /\ op[w].data = disk[b]
      /\ Content(cache, disk, b) = op[w].data
    BY <1>1, LoadedIsCurrent
<1> HIDE DEF b
<1>3. /\ cache' \in [Slots -> Entry]
      /\ disk' \in [Blocks -> Data]
      /\ Coherent(cache, disk)'
      /\ Frame({b})
      /\ Puts(b, op[w].data)
    BY <1>1, <1>2, AddBlockStep
<1>4. /\ op' \in [Workers -> Ops]
      /\ FlightInv(w)'
      /\ \A u \in Workers \ {w} : op'[u] = op[u]
    BY <1>1, DoneInv
<1>5. TypeOK'
    BY <1>1, <1>2, <1>3, <1>4 DEF IInv, TypeOK
<1>6. IInv'
    BY <1>1, <1>2, <1>3, <1>4, <1>5, WorkerInv
<1>7. Contents' = Contents /\ Contents[b] = op[w].data
    BY <1>2, <1>3 DEF Contents, Puts
<1>8. Store!Read(w, b)
    BY <1>1, <1>7 DEF Store!Read, Contents
<1>9. QED
    BY <1>2, <1>6, <1>8 DEF StoreStep, Store!Next

\* A block that is allocated was zero before, and is zero in the cache.
LEMMA AllocateStep ==
    ASSUME FilesDisjoint, IInv, NEW w \in Workers, NEW b \in Blocks, Allocate(w, b)
    PROVE  IInv' /\ StoreStep
<1>1. /\ op[w] = Idle
      /\ b \in MayAccess[w]
      /\ b \in fresh
      /\ fresh' = fresh \ {b}
      /\ AddBlock(b, ZeroData, TRUE)
      /\ UNCHANGED <<now, op, got>>
    BY DEF Allocate
<1>2. Miss(cache, b) /\ Content(cache, disk, b) = ZeroData
    BY <1>1 DEF IInv, FreshInv, Content
<1>3. ZeroData \in Data
    BY DEF ZeroData, Data
<1>4. /\ cache' \in [Slots -> Entry]
      /\ disk' \in [Blocks -> Data]
      /\ Coherent(cache, disk)'
      /\ Frame({b})
      /\ Puts(b, ZeroData)
    BY <1>1, <1>2, <1>3, AddBlockStep
<1>5. TypeOK'
    BY <1>1, <1>4 DEF IInv, TypeOK
<1>6. FlightInv(w)'
    BY <1>1 DEF FlightInv, Idle
<1>7. IInv'
    BY <1>1, <1>4, <1>5, <1>6, WorkerInv
<1>8. Contents' = Contents
    BY <1>2, <1>4 DEF Contents, Puts
<1>9. QED
    BY <1>1, <1>7, <1>8 DEF StoreStep

\* fs_write that hits replaces a part of the block.
LEMMA WriteHitStep ==
    ASSUME FilesDisjoint, IInv, NEW w \in Workers, NEW b \in Blocks, NEW p \in Parts,
           NEW v \in Values, WriteHit(w, b, p, v)
    PROVE  IInv' /\ StoreStep
<1>1. PICK i \in Slots :
        /\ HitAt(cache, b, i)
        /\ cache' = [cache EXCEPT ![i] =
                        [block |-> b, data |-> [cache[i].data EXCEPT ![p] = v],
                         dirty |-> TRUE, last |-> now]]
    BY DEF WriteHit
<1> DEFINE e == [block |-> b, data |-> [cache[i].data EXCEPT ![p] = v],
                 dirty |-> TRUE, last |-> now]
<1>2. /\ cache \in [Slots -> Entry]
      /\ cache[i] \in Entry
      /\ cache[i].block = b
      /\ now \in Nat
    BY <1>1 DEF IInv, TypeOK, HitAt
<1>3. /\ e \in Entry
      /\ e.block = b
      /\ e.data = [cache[i].data EXCEPT ![p] = v]
      /\ e.dirty
    BY <1>2 DEF Entry, Data
<1>4. /\ cache' \in [Slots -> Entry]
      /\ cache'[i] = e
      /\ \A j \in Slots \ {i} : cache'[j] = cache[j]
  <2>1. cache' = [cache EXCEPT ![i] = e]
    BY <1>1
  <2> HIDE DEF e
  <2>2. QED
    BY <1>2, <1>3, <2>1
<1> HIDE DEF e
<1>5. /\ op[w] = Idle
      /\ UNCHANGED <<disk, now, fresh, op, got>>
    BY DEF WriteHit
<1>6. /\ Coherent(cache, disk)'
      /\ Frame({})
      /\ Content(cache, disk, b) = cache[i].data
      /\ Puts(b, e.data)
    BY ZenonT(60), <1>1, <1>3, <1>4, <1>5, HitStep
<1>7. TypeOK'
    BY <1>4, <1>5 DEF IInv, TypeOK
<1>8. FlightInv(w)'
    BY <1>5 DEF FlightInv, Idle
<1>9. IInv'
    BY <1>5, <1>6, <1>7, <1>8, WorkerInv
<1>10. Contents' = [Contents EXCEPT ![b] = [@ EXCEPT ![p] = v]]
    BY <1>3, <1>6 DEF Contents, Puts
<1>11. Store!Write(b, p, v)
    BY <1>5, <1>10 DEF Store!Write, Contents
<1>12. QED
    BY <1>9, <1>11 DEF StoreStep, Store!Next

\* A miss of fs_write only remembers the block and what to write.
LEMMA WriteMissStep ==
    ASSUME FilesDisjoint, IInv, NEW w \in Workers, NEW b \in Blocks, NEW p \in Parts,
           NEW v \in Values, WriteMiss(w, b, p, v)
    PROVE  IInv' /\ StoreStep
<1> DEFINE k == [do |-> "write", part |-> p, value |-> v]
<1>1. UNCHANGED <<disk, cache, now, fresh, got>>
    BY DEF WriteMiss
<1>2. op' = [op EXCEPT ![w] = Loading(k, b)]
    BY DEF WriteMiss
<1>3. Loading(k, b) \in Ops
    BY DEF Loading, Ops, Kinds, ZeroData, Data
<1>4. TypeOK'
    BY <1>1, <1>2, <1>3 DEF IInv, TypeOK
<1>5. FlightInv(w)'
    BY <1>1, <1>2 DEF WriteMiss, FlightInv, Loading, IsTarget, Reachable, IInv, TypeOK
<1>6. Frame({}) /\ Coherent(cache, disk)'
    BY <1>1 DEF Frame, IInv
<1>7. IInv'
    BY <1>1, <1>2, <1>4, <1>5, <1>6, WorkerInv DEF IInv, TypeOK
<1>8. QED
    BY <1>1, <1>7 DEF StoreStep, Contents

\* fs_write after a miss replaces a part of the block.
LEMMA WriteFillStep ==
    ASSUME FilesDisjoint, IInv, NEW w \in Workers, WriteFill(w)
    PROVE  IInv' /\ StoreStep
<1> DEFINE b == op[w].block
           p == op[w].kind.part
           v == op[w].kind.value
           data == [op[w].data EXCEPT ![p] = v]
<1>1. /\ op[w].st = "load"
      /\ op[w].todo = {}
      /\ op[w].kind.do = "write"
      /\ AddBlock(b, data, TRUE)
      /\ op' = [op EXCEPT ![w] = Idle]
      /\ UNCHANGED <<now, fresh, got>>
    BY DEF WriteFill, Loaded
<1>2. /\ b \in MayAccess[w] \ fresh
      /\ b \in Blocks
      /\ Miss(cache, b)
      /\ op[w].data \in Data
      /\ Content(cache, disk, b) = op[w].data
    BY <1>1, LoadedIsCurrent
<1>3. p \in Parts /\ v \in Values
    BY <1>1, InFlight DEF IInv, Kinds
<1>4. data \in Data
    BY <1>2, <1>3 DEF Data
<1> HIDE DEF b, p, v
<1>5. /\ cache' \in [Slots -> Entry]
      /\ disk' \in [Blocks -> Data]
      /\ Coherent(cache, disk)'
      /\ Frame({b})
      /\ Puts(b, data)
  <2> HIDE DEF data
  <2>1. QED
    BY <1>1, <1>2, <1>4, AddBlockStep
<1>6. /\ op' \in [Workers -> Ops]
      /\ FlightInv(w)'
      /\ \A u \in Workers \ {w} : op'[u] = op[u]
    BY <1>1, DoneInv
<1>7. TypeOK'
    BY <1>1, <1>5, <1>6 DEF IInv, TypeOK
<1>8. IInv'
    BY <1>1, <1>2, <1>5, <1>6, <1>7, WorkerInv
<1>9. Contents' = [Contents EXCEPT ![b] = [@ EXCEPT ![p] = v]]
    BY <1>2, <1>5 DEF Contents, Puts
<1>10. Store!Write(b, p, v)
    BY <1>1, <1>9 DEF Store!Write, Contents
<1>11. QED
    BY <1>2, <1>3, <1>8, <1>10 DEF StoreStep, Store!Next

\* fs_copy whose source hits puts the contents of the source into the target.
LEMMA CopyHitStep ==
    ASSUME FilesDisjoint, IInv, NEW w \in Workers, NEW b \in Blocks, NEW t \in Blocks,
           CopyHit(w, b, t)
    PROVE  IInv' /\ StoreStep
<1>1. PICK i \in Slots, k \in Slots :
        LET touched == [cache EXCEPT ![i].last = now] IN
        /\ HitAt(cache, b, i)
        /\ disk' = Flushed(disk, touched, k)
        /\ cache' = Filled(touched, k, t, cache[i].data, TRUE)
    BY DEF CopyHit
<1>2. PICK touched :
        /\ touched = [cache EXCEPT ![i].last = now]
        /\ HitAt(cache, b, i)
        /\ disk' = Flushed(disk, touched, k)
        /\ cache' = Filled(touched, k, t, cache[i].data, TRUE)
    BY <1>1
<1>3. /\ op[w] = Idle
      /\ t \in MayAccess[w]
      /\ t \in fresh
      /\ b \notin fresh
      /\ fresh' = fresh \ {t}
      /\ UNCHANGED <<now, op, got>>
    BY DEF CopyHit, Reachable
<1> DEFINE e == [cache[i] EXCEPT !.last = now]
<1>4. /\ cache \in [Slots -> Entry]
      /\ disk \in [Blocks -> Data]
      /\ Coherent(cache, disk)
      /\ cache[i] \in Entry
      /\ cache[i].block = b
      /\ now \in Nat
      /\ Miss(cache, t)
    BY <1>2, <1>3 DEF IInv, TypeOK, HitAt, FreshInv
<1>5. /\ e \in Entry
      /\ e.block = b
      /\ e.data = cache[i].data
      /\ e.dirty = cache[i].dirty
    BY <1>4 DEF Entry
<1>6. /\ touched \in [Slots -> Entry]
      /\ touched[i] = e
      /\ \A j \in Slots \ {i} : touched[j] = cache[j]
    BY <1>2, <1>4, <1>5
<1> HIDE DEF e
<1>7. /\ Coherent(touched, disk)
      /\ \A x \in Blocks : Content(touched, disk, x) = Content(cache, disk, x)
      /\ \A x \in Blocks : Miss(cache, x) => Miss(touched, x)
      /\ Content(cache, disk, b) = cache[i].data
  <2>1. /\ Coherent(touched, disk)
        /\ Content(touched, disk, b) = e.data
        /\ \A x \in Blocks \ {b} : Content(touched, disk, x) = Content(cache, disk, x)
        /\ \A x \in Blocks : Miss(cache, x) => Miss(touched, x)
    BY <1>4, <1>5, <1>6, Update
  <2>2. Content(cache, disk, b) = cache[i].data
    BY <1>4, ContentOfHit
  <2>3. QED
    BY <1>5, <2>1, <2>2
<1>8. cache[i].data \in Data
    BY <1>4 DEF Entry
<1> DEFINE n == [block |-> t, data |-> cache[i].data, dirty |-> TRUE, last |-> now]
<1>9. /\ cache' \in [Slots -> Entry]
      /\ disk' \in [Blocks -> Data]
      /\ Coherent(cache', disk')
      /\ Content(cache', disk', t) = cache[i].data
      /\ \A x \in Blocks \ {t} : Content(cache', disk', x) = Content(touched, disk, x)
      /\ \A x \in Blocks \ {t} : Miss(touched, x) => Miss(cache', x) /\ disk'[x] = disk[x]
  <2>1. /\ n \in Entry
        /\ n.block = t
        /\ n.data = cache[i].data
        /\ n.dirty
    BY <1>4, <1>8 DEF Entry
  <2>2. /\ cache' \in [Slots -> Entry]
        /\ cache'[k] = n
        /\ \A j \in Slots \ {k} : cache'[j] = touched[j]
    BY <1>2, <1>4, <1>6, <1>8 DEF Filled, Entry
  <2> HIDE DEF n
  <2>3. Miss(touched, t)
    BY <1>4, <1>7
  <2>4. disk' = Flushed(disk, touched, k)
    BY <1>2
  <2>5. QED
    BY <1>4, <1>6, <1>7, <2>1, <2>2, <2>3, <2>4, Insertion
<1>10. Frame({t}) /\ Coherent(cache, disk)'
    BY <1>7, <1>9 DEF Frame
<1>11. TypeOK'
    BY <1>3, <1>9 DEF IInv, TypeOK
<1>12. FlightInv(w)'
    BY <1>3 DEF FlightInv, Idle
<1>13. IInv'
    BY <1>3, <1>10, <1>11, <1>12, WorkerInv
<1>14. Contents' = [Contents EXCEPT ![t] = Contents[b]]
    BY <1>7, <1>9 DEF Contents
<1>15. Store!Copy(b, t)
    BY <1>3, <1>14 DEF Store!Copy, Contents
<1>16. QED
    BY <1>13, <1>15 DEF StoreStep, Store!Next

\* fs_copy whose source misses only takes the target from the free blocks.
LEMMA CopyMissStep ==
    ASSUME FilesDisjoint, IInv, NEW w \in Workers, NEW b \in Blocks, NEW t \in Blocks,
           CopyMiss(w, b, t)
    PROVE  IInv' /\ StoreStep
<1> DEFINE k == [do |-> "copy", target |-> t]
<1>1. UNCHANGED <<disk, cache, now, got>> /\ fresh' = fresh \ {t}
    BY DEF CopyMiss
<1>2. op' = [op EXCEPT ![w] = Loading(k, b)]
    BY DEF CopyMiss
<1>3. Loading(k, b) \in Ops
    BY DEF Loading, Ops, Kinds, ZeroData, Data
<1>4. TypeOK'
    BY <1>1, <1>2, <1>3 DEF IInv, TypeOK
<1>5. FlightInv(w)'
  <2>1. op'[w] = Loading(k, b)
    BY <1>2 DEF IInv, TypeOK
  <2>2. /\ op'[w].block = b
        /\ op'[w].todo = Parts
        /\ \A x \in Blocks : IsTarget(w, x)' => x = t
    BY <2>1 DEF Loading, IsTarget
  <2>3. /\ b \in MayAccess[w] \ fresh
        /\ Miss(cache, b)
        /\ t \in MayAccess[w] \cap fresh
        /\ Miss(cache, t)
    BY DEF CopyMiss, Reachable, IInv, FreshInv
  <2>4. QED
    BY <1>1, <2>2, <2>3 DEF FlightInv
<1>6. Frame({t}) /\ Coherent(cache, disk)'
    BY <1>1 DEF Frame, IInv
<1>7. /\ t \in MayAccess[w]
      /\ \A u \in Workers \ {w} : op'[u] = op[u]
    BY <1>2 DEF CopyMiss, IInv, TypeOK
<1>8. IInv'
    BY <1>1, <1>4, <1>5, <1>6, <1>7, WorkerInv
<1>9. QED
    BY <1>1, <1>8 DEF StoreStep, Contents

\* fs_copy after a miss inserts source and target, and only the target changes.
LEMMA CopyFillStep ==
    ASSUME FilesDisjoint, IInv, NEW w \in Workers, CopyFill(w)
    PROVE  IInv' /\ StoreStep
<1>1. /\ op[w].st = "load"
      /\ op[w].todo = {}
      /\ op[w].kind.do = "copy"
      /\ op' = [op EXCEPT ![w] = Idle]
      /\ UNCHANGED <<now, fresh, got>>
    BY DEF CopyFill, Loaded
<1>2. PICK b \in Blocks, t \in Blocks, data \in Data :
        b = op[w].block /\ t = op[w].kind.target /\ data = op[w].data
    BY <1>1, InFlight DEF IInv, Kinds
<1>3. PICK i \in Slots, k \in Slots :
        LET c1 == Filled(cache, i, b, data, FALSE)
            d1 == Flushed(disk, cache, i) IN
        /\ disk' = Flushed(d1, c1, k)
        /\ cache' = Filled(c1, k, t, data, TRUE)
    BY <1>2 DEF CopyFill
<1>4. PICK c1, d1 :
        /\ c1 = Filled(cache, i, b, data, FALSE)
        /\ d1 = Flushed(disk, cache, i)
        /\ disk' = Flushed(d1, c1, k)
        /\ cache' = Filled(c1, k, t, data, TRUE)
    BY <1>3
<1>5. /\ b \in MayAccess[w] \ fresh
      /\ Miss(cache, b)
      /\ data = disk[b]
      /\ Content(cache, disk, b) = data
    BY <1>1, <1>2, LoadedIsCurrent
<1>6. /\ t \in MayAccess[w] \ fresh
      /\ t # b
      /\ Miss(cache, t)
    BY <1>1, <1>2 DEF IInv, FlightInv, IsTarget
<1>7. /\ cache \in [Slots -> Entry]
      /\ disk \in [Blocks -> Data]
      /\ Coherent(cache, disk)
      /\ now \in Nat
    BY DEF IInv, TypeOK
<1> DEFINE e == [block |-> b, data |-> data, dirty |-> FALSE, last |-> now]
           n == [block |-> t, data |-> data, dirty |-> TRUE, last |-> now]
<1>8. /\ c1 \in [Slots -> Entry]
      /\ d1 \in [Blocks -> Data]
      /\ Coherent(c1, d1)
      /\ Content(c1, d1, b) = data
      /\ \A x \in Blocks \ {b} : Content(c1, d1, x) = Content(cache, disk, x)
      /\ \A x \in Blocks \ {b} : Miss(cache, x) => Miss(c1, x) /\ d1[x] = disk[x]
  <2>1. /\ e \in Entry
        /\ e.block = b
        /\ e.data = data
        /\ ~e.dirty
    BY <1>7 DEF Entry
  <2>2. /\ c1 \in [Slots -> Entry]
        /\ c1[i] = e
        /\ \A j \in Slots \ {i} : c1[j] = cache[j]
    BY <1>4, <1>7 DEF Filled, Entry
  <2> HIDE DEF e
  <2>3. d1 = Flushed(disk, cache, i)
    BY <1>4
  <2>4. QED
    BY <1>5, <1>7, <2>1, <2>2, <2>3, Insertion
<1>9. /\ cache' \in [Slots -> Entry]
      /\ disk' \in [Blocks -> Data]
      /\ Coherent(cache', disk')
      /\ Content(cache', disk', t) = data
      /\ \A x \in Blocks \ {t} : Content(cache', disk', x) = Content(c1, d1, x)
      /\ \A x \in Blocks \ {t} : Miss(c1, x) => Miss(cache', x) /\ disk'[x] = d1[x]
  <2>1. /\ n \in Entry
        /\ n.block = t
        /\ n.data = data
        /\ n.dirty
    BY <1>7 DEF Entry
  <2>2. /\ cache' \in [Slots -> Entry]
        /\ cache'[k] = n
        /\ \A j \in Slots \ {k} : cache'[j] = c1[j]
    BY <1>4, <1>7, <1>8 DEF Filled, Entry
  <2> HIDE DEF n
  <2>3. Miss(c1, t)
    BY <1>6, <1>8
  <2>4. disk' = Flushed(d1, c1, k)
    BY <1>4
  <2>5. QED
    BY <1>8, <2>1, <2>2, <2>3, <2>4, Insertion
<1>10. Frame({b, t}) /\ Coherent(cache, disk)'
    BY <1>8, <1>9 DEF Frame
<1>11. /\ op' \in [Workers -> Ops]
       /\ FlightInv(w)'
       /\ \A u \in Workers \ {w} : op'[u] = op[u]
    BY <1>1, DoneInv
<1>12. TypeOK'
    BY <1>1, <1>9, <1>11 DEF IInv, TypeOK
<1>13. IInv'
    BY <1>1, <1>5, <1>6, <1>10, <1>11, <1>12, WorkerInv
<1>14. Contents' = [Contents EXCEPT ![t] = Contents[b]]
    BY <1>5, <1>6, <1>8, <1>9 DEF Contents
<1>15. Store!Copy(b, t)
    BY <1>1, <1>14 DEF Store!Copy, Contents
<1>16. QED
    BY <1>13, <1>15 DEF StoreStep, Store!Next

-----------------------------------------------------------------------------
(* Theorems *)

\* Every step preserves the invariant and is a step of the store or none.
LEMMA NextStep ==
    ASSUME FilesDisjoint, IInv, [Next]_vars
    PROVE  IInv' /\ StoreStep
<1>1. CASE Tick
  <2>1. UNCHANGED <<disk, cache, fresh, op, got>> /\ now' \in Nat
    BY <1>1 DEF Tick, IInv, TypeOK
  <2>2. QED
    BY <2>1 DEF IInv, TypeOK, FreshInv, FlightInv, IsTarget, StoreStep, Contents
<1>2. ASSUME NEW w \in Workers, WorkerStep(w)
      PROVE  IInv' /\ StoreStep
    BY <1>2, ReadHitStep, ReadMissStep, AllocateStep, WriteHitStep, WriteMissStep,
       CopyHitStep, CopyMissStep, LoadStep, ReadFillStep, WriteFillStep, CopyFillStep
    DEF WorkerStep
<1>3. CASE UNCHANGED vars
  <2>1. UNCHANGED <<disk, cache, now, fresh, op, got>>
    BY <1>3 DEF vars
  <2>2. QED
    BY <2>1 DEF IInv, TypeOK, FreshInv, FlightInv, IsTarget, StoreStep, Contents
<1>4. QED
    BY <1>1, <1>2, <1>3 DEF Next

\* The invariant holds in every reachable state.
THEOREM Invariance == ASSUME FilesDisjoint PROVE Spec => []IInv
<1>1. IInv /\ [Next]_vars => IInv'
    BY NextStep
<1>2. QED
    BY InitInv, <1>1, PTL DEF Spec

\* Every variable keeps its shape (fs.c:46-51, 112-113).
THEOREM TypeCorrect == ASSUME FilesDisjoint PROVE Spec => []TypeOK
<1>1. IInv => TypeOK
    BY DEF IInv
<1>2. QED
    BY Invariance, <1>1, PTL

\* The cache never holds a block twice, so no stale copy can come back when
\* find_block_in_cache's first match is evicted (fs.c:127-135, 705-724, 833-863).
THEOREM BlocksCachedOnce == ASSUME FilesDisjoint PROVE Spec => []OneCopy
<1>1. IInv => OneCopy
    BY DEF IInv, Coherent, OneCopy
<1>2. QED
    BY Invariance, <1>1, PTL

\* Eviction without write-back loses nothing (fs.c:151-154).
THEOREM EvictionIsSafe == ASSUME FilesDisjoint PROVE Spec => []CleanIsOnDisk
<1>1. IInv => CleanIsOnDisk
    BY DEF IInv, Coherent, CleanIsOnDisk
<1>2. QED
    BY Invariance, <1>1, PTL

\* The entries of the zeroed cache are never written over block 0, where the
\* bitmap of the free blocks is (fs.c:129, 151-154, 464).
THEOREM PhantomsAreClean == ASSUME FilesDisjoint PROVE Spec => []PhantomsStayClean
<1>1. IInv => PhantomsStayClean
    BY DEF IInv, Coherent, PhantomsStayClean
<1>2. QED
    BY Invariance, <1>1, PTL

\* What a worker copies from the disk with the mutex released is still current
\* when it inserts it (fs.c:713-724, 840-863, 1237-1245).
THEOREM LoadsAreCurrent == ASSUME FilesDisjoint PROVE Spec => []FillIsCurrent
<1>1. IInv => FillIsCurrent
    BY DEF IInv, FlightInv, FillIsCurrent
<1>2. QED
    BY Invariance, <1>1, PTL

\* Reads, writes and copies of threads that serve different files are atomic
\* operations on a store without a cache, although block_read runs with the
\* mutex released (fs.c:691-735, 828-866, 1214-1250).
THEOREM CacheImplementsStore == ASSUME FilesDisjoint PROVE Spec => ImplementsStore
<1>1. Init => Store!Init
  <2> SUFFICES ASSUME Init PROVE Store!Init
    OBVIOUS
  <2>1. \A b \in Blocks : Miss(cache, b)
    BY DEF Init, Miss
  <2>2. QED
    BY <2>1 DEF Init, Store!Init, Content
<1>2. IInv /\ [Next]_vars => StoreStep
    BY NextStep
<1>3. QED
    BY Invariance, <1>1, <1>2, PTL DEF Spec, ImplementsStore, Store!Spec, StoreStep, Contents
=============================================================================
