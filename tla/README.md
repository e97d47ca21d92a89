# split-tree in TLA+

A verification project for the persistent-memory indexes in `src/code`: the two-layer B+-tree
*sobtree* (`src/code/include/multiThread/sobtree/`), whose leaf splits are moved from the
inserting threads to background workers, in its three versions, and the three indexes it is
measured against, *lbtree*, *fptree* and *fast_fair*, with lbtree's undo-redo log. The modules
model the code as it is, TLC checks them on small instances, and TLAPS proves for every value of
the constants that the three versions of sobtree keep their safety properties and implement an index
whose inserts and lookups of keys are atomic (the read of the value found is not, section 5), and that
fast_fair's writers keep off one another's pages.

Paths below without a directory are in `src/code/include/multiThread/sobtree/`.

## 1. The system

### 1.1 Components, state and operations

| Component | State | Operations |
|---|---|---|
| **sobtree v2** (`sobtree_v2.h`) – search layer | `tree_root`, `root_level`, inodes (lock bit, `num`, sorted keys, children) in DRAM | descent inside an RTM transaction; `insert_inode`; part 3 of `insert_lnode`; growing a root |
| **sobtree v2** – leaf layer | lnodes of 256 bytes in NVM: `meta` (14-bit bitmap, lock, alt bit, fingerprints), 14 slots, `tail[2]` (sibling pointers; `tail[0]` also holds the 16-bit split version) | `insert_lnode`, `search_lnode`, `split` |
| **background splits** (`sobtree_v2.h:251-300`) | `job_queue` of `MASK(leaf, version)`, `NUM_WORKERS` threads | worker loop, `split`, `wait_for_split`, destructor |
| **sobtree v1, v2a** (`sobtree_v1.h`, `sobtree_v2a.h`) | as v2 without versions; as v2 with jobs that carry the leaf's first word | `split` by plain store; `split` by compare-and-swap |
| **job queue** (`../../tools/atomic_queue/`) | ring of slots, `head_`, `tail_` | `push`, `pop`, `was_size` |
| **lbtree baseline** (`../lbtree/`) | RTM B+-tree with NVM leaves, undo-redo log, node pools | `insert`, `del`, `lookup`, `rangeScan`; log commit and recovery |
| **fptree baseline** (`../fptree/`) | versioned nodes, DRAM inner part | optimistic descent, split, collapse |
| **fast_fair baseline** (`../fast_fair/`) | pages with shifting entries and sibling pointers | store-by-store insert and delete, lock-free search |
| **value log** (`../../tools/log.cpp`), mini log | per-thread chunks, a global chunk list | `add_log`, `get_log_chunk` |
| interface and tests (`src/code/test/multiThread/`) | – | `tree_insert`, `tree_search`, phases of threads |
| statistics, key generators, drivers | counters, random state | – |

Foreground threads call `tree_insert` and `tree_search` (`src/code/test/multiThread/interface.h`).
They share the whole tree with the workers and hand them work through `job_queue` only. The
leaf layer is reached through the search layer; the chain of leaves through `tail[alt].next` is
what a recovery could rebuild the search layer from.

### 1.2 What is hard

* **Locks that are bits, set inside a transaction and cleared by a plain store.** A reader's
  transaction aborts when it meets one. A client's split clears its leaf's bit with the very
  store that publishes the split (`sobtree_v2.h:1025`), before it has added its key and before
  the parent knows the new leaf.
* **Values read in a transaction and used after it**: the path with its positions and full flags
  (`:735-763`, used at `:1111`), the leaf and slot in which a search found its key (`:691`), and
  `total_level`, read *after* the commit (`:1103`).
* **Two unordered stores grow the tree** (`root_level`, `tree_root`, `:1191-1195`).
* **Jobs are queued after the leaf was unlocked** (`:945`), popped in any order, and dropped when
  the leaf is locked or its version has moved on (`:1226`); `split` never looks at the bitmap.
* **Versions wrap** at 2^16.
* **No fallback path**: an aborted transaction is retried for ever.
* **Crash consistency**: flush order, alt bit and bitmap stores (`:870-1030`), no recovery code.
* In the baselines: readers without locks against entries that shift (fast_fair) or leaves that
  split and go (fptree); nodes that are freed while others are on their way to them (lbtree,
  fptree); a log that runs round and round (lbtree).

Every such place is in `PROJECT.json` under `hazards`, with the properties that cover it, or a
note that says why none does.

### 1.3 What makes each component correct

* Search layer: descents end at the leaf responsible for a key or wait; lock bits are set and
  cleared by one owner; recorded positions are right when used; root and level agree.
* Leaf layer: the chain is sorted and complete at every instant; one thread at a time changes a
  leaf; every insert, and every search but for the value it returns, appears to happen at once.
* Background splits: only full leaves are split, each once per filling, none is forgotten.
* Job queue: nothing lost, nothing twice, order per producer; `was_size` as used by
  `wait_for_split`.
* Baselines: every call has the answer of one instant, or at least no key that stays is missed
  (fast_fair); writers own what they write; the tree at rest is whole.
* Undo-redo log: nothing is overwritten before its record is durable and findable; an abort
  restores what there was; no node is lost or free twice.

## 2. Modules

| Module | What it is |
|---|---|
| `SobTree` | The detailed model of sobtree v2 with `BACKGROUND`: state, one action per step, fairness, type invariant |
| `KVIndex` | Abstract specification: a set of keys, inserts and searches for keys that happen at once |
| `SobTreeProps` | Safety, refinement and liveness properties of `SobTree` |
| `SobTreeV1`, `SobTreeV2a` | The two other versions: the steps the files share are `SobTree`'s, the split protocols their own |
| `SobTreeInv` | The inductive invariant `IndInv` and the hypothesis `NoStaleJob` |
| `SobTreeRanges` | The second inductive invariant, `OrderInv`: which node is responsible for which keys |
| `SobTreeProofs`, `SobTreeTheorems` | Proofs: types, `IndInv` action by action, the theorems on locks, jobs, versions and the leaves' parents |
| `SobTreeHandoff` | `SpecAny`: `SobTree` with a free choice of the leaf a worker takes, and the invariant `RoomInv` |
| `SobTreeOrder`, `SobTreeLinear` | Proofs: where a descent ends, shape and order of the tree action by action; keys and chain of the leaves, and the refinement of `KVIndex` |
| `SobTreeV1Proofs` | Proofs: each behaviour of v1 is one of `SobTree` without stale jobs |
| `SobTreeV2aProofs` | Proofs: each behaviour of v2a is one of `SpecAny`, under a mapping; what follows |
| `KVStore` | Abstract specification of an index with deletes and scans |
| `LbTree` | lbtree: RTM transactions, leaves with slots, deletes that free nodes, scans |
| `LbTreeInv`, `LbTreeProofs` | The inductive invariant `LbInv` of `LbTree`; its proof action by action, and two of the run's properties from it |
| `FpTree` | fptree: versioned nodes, readers that validate, splits and collapses |
| `FastFair` | fast_fair: writers under page mutexes, store by store, readers load by load |
| `FastFairInv`, `FastFairProofs` | The inductive invariant `FFInv` of `FastFair`; its proof action by action, and two of the run's properties from it |
| `NvmLog` | The undo-redo log of one thread and its node pool, with the cache before NVM |
| `MC...` | Constants for TLC: workloads and initial trees |

`SobTreeProps` extends `SobTree` and instantiates `KVIndex`; `SobTreeV1`, `SobTreeV2a` and
`SobTreeInv` extend `SobTreeProps`, `SobTreeRanges` and `SobTreeHandoff` extend
`SobTreeInv`, `FastFairInv` extends `FastFair` and `LbTreeInv` extends `LbTree`. `LbTree` and `FpTree` instantiate `KVStore`. The indexes do
not call one another: a build has one of them behind `interface.h`, whose calls are each module's
`Call`, `Return` and, in lbtree, `ReadPtr` and `ScanNext`. `NvmLog` stands alone: lbtree's drivers
set the logs up, but its leaf split is logless and no index starts a mini-transaction.

### 2.1 SobTree: state and code

| Model | Code |
|---|---|
| `tree_root`, `root_level` | the fields of the same name; `tree_root` is `<<level, number>>` |
| `ent[n].k`, `ent[n].ch`, `ilock[n]` | `k(1..num)`, `ch(0..num)`, `lock()` of an inode (`ch[j]` is `ch(j-1)`) |
| `meta[l].bitmap`, `.lock`, `.alt` | `lnode::meta`; the bitmap is the set of keys it marks |
| `tail[l][a]` | `tail[a].next` |
| `version[l]` | `tail[0].version` |
| `job_queue` | the jobs pushed and not popped; `<<leaf, version>>` is `MASK` |
| `pc[t]`, `loc[t]` | program counter and locals of a thread; `loc[t].path` is `parray`, `ppos`, `isfull` |

| Action | Code |
|---|---|
| `Call`, `Return` | `tree_insert`, `tree_search` |
| `SearchLnode`, `ReadCh` | `search_lnode`: its transaction (`:584-689`), and the read of the value after it (`:691`) |
| `FindLeaf` | part 1 of `insert_lnode` (`:694-831`) |
| `CopyMeta`, `FillSlot`, `PushJob` | part 2, leaf not full (`:837-952`) |
| `SplitBuild`, `SplitPublish`, `InsertLeft` | part 2, leaf full (`:954-1087`), and the same steps of `split` (`:1262-1312`) |
| `ReadLevel`, `InsertInode`, `SplitInode`, `GrowRoot`, `GrowSecondStore`, `UnlockOldRoot`, `UnlockNewRoot` | part 3 (`:1089-1200`) and the same steps of `insert_inode` (`:484-580`) |
| `FindInode` | the transaction of `insert_inode` (`:369-471`) |
| `PopJob`, `SplitLock`, `SplitCopy`, `SplitUnlock` | the worker loop and the rest of `split` (`:264-279`, `:1212-1318`) |

**Granularity.** An RTM transaction is one action, enabled when it would commit. A transaction
that meets a set lock bit aborts and starts again, which is waiting. Outside transactions every
store that another thread can observe before the next one is its own action; stores to a private
node, or to a node whose lock bit keeps every transaction out, are grouped with the step that
ends them. The two stores of a new root are taken in both orders.

**Abstraction.** Slots, fingerprints and cache lines are left out (a leaf is a set of keys), and
so are stored values (`tree_insert` stores the key's own pointer) and statistics. `job_queue` is
a set because two producers may fill their claimed ring slots in either order; a job is pushed
at most once (`EachJobOnce`), so a set loses nothing. Without slots `ReadCh` cannot say whose value
is in the slot a search found. `SlotMayBeReused` says when it need no longer be its own: a slot is
given up by an insert that moves its entry out of line 0 (`:912-915`), which adds a key to the leaf, or
by a split, which takes a leaf from the pool. In that case the search answers `found` or `other`, either
way; it is a superset of what the code can do.

### 2.2 KVIndex: what a client is promised

`KVIndex` keeps the set `store` and each client's operation. An insert adds its key at one
instant, a search looks at one instant whether its key is stored. If so it goes on to read the value, of
which nothing is promised: it answers `found` or `other`, the value of another key. `SobTreeProps!KV` maps it to `SobTree`:
`store` is the union of the bitmaps of the leaves linked in the chain, `op` follows from `pc`.
An insert into a leaf takes effect at `FillSlot`, one that splits with its key in the upper half
at `SplitPublish`, one that goes left at `InsertLeft`; all other steps are stutters. The
property `Linearizable` is the refinement.

### 2.3 SobTreeV1 and SobTreeV2a

| Action | Code |
|---|---|
| `InsertPart1V1` | part 1 of `insert_lnode` of v1: a full leaf aborts the transaction, even for a key it holds (`sobtree_v1.h:724`) |
| `PushJobV1`, `SplitLockV1` | one job per filled leaf; `split` sets the lock with a plain store, its transaction is commented out (`sobtree_v1.h:899-925`) |
| `PushJobV2a` | the job carries the leaf's first word as the filler stored it (`sobtree_v2a.h:875-893`) |
| `CasLock`, `CheckVersion` | the compare-and-swap on that word, then the version; a job that fails the second gives the lock back (`:1212-1266`) |

The rest are `SobTree`'s actions under the names of their place in the other file. In v2a the
first word holds some fingerprints; two full leaves with different keys may or may not have the
same word, so the compare-and-swap of a stale job against one is a choice.

### 2.4 LbTree

State: `tree_root`, `root_level`, `first_leaf`, `bnode[<<level, n>>]` (separators, children,
lock), `leaf[n]` (bitmap, lock, alt, slots, two next pointers), `used` (what the pools have given
out). One action per transaction, and per store outside one that others can see.

| Actions | Code (`lbtree.cc`) |
|---|---|
| `Lookup`, `ReadPtr` | `lookup`; the read of the pointer by `tree_search`, after the transaction |
| `Scan`, `ScanReturn` | `scan` as one transaction per call |
| `InsertFound`, `SetValue`, `InsertFind`, `FillSlot` | `insert` parts 1 and 2, with the line-by-line moving of entries |
| `SplitBuild`, `SplitPublish`, `InsertLeft` | the leaf split |
| `ReadLevel`, `InsertBnode`, `SplitBnode`, `GrowRoot`, `GrowSecondStore`, `UnlockOldRoot`, `UnlockNewRoot` | part 3 |
| `DelMissing`, `DelFind`, `DelSlot`, `DelLeaf` | `del` parts 1 and 2, with the lock of the leaf to the left |
| `DelChild`, `FreeBnode`, `ShrinkLevel`, `ShrinkRoot` | `del` part 3 |

Freed nodes are taken again by later allocations (`FreeNode` takes the first there is). The properties `check`
and `checkFirstLeaf` are the code's own checks.

### 2.5 FpTree

State: `ver[n]` (the version word: lock, inserting, splitting, deleted, root bits and the two
counters, overflow of one into the other included), leaves with slots, inodes, parents, `freed`.
Every read of a version, every check of one and every store that another thread can see is a
step; a writer's stores under its lock are grouped as far as readers, who check the version
after what they read, cannot tell.

| Actions | Code (`fptree.cpp`) |
|---|---|
| `FindRoot`, `WalkToRoot`, `RootVersion`, `Descend`, `ChildVersion`, `Validate` | `find_leaf` with `stable_version` and `walk_to_root` |
| `GetRead`, `GetCheck`, `WalkVersion`, `WalkNext` | `fptree_get`, `walk_leaves` |
| `ScanRead` .. `ScanReturn` | `fptree_scan` |
| `LockLeaf`, `PutMark`, `PutStore`, `DelMark`, `DelStore` | `find_leaf_locked`, `fptree_put`, `fptree_del` |
| `SplitBuild` .. `SplitLink`, `ReadParent`, `LockParent`, `NewRoot`, `MarkParent` .. `SplitInterUp` | `split_leaf_node`, `lock_parent_node`, `split_inter_node` |
| `ReadNext` .. `FixNext` | `delete_leaf_node` |
| `RemoveMark`, `RemoveChild`, `Adopt`, `NewTop`, `FreeTop` | `collapse_nodes` |

### 2.6 FastFair

State: `page[p]` (header and records), `root`, `mtx`. Each load and each store of a shared page
is a step (`ReadKey`, `ReadPair`, `InsertKey`, `RemoveKey`, `Split`: one store at a time, in
program order; the processor keeps it). `hist` and `present` are history variables: how often
writes of a key have begun and ended, and what they left. fast_fair promises less than an
instant for each call: scans are not atomic, and a search beside a write of its key may go either
way. `ReadersRight` says what is left: a search whose key nobody writes meanwhile is right, a
range search misses no key that stays and invents none.

### 2.7 NvmLog

State: `log.line` (the lines as the thread's cache has them) and `log.nvm` (what has reached
memory), the write position, `txpos`, the redo list, the list of nodes to delete, the words
(`mem`) and the pool. `Evict` writes any line back at any time. `before`, `wrote`, `fresh` and
`mine` are history variables. There is one action per call of the class (`write`, `new`,
`redoWrite`, `allocNode`, `delNode`, `commitMiniTransaction`, ...), with the flush and the store
that follow it as steps of their own, and one per record an abort undoes. Units stand for
bytes; a line's checksum is taken to tell any two contents apart.

## 3. Runs

| Run | Instance | Properties | What it shows |
|---|---|---|---|
| `core` | 2 clients, 1 worker, empty tree, leaves and inodes of 2, levels 0-2 (1084k states) | `TypeOK`, `LeafLockOwner`, `RootAgrees`, `ChainSorted`, `Linearizable` | splits of leaves and inodes, two root growths and all interleavings keep locks, root and chain right and implement `KVIndex`, also while searches are between their transaction and their read |
| `tall` | 2 clients, 1 worker, a two-level tree whose root and last inode are full (472k) | `InodeLockOwner`, `TopIsRoot`, `PathStillRight`, `OneParent` | paths and levels recorded in a transaction are right when used; a split up to the root runs beside splits elsewhere |
| `background` | 2 clients, 2 workers, leaves of 4 (528k) | `SplitsFullLeaf`, `EachJobOnce`, `NoStrandedLeaf`, `IndInv` | late, reordered, stale and dropped jobs |
| `progress` | 2 clients, 1 worker, leaves of 4 (60k), `FairSpec` | `CallsReturn`, `FullLeafSplit` | every call returns, every leaf that fills is split |
| `wrap` | 1 client, 1 worker, leaves of 4, 8 keys, a one-bit version | `SplitsFullLeaf` **violated** | see section 5 |
| `v2a` | 2 clients, 1 worker, leaves of 2; from the empty tree, and from one with two stale jobs queued (254k), fair | `LeafLockOwner`, `SplitsFullLeaf`, `Linearizable`, `CallsReturn` | the compare-and-swap hand-over |
| `v1` | 2 clients, 2 workers, leaves of 2 (249k), fair | `PlainStoreSafe`, `Linearizable`, `CallsReturn` | the plain store is a lock; inserts that wait for a worker do return |
| `lbtree` | 3 threads, leaves of 3 slots, bnodes of 2 keys, 3 programs on trees of 1 and 3 levels (19k), fair | `WritesOwnNodes`, `RootAgrees`, `CheckPasses`, `Linearizable`, `CallsReturn` | splits, unlinked leaves, freed bnodes, a tree that grows and one that shrinks |
| `fptree_sound` | 2 threads, leaves of 3 slots, inodes of 3 keys, 12 programs (23k), fair | `LocksHeld`, `TreeSound`, `ScanNoGap`, `Linearizable`, `CallsReturn` | readers beside splits and deletes, and on their way to a root that a delete left without the root bit |
| `fptree_ascending` | 1 thread, ascending puts | `GetFindsKey` **violated** | see section 5 |
| `fast_fair` | 2 threads, pages of 4 records, 6 programs (204k), fair | `ReadersRight`, `OneWriter`, `SeparatorPlaced`, `PagesInOrder`, `CallsReturn` | readers between any two stores of inserts, deletes and splits; scans of pages read from the left and from the right |
| `nvm_rounds` | 3 lines of 6 units, 2 nodes, 2 transactions after 1, 4 and 6 earlier ones (545k) | `LoggedFirst`, `AbortRestores`, `PoolSound` | commits and aborts across line ends and log rounds, any write-back order |

Each property of a passing run has a mutant in `PROJECT.json`: a plausible bug (a lock left set,
an off-by-one in a search, a version not advanced, a missing store) under which the same run
finds the property violated. The mutant operators stand beside the definitions they change and
are marked "Mutant:"; the specification does not use them.

**Bounds.** `LEAF_KEY_NUM` and `NON_LEAF_KEY_NUM` are 14 in the code. With 2, every insert into a
full node splits it and three inserts make a new level, so that leaf split, inode split and root
growth overlap in a few steps; `background` uses leaves of 4 because a leaf must be able to be
half full again after a split while an old job still waits. `MaxLeaf` and `MaxInode` only bound
the pool and are large enough for all the keys of a run: in no reachable state of a passing run does
a split or a growing root wait for one of them, and no version reaches `VersionMod - 1` at a split. Keys are the workload's; clients that share leaves
interleave theirs. `LoadedSpec`
starts from the tree that inserting 4, 8, .. 28 with immediate background splits leaves, which
the code reaches. `v2a`'s second start is what a client leaves that has split a leaf three times
while the worker slept.

The modules of the baselines run programs: each thread has a list of calls, and a run's workload
is a set of such programs with the tree each starts from, a tree the code builds with the calls
its comment names. Programs keep the runs to the cases that meet: a leaf, an inode and a root
that split beside readers of them; neighbouring leaves that empty together; a root that loses a
child. Leaves of three slots split into one and two; fast_fair's pages of four hold three
records and a terminator. Programs that meet the faults of section 5 are left out of the
passing runs, so a passing run says: in these cases, which are not those, the code does what the property
states. `MaxPage`, `MaxNode` and `MaxLeaf` are never reached. fptree's counters wrap at 4 in place of 2^7 and
2^18, which is more than a program's writes of one node can bring round while a reader waits.
In `nvm_rounds` the bound `Fits` keeps a transaction inside the ring, which the code does not
check; an abort whose last record ends its line goes astray (section 5) and is followed no further.

**Fairness.** `FairSpec` has weak fairness for each thread: the operating system schedules every
thread. A client need not call again (`Call` is outside the fair steps). Weak fairness suffices
for the transactions although another thread may disable them by taking a lock: the keys of a
run are finite, so locks are taken finitely often and every transaction is finally enabled for good.
In `LbTree`, `FpTree` and `FastFair` each thread's steps are weakly fair too; their programs are finite, so a
lock that a thread waits for (a mutex, or `stable_version`'s spinning) is free for good in the end.
This takes one thing for granted that the code does not provide: a transaction that conflicts
with nobody commits in the end. The code has no fallback lock, so a transaction the hardware
always aborts (capacity, interrupts, TSX off) never returns; that hazard is listed and not covered.

## 4. Proofs

All proofs are checked by TLAPS from nothing, without axioms. Those about sobtree hold for any finite
set of integer keys, any set of threads, any workload, and any capacities of at least 2, under
`ConstantsOK`; those about fast_fair under `FastFairConstants` and `WorkloadOK`, those about lbtree under `LbTreeConstants`
and a `WorkloadOK` of its own.

### 4.1 sobtree v2

Theorems of sobtree v2 (`SobTreeTheorems`, `SobTreeLinear`), each of the form
`Spec /\ []NoStaleJob => []P`, but the last `Spec /\ []NoStaleJob => Linearizable`:

| Theorem | P |
|---|---|
| `IndInvHolds` | `IndInv` |
| `TypesHold` | `TypeOK` |
| `LeafLocksHold` | `LeafLockOwner` |
| `InodeLocksHold` | `InodeLockOwner` |
| `RootHolds` | `RootAgrees` |
| `TopHolds` | `TopIsRoot` |
| `FullLeafHolds` | `SplitsFullLeaf` |
| `JobsOnceHold` | `EachJobOnce` |
| `NoneStrandedHold` | `NoStrandedLeaf`, when `LEAF_KEY_NUM >= 4` |
| `OneParentHolds` | `OneParent` |
| `OrderHolds` | `IndInv /\ Rooted /\ OrderInv` |
| `ChainSortedHolds` | `ChainSorted` |
| `PathHolds` | `PathStillRight` |
| `LinearizableHolds` | `Linearizable`: `SobTree` implements `KVIndex` |

`Linearizable`, here and in the theorems about v1 and v2a, is a statement about keys: an insert adds its
key, and a search tells whether its key is there, at one instant of the call. It is none about the value a
search returns, which the code reads later and which can be another key's (section 5).

**The hypothesis.** `NoStaleJob` says that a leaf about to be split has no job about that bears the
version the leaf gets next. It is needed: the run `wrap` violates `SplitsFullLeaf` without it, and
the code neither ensures nor checks it. Two theorems say where it holds in every behaviour:

* `FewLeavesNotStale`: `VersionMod > MaxLeaf` implies `Spec => []NoStaleJob`. Every split takes a leaf from
  the pool and advances one version, so the versions of a leaf stay below the number of leaves and do
  not come round (`VersionOrder`: no job bears a version above its leaf's). From it,
  `FewLeavesLinearizable`: `VersionMod > MaxLeaf` implies `Spec => Linearizable`. In the code that is a
  tree of up to 2^16 leaves.
* `V1Refines`, below: in v1, whatever the size.

**The argument.** No one of these properties is inductive. The chain of reasons, which `IndInv`
puts together, is this. A recorded position in an inode is right because the inode stays locked
(`PathTrue`, `InodeLocks`). A client locks its path exactly when its leaf is full, and releases it level
by level, so what it holds depends on the leaf staying full until the split is built (`HoldsPath`,
`LeafKnown`). The leaf stays its own because it is locked and, after the early unlock,
because its parent is locked and it hangs from no other place (`LeafOfPath`, `OneUse`), and no
worker can take it because every job for it is out of date by then (`JobsOK`). `JobsOK` holds
because the version moves on with each split, and not to that of a job still about (`NoStaleJob`). A thread that
reaches the top holds the root, so it is alone there, and the level it read after its
transaction is the level it saw in it (`Climb`, `RootState`, `OneAtTop`). New nodes are
allocated and unlinked until they are inserted (`CarriedLeaf`, `CarriedInode`, `Linked`), so
inserting one keeps `OneUse`.

`SobTreeProofs` starts with the lemmas on types (what a descent returns, what `InsertAt` and the two
halves of a split inode contain) and goes on with one lemma per action, `InvFindLeaf` to
`InvSplitInode`, over framing lemmas for the parts a step leaves alone (`ClimbKept`, `LocksStep`,
`LeafStep`, `JobsStep`, `UseKept`); `SobTreeTheorems` combines them.

The rest of `SobTreeTheorems` builds on `IndInv`. `JobOnce`: a client that fills a leaf has the leaf's present
version, and by `JobsOK` a job with that version would mean the leaf was full already. `KeptInv`: when
a worker drops a job of the present version the leaf is locked, so somebody holds it
(`LeafLockOwner`); and nobody lets go of a full leaf without a job, because a split leaves a free
slot in both leaves (`Room`, from the sizes of the halves) and the new leaf is in nobody's hands
and in no job until it is linked (`Apart`). With fewer than four entries a half with the client's key
can be full at once, a leaf nobody queues; 14 in the code.

`Rooted` adds existence to the uniqueness of `OneUse`: every allocated leaf that no
thread carries hangs from some bottom inode. It is kept because the inode a new child goes into ends
with all its children and the new one (`MergedAll`), in one node or in the two halves of a split
(`RootedInsertInode`, `RootedSplitInode`), and no other step writes a bottom inode or stops carrying.

**Order and keys.** `IndInv` says who holds what and where new nodes are; it says nothing of keys.
The difficulty is the time between the store that links a new leaf and the one that tells its parent:
the separators then do not say which leaf has a key. `OrderInv` (`SobTreeRanges`) gives each node a
lower bound that never changes, the split key it was made with (the program does not store it; the
invariant says that such bounds exist), and lets a node *own* the keys from its bound to the next
bound of its level.

* `TreeOrder`: bounds are distinct per level; a child's bound is the separator to its left, the
  first child's its parent's; an inode owns its separators; the root is below every key; a new
  node's bound comes right after that of the node it was split from (`BornBound`), and that stays
  so until the parent knows it, because nobody else can split that node before.
* `ShapeInv`: what that last sentence needs. What is carried is nobody else's and not yet in the
  tree (`CarriedApart`); every other inode hangs from one (`InodesRooted`); a leaf that was split
  and unlocked, or an inode, is held by no other thread until its parent knows the new node
  (`LeafAlone`, `InodeAlone`); a recorded path leads down to its leaf (`PathLinked`).
* `LeafOrder`: a leaf owns its keys; the next pointer is the leaf with the next bound, with no
  regard to parents (`ChainLinked`); a client's key belongs to its leaf (`KeyFits`); the two halves
  are right before the store that publishes them (`SplitReady`).

The lemma the rest depends on is `FoundLeaf` (`SobTreeOrder`): a transaction that commits ends at
the linked leaf that owns the key. The separators lead to the owner among the leaves that parents know;
a linked leaf no parent knows starts right after its origin, and below the origin's parent, whose
lock bit aborts the transaction. `SobTreeOrder` proves that each action keeps `ShapeInv` and
`TreeOrder`, a split with one more bound (`Grown`), and that the initial tree has bounds: one below
all keys, for which `Key` has to be finite. `SobTreeLinear` does the same for `LeafOrder`, and from
there the refinement: the store of a client's key adds exactly that key (`StorePublish`,
`StoreKey`), a worker's split and all other steps leave the abstract store as it is (`StoreStays`), and a
transaction that looks for a key in its leaf answers for the whole store, because no other
leaf owns that key (`LeafTells`).

TLC checked `OrderInv` on the instance of `background` before it was proved, with the bounds read
off the separators and the split keys in hand.

### 4.2 sobtree v1

`SobTreeV1Proofs`. Its jobs have no versions, and a worker locks a leaf by a plain store,
outside any transaction. The theorems are

| Theorem | Statement |
|---|---|
| `V1Refines` | `SpecV1 => Spec /\ [](V1Inv /\ NoStaleJob)`, with `Version = {0}` |
| `PlainStoreHolds` | `SpecV1 => []PlainStoreSafe` |
| `V1StaysSound` | `SpecV1 => []` of `LeafLockOwner`, `InodeLockOwner`, `RootAgrees`, `ChainSorted`, `PathStillRight`, `OneParent`, `EachJobOnce` |
| `V1Linearizable` | `SpecV1 => Linearizable` |

without a hypothesis on behaviours. Each v1 step is a step of `SobTree` in which the checks that v1 leaves out
would succeed: the leaf of a job is unlocked, because no transaction of v1 locks a full leaf
(`JobsUnlocked`), and full, because a leaf has at most one job (`JobOnce`) and only the thread that has
it makes the leaf less than full. Once split, the leaf has no job left that could be stale. So what is
proved of v2 is true of v1, and v1 needs no versions as long as its clients do not split.

### 4.3 sobtree v2a

`SobTreeV2aProofs`. The theorems, for leaves of at least four slots (the code has 14,
`sobtree_v2a.h:9`), are

| Theorem | Statement |
|---|---|
| `V2aInvHolds` | `SpecV2a => []V2aInv` |
| `V2aRefines` | `SpecV2a => A!SpecAny` |
| `V2aLeafLocks` | `SpecV2a => []LeafLockOwner` |
| `V2aFullLeaf` | `SpecV2a => []SplitsFullLeaf` |
| `V2aTreeSound` | `SpecV2a => []` of `InodeLockOwner`, `RootAgrees`, `PathStillRight`, `ChainSorted`, `OneParent` |
| `V2aLinearizable` | `SpecV2a => Linearizable` |

with no hypothesis on behaviours: v2a needs no `NoStaleJob`, however often versions come round.

**The abstract step.** `IndInv` ties the jobs of v2 to the versions of leaves (`JobsOK`), and in v2a that is
false: its clients lock full leaves that have jobs, and a stale job can win the compare-and-swap. What
the tree needs of a job is less, and `SobTreeHandoff` says what: `TakeLeaf` lets a worker at rest
take *any* unlocked, full leaf that is in nobody's split (`NotCarried`), and then split it
or give it back. `SpecAny` is `SobTree` with that step and with a fill that pushes no job (`FillOnly`). The
proofs of `IndInv`, `Rooted` and `OrderInv` in `SobTreeProofs` to `SobTreeLinear` are about `SpecAny`, so those
of v2 are special cases.

**The mapping.** `pcBar` and `locBar` hide the hand-off: to the abstract tree a job is nothing, a worker whose
compare-and-swap is to come is at rest, one that has the lock has already decided as it is about to
(`pcBar` is `copy` or `unlock` as the versions agree or not, which nobody can change, because the leaf is
the worker's), and a client with a job to push is done. So the compare-and-swap is `TakeLeaf`, a failed check
of the version is `SplitUnlock`, and pushing, popping, losing the compare-and-swap and passing the check
are hidden (`CasBar`, `DropBar`, `HiddenBar`); the steps the files share are the same step there (`SharedBar`).

**Why the leaf is nobody's.** The compare-and-swap is on a word with a full bitmap. `RoomInv`: from the store that
publishes a split both its leaves have room, until their parent knows the new one, and before that
store the new leaf has room and the old one is locked. So a full, unlocked leaf takes part in no split
(`FullIsFree`), which is what v2 takes from the versions. This is where the four slots are needed: with two or
three a half that receives the client's key is full at once, before its parent knows it, and a worker with a
stale job could take it. `HandoffOK` adds that a job names an allocated leaf.

TLC checked `[][A!NextAny]_(A!vars)`, `IndInv` and `RoomInv` under the mapping for leaves of four
slots, two clients and two workers before the proof.

### 4.4 fast_fair

`FastFairProofs`, over the invariant `FFInv` of `FastFairInv`:

| Theorem | Statement |
|---|---|
| `FFInvHolds` | `Spec => []FFInv` |
| `SeparatorPlacedHolds` | `Spec => []SeparatorPlaced` |
| `OneStorerHolds` | `Spec => []OneStorer` |
| `OneWriterHolds` | `Spec /\ []DeletesKeepOff => []OneWriter` |

for any threads, keys, programs of calls and page sizes above 3. `WorkloadOK` says of the initial tree
what any tree the code builds has at rest: the levels of parents, children and siblings fit, an
internal page ends with a null pointer and has an even counter (nothing deletes from it), and only the
root is at the highest level.

**The argument.** That a mutex excludes is not enough, because a thread that splits a page inserts into
its new sibling without that page's mutex (`btree.h:548`), after linking it. What keeps others away is
that nobody else knows the page: the parent does not have it yet, and the only way to it is the sibling pointer of
the page the splitting thread holds. `FFInv` says so for every thread and page:

* `NewOK`: a page being split off has one thread and is the sibling of its origin alone; `NotNew`,
  `Known`: no other page, and no reader that may still become a writer, has it as a child.
* `RootOK`: a root has a sibling only while the thread that split it holds it. So a page that was the
  root when it was split still is when its thread comes to grow the tree, and every other separator
  has a level above its own to go to: `SeparatorPlaced`.
* `WriterOK`, `SplitOK`, `InsertOK`: a store works on a page of its target level, has its mutex, and inserts
  into an internal page that has room; when it splits one, the page is full.
* `ReaderOK`, `Carries`: what a descent has in hand is of the level below or a sibling, at every load of the
  walk down a page that others are shifting; so it arrives at a page of the level it wants.

`Frame(t)` says what a step of `t` may do to what the others rely on, and `OthersStay` that within it their part of
`FFInv` is kept; each action then has one lemma (`InvBeginPage` to `InvGrowRoot`) about its own
thread and page. `CountIs` says that `count()` of a page that has an end is the place of the first null
pointer, by the least element of a set of naturals (`WFMin` of `WellFoundedInduction`).

**The exception.** A store walks to a sibling only with the origin's mutex (`btree.h:443-456`), so it waits for the
split; `btree_delete` walks there without any (`:1111`, then the lock at `:330`), and can lock the new leaf
and shift its entries while the splitting thread inserts its own. `OneWriter` is false of a program
that gets there; `DeletesKeepOff` excludes just that, and `OneStorer`, which needs no hypothesis, says that there is
no other way for two threads to change one page. TLC checked `FFInv`, `OneStorer` and
`SeparatorPlaced` on the instance of `fast_fair` and on larger workloads (853k states) before the proof.

### 4.5 lbtree

`LbTreeProofs`, over the invariant `LbInv` of `LbTreeInv`:

| Theorem | Statement |
|---|---|
| `LbInvHolds` | `Spec /\ []ShrinksApart => []LbInv` |
| `LbWritesOwnNodes` | `Spec /\ []ShrinksApart => []WritesOwnNodes` |
| `LbRootAgrees` | `Spec /\ []ShrinksApart => []RootAgrees` |
| `LbOneDeletes` | `OneDeletes` implies `Spec => [](LbInv /\ WritesOwnNodes /\ RootAgrees)` |

for any threads, keys and programs of calls, and leaves, bnodes and trees of any size from two slots, two
keys and one level on. `WorkloadOK` says of the initial tree what any tree at rest has: each node in use
but the root is the child of one bnode of the level above, and no leaf has a key twice.

**The hypothesis.** `del` lowers the root by two stores, `root_level` and then `tree_root`, and decides to do so by a
read of `root_level` outside its transaction (`lbtree.cc:1560`, `:1573-1575`). `ShrinksApart` says that no second
thread is in that code while one is between the two stores. The code does not ensure it: with the level lowered already, a
delete that empties the bnode below takes it for the root, lowers the level again and frees it, and the first
delete's store of `tree_root` comes last and names the freed node. It takes two deletes, so `LbOneDeletes` needs no hypothesis:
programs in which one thread deletes, beside any number that insert, are sound. On the programs of the run
`lbtree`, in which two threads delete, TLC finds `ShrinksApart` true.

**The argument.** A transaction reads a path, sets lock bits and ends; everything after it relies on what it read. A
node is safe from others only if its lock bit was set, and the code sets few: an insert those of
the full bnodes and the first with room, a delete those of the bnodes that lose their last child and the first that
does not, in both the rest of the path is left to others. So `LbInv` says, thread by thread and label by label, which bits
are its own (`Holds`), and:

* `LocksOK`: a node that is held is in use and its bit is set, and it has one holder. A transaction aborts at a set bit and
  whatever is freed is held by who frees it.
* `ClimbOK`, `DeleteOK`, `LeafOK`: of the nodes a thread holds, and of no others on its path, the recorded position is within
  the node, `isfull` says whether it is full, and a delete's child is at its position. This is why a separator goes into a
  bnode with room and the climb ends where it should.
* `Forest`: the nodes in use are a tree under the highest one, with two exceptions: a node that a split
  carries up (`Carried`) hangs from nothing yet, and a pointer to a child that a delete has freed is still in the bnode it
  will be taken from (`Dangles`). A freed node can be allocated again at once, so without the second exception it would have
  two parents. That a node has one parent is what makes the pointers a delete removes the last ones to the node it frees, and
  what it was locked for.
* `CarriedApart`: a node that hangs from nothing is locked by nobody, since no transaction comes to it.
* `RootSeen`: who holds the top of its path knows the root and its level, and who moves them is between two known stores.
  A grown tree has its new root, by `IsApex`, before `tree_root` says so.

`OwnStep` says what any step of a thread may do to what others hold, and `StepLocks` that within it locks and every
other thread's knowledge are kept; then each action has one lemma (`LookupKeeps` to `ShrinkRootKeeps`) about its own thread, the root and the
forest. `DescentFinds` is the lemma that ties transactions to the tree: a descent that commits passes nodes in use only. The
lemmas on operators say what slots `WithEntry` fills, that `SortedPos` ranks the entries of a leaf, and that the two
halves of `SplitBnode` have the children of the whole and the new one, each once (`MergedKids`).

TLC checked `LbInv` and `ShrinksApart` on the instance of `lbtree`, and `LbInv` on further programs with several deletes (93k
states, those in which `ShrinksApart` fails cut off), before the proof.

### 4.6 Only model-checked

All liveness (`CallsReturn`, `FullLeafSplit`), which is out of the prover's reach; `CheckPasses` and `Linearizable` of
lbtree, fptree, the undo-redo log, and two properties of fast_fair. Of the three versions of sobtree every safety
property the runs check is proved, of v2a for leaves of four slots and more (the run has two). `ReadersRight` and `PagesInOrder` of `FastFair` are about keys, of
which `FFInv` says nothing, and the first does not hold for every workload. `CheckPasses` and `Linearizable` of `LbTree` need the key ranges of
its nodes, which `LbInv` leaves out; the second also an exclusion of what `tree_search` does after its transaction (section 5). `FpTree` has
defects (section 5) that its workloads steer clear of, so most of its properties do not hold for every
workload; a theorem about them needs that exclusion as a hypothesis first. `NvmLog` rests on
arithmetic modulo the ring's size and on folds over the bytes of a line, of which the first is nonlinear and
the second an induction over data.

## 5. Findings

**sobtree v2, stale jobs** (run `wrap`). `sobtree_v2.h:1262` says of a job whose version matches:
"leaf is full, split". A version has 16 bits. A worker that is not scheduled between popping a
job and its transaction, while clients split that leaf 65536 times, finds the version equal and
splits a leaf that need not be full. The run narrows the version to one bit and shows the
sequence. It takes a very long stall; the point is that the comment, and the proofs of section 4 for a tree with
more leaves than versions, rest on `NoStaleJob`. In v2a it cannot happen (run `v2a`, where versions wrap too, and theorem `V2aFullLeaf`): the
compare-and-swap is on a word with a full bitmap, so the leaf is full whatever the version. There a worker with a stale job has a lock for
a moment, in which the leaf's own job can fail and be dropped; a client then has to split the leaf.

**fptree, ascending keys** (run `fptree_ascending`). `key_geq` looks for the lowest key of a leaf
in its first `nkeys` slots (`fptree.cpp:406`). A split copies the greatest keys to the *same
slots* of the new leaf and sets `nkeys` to their number (`:723-730`). When they lie in the upper
slots, as after ascending puts, `key_geq(nleaf, key)` is false for every key (`:770`): the key
that caused the split goes to the left leaf, right of whose separator it lies, and `fptree_get`
never finds it. One thread suffices.

**sobtree, the value a search returns.** `search_lnode` finds its key's slot in a transaction and reads the
slot's value after it (`sobtree_v2.h:688` and `:691`, `sobtree_v1.h:653` and `:656`, `sobtree_v2a.h:686` and
`:689`). In between, inserts alone can give the slot to another key: one that takes a slot of lines 1-3 moves
entries there out of line 0 (`:912-915`), and the next one writes the slot they left (`:857-858`); a split
that frees the upper slots, and an insert after it, do the same. The search then returns the value of a key
it was not asked for, which `interface.h:330` counts as an error (`if (unlikely(res != key))`). The model has
this (`ReadCh` answers `other`, and states that do are reached in the runs `core`, `v1` and `v2a`), and
`KVIndex` allows it: what is checked and proved as `Linearizable` is the presence of keys. No property says
that a search returns its own key's value, since that is false.

**Observed while modelling.** Each was met as a counterexample of the module named; no run of the
project keeps it, the programs that reach it are not in the workloads.

* `FastFair`: `btree_search` loads the sibling pointer a second time in its loop (`btree.h:1051`);
  a split between the two loads ends the loop at a page's address, which is not the key, and the
  search of a key that is there answers NULL.
  An odd counter makes a reader walk down a page that is being cut (`:530`): it meets an old key
  beside a NULL pointer. `btree_delete` can lock a leaf that has just been linked (`:1111`, `:330`) and shift
  its entries while the thread that split it off inserts into it without its mutex (`:548`); found as the
  hypothesis of `OneWriterHolds`. The range searches call `count()` of the page they began with (`:641`,
  `:750`), also when they have come to a sibling with an odd counter: with pages of four, insert 4, 6, 8, 10
  and delete 8, and a range search from 3 reads one record of the second page, because the first has one,
  and misses 10. One thread suffices, and `ReadersRight` is false of that program; in the workload's programs the scans of
  a page with an odd counter begin at that page. A range search with an upper limit ends at the first
  key beyond it also when it reads a page from the right (`:657`), before it has seen the smaller ones: insert 4, 6
  and 8, delete 6, and the search for what is below 8 returns nothing.
* `LbTree`: `del` shrinks the tree by two stores (`lbtree.cc:1573-1575`) and reads `root_level`
  outside its transaction (`:1560`); a second `del` in between takes a bnode below the root for
  the root (`ShrinksApart`, section 4.5). `tree_search` reads the slot `lookup` found after the transaction
  (`interface.h:249-251`): the slot may hold another key by then. A bnode with one child can
  become the root ("root is guaranteed to have 2 children", `lbtree.cc:1559`), and the next
  delete walks past it (`:1569`).
* `FpTree`: below a full parent the left leaf is unlocked before the parent is marked
  (`fptree.cpp:844`, unlike `:660`), and gets in between miss the moved keys. `find_leaf` takes a node without
  a parent for the root and reads its version later (`:1076`, `:1077`). The node that becomes the root when its
  parent collapses does not get the root bit (`:954-963`), so searches always walk to it; when it splits
  between the two reads, they read the version of what is now the left half and miss the keys of the right one. In the run a
  root without the bit does split then, and the searches beside it are for keys that stay. Nothing unlocks a deleted
  leaf (`:1054`; the comment at `:1052` says `collapse_nodes` does), so whoever still has a pointer to it
  waits for ever, and two threads that delete neighbouring leaves wait for each other (`:1009`, `:1031`).
  A collapsed inode is freed at once (`:935`, `:963`). A scan does not wait for a clean version from
  its second leaf on (`:1292`). The insert counter overflows into the split counter by an or
  (`:241`). `next->prev` is written without the next leaf's lock (`:751`).
* `NvmLog`: an abort whose last record ends its line starts at the next, empty line, takes its offset
  byte for a tag and, unless it happens to be one, exits (`nvm-common.h:635`, `:956`). A line that was sealed and is being appended to can be
  written back in between, and its earlier records are unreadable until it is sealed again. A line's
  offset can point into a record that runs on. Nothing checks that a transaction fits the ring; the pool
  exits when it is exhausted, its free list is not flushed, and recovery is declared but not written.

## 6. Plan

Done: sobtree v2, v1 and v2a with their proofs; fast_fair and lbtree with the proofs about their
writers; fptree; the undo-redo log. Left, in this order:

1. Proofs: `PagesInOrder` of `FastFair`, with keys added to `FFInv`, and
   `ReadersRight` under a hypothesis that excludes the defects of section 5; `Linearizable` of
   `LbTree`, with key ranges added to `LbInv`; `PoolSound` of `NvmLog`.
2. `SobNode` - the pure algorithms: binary search with linear tail, `qsortBleaf`, the four copy
   loops of an inode split, `MASK`/`UNMASK`; checked against `ChildPos`, `IsSplitKey`, `MergedK`.
3. `AtomicQueue` - push, pop, `was_size`, with the worker loop, `wait_for_split` and the
   destructor: a set of jobs (as `SobTree` uses it) as the abstract queue.
4. `SobLeaf` - one lnode slot by slot and line by line, with flushes and a crash at any point.
5. `ValueLog` - chunk hand-over.

## 7. What is not modelled and why

* Hardware aborts of transactions: not a matter of the code.
* Crashes and recovery of the indexes: none of the four has code that reads a tree back after a
  crash, so there is no recovered state to be right or wrong. In `NvmLog` the write-back to NVM
  is modelled and `readLog` says what a recovery could read; the recovery itself is not written.
* Leaf slots and fingerprints of sobtree, fingerprints and values of the baselines, allocators
  other than lbtree's node pool; `bulkload` of lbtree (not compiled), `btree_delete_internal` of
  fast_fair and `search_inode` of sobtree (nothing calls them), printing and statistics.
* The job queue's ring and its shutdown, the pure node algorithms, the value log: section 6.
* Test drivers: phases of threads around the calls the modules model.
* Key generators, command-line drivers, timers: random numbers, floating point, pure I/O.
* The vendored benchmarks and web pages of atomic_queue: not used by the indexes.

`PROJECT.json` lists the status of each part, and under `map` the lines each definition models.
